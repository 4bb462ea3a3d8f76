---------------------- MODULE CanonicalProtocolProofs -----------------------
(***************************************************************************)
(* Proofs about the path of a request and of its result: for every         *)
(* document that a client or a peer may send, every executor and every     *)
(* bound.                                                                  *)
(***************************************************************************)
EXTENDS CanonicalProtocol, StagePipelineProofs, WellFoundedInduction, FiniteSetTheorems

\* A request document that every step of its path passes on as it is.
Carriable(d) ==
    /\ SchemaRequest(d) /\ DomainRequest(RequestParts(d))
    /\ RequestToValue(RequestParts(d)) = d

\* A result document that is the same once it was taken apart.
Rebuilds(d) == ResultToValue(ResultParts(d)) = d

LostRequest == {"CorruptData", "stored_request_invalid", "MalformedDocument"}

\* What the steps of the path rely on: the store's copy of a request is the
\* client's document, and a run or a submission belongs to a leased request.
CanonicalInv ==
    /\ PipelineInv
    /\ provenance = None <=> request = None
    /\ request = None => outcome = Idle /\ submission = None
    /\ client = None => request = None
    /\ client # None => client \in RequestDocuments
    /\ request = None /\ reply.state = "accepted" => reply.value = client /\ Carriable(client)
    /\ request # None => request = RequestParts(client) /\ Carriable(client)
    /\ submission # None => Rebuilds(submission)
    /\ reply.state \in {"none", "refused", "accepted"}
    /\ reply.state = "refused" => reply.error \notin LostRequest

-----------------------------------------------------------------------------
(***************************************************************************)
(* Induction, as a statement about sets of natural numbers.                *)
(***************************************************************************)

LEMMA NatSetInduction ==
    ASSUME NEW S \in SUBSET Nat, 0 \in S, \A n \in S : n + 1 \in S
    PROVE  S = Nat
<1> DEFINE T == Nat \ S
           R == OpToRel(<, Nat)
<1>1. IsWellFoundedOn(R, Nat)
    BY NatLessThanWellFounded, Zenon
<1>2. \A x, y \in Nat : <<y, x>> \in R <=> y < x
    BY DEF OpToRel
<1> HIDE DEF R
<1>3. ASSUME T # {} PROVE FALSE
  <2>1. \E x \in T : \A y \in T : ~(<<y, x>> \in R)
      BY <1>1, <1>3, WFMin
  <2>2. PICK x \in T : \A y \in T : ~(y < x)
      BY <2>1, <1>2
  <2>3. x # 0 /\ x \in Nat
      OBVIOUS
  <2>4. x - 1 \in Nat /\ x - 1 \notin T
      BY <2>2, <2>3
  <2>5. (x - 1) + 1 \in S
      BY <2>4
  <2> QED
      BY <2>3, <2>5
<1> QED
    BY <1>3

\* What holds of 0 and is handed on up to a bound holds up to the bound.
LEMMA BoundedInduction ==
    ASSUME NEW bound \in Nat, NEW S, 0 \in S,
           \A n \in Nat : n < bound /\ n \in S => n + 1 \in S
    PROVE  0 .. bound \subseteq S
<1> DEFINE T == {n \in Nat : n <= bound => n \in S}
<1>1. T \in SUBSET Nat /\ 0 \in T
    OBVIOUS
<1>2. \A n \in T : n + 1 \in T
    OBVIOUS
<1>3. T = Nat
    BY <1>1, <1>2, NatSetInduction
<1> QED
    BY <1>3

\* A loop over 1 .. bound, with states in D.
IsLoop(bound, D, start, step) ==
    bound \in Nat /\ start \in D /\ step \in [1 .. bound -> [D -> D]]

\* Its states, before the first round and after every round.
IsRunOf(f, bound, D, start, step) ==
    /\ f \in [0 .. bound -> D]
    /\ f[0] = start /\ \A i \in 1 .. bound : f[i] = step[i][f[i - 1]]

\* Every loop runs.
LEMMA LoopIsDefined ==
    ASSUME NEW bound, NEW D, NEW start, NEW step, IsLoop(bound, D, start, step)
    PROVE  \E f : IsRunOf(f, bound, D, start, step)
<1> bound \in Nat /\ start \in D /\ step \in [1 .. bound -> [D -> D]]
    BY DEF IsLoop
<1> DEFINE Runs(n, f) == f[0] = start /\ \A i \in 1 .. n : f[i] = step[i][f[i - 1]]
           S == {n \in Nat : \E f \in [0 .. n -> D] : Runs(n, f)}
<1>1. 0 \in S
  <2> DEFINE g == [i \in 0 .. 0 |-> start]
  <2>1. g \in [0 .. 0 -> D] /\ Runs(0, g)
      OBVIOUS
  <2> QED
      BY <2>1
<1>2. ASSUME NEW n \in Nat, n < bound, n \in S PROVE n + 1 \in S
  <2>1. PICK f \in [0 .. n -> D] : Runs(n, f)
      BY <1>2
  <2> DEFINE last == step[n + 1][f[n]]
             g == [i \in 0 .. n + 1 |-> IF i = n + 1 THEN last ELSE f[i]]
  <2>2. last \in D
    <3>1. n + 1 \in 1 .. bound /\ n \in 0 .. n
        BY <1>2
    <3> QED
        BY <3>1
  <2> HIDE DEF last
  <2>3. g \in [0 .. n + 1 -> D]
      BY <2>2
  <2>4. g[0] = start
      BY <2>1
  <2>5. ASSUME NEW i \in 1 .. n + 1 PROVE g[i] = step[i][g[i - 1]]
    <3>1. CASE i = n + 1
      <4>1. g[i - 1] = f[n] /\ g[i] = last
          BY <3>1
      <4> QED
          BY <4>1, <3>1 DEF last
    <3>2. CASE i # n + 1
      <4>1. i \in 1 .. n /\ i - 1 \in 0 .. n /\ i - 1 # n + 1
          BY <3>2
      <4>2. g[i] = f[i] /\ g[i - 1] = f[i - 1]
          BY <4>1, <3>2
      <4> QED
          BY <4>1, <4>2, <2>1
    <3> QED
        BY <3>1, <3>2
  <2>6. Runs(n + 1, g)
      BY <2>4, <2>5
  <2> HIDE DEF g, Runs
  <2> QED
      BY <2>3, <2>6
<1> HIDE DEF S
<1>3. 0 .. bound \subseteq S
    BY <1>1, <1>2, BoundedInduction
<1>4. bound \in S
    BY <1>3
<1>5. PICK f \in [0 .. bound -> D] : Runs(bound, f)
    BY <1>4 DEF S
<1> QED
    BY <1>5 DEF IsRunOf

-----------------------------------------------------------------------------
(***************************************************************************)
(* The hand-written parsers and the schema's patterns.                     *)
(***************************************************************************)

ScanStart == [valid |-> TRUE, segment_start |-> TRUE]
ScanStates == [valid : BOOLEAN, segment_start : BOOLEAN]

\* The loop of validate_lower_token is well defined.
LEMMA ScanRecursion ==
    ASSUME NEW token \in Seq(Characters)
    PROVE  /\ Scans(token)[0] = ScanStart
           /\ \A i \in 1 .. Len(token) :
                 Scans(token)[i] = Scanned(Scans(token)[i - 1], token[i], token)
<1> DEFINE n == Len(token)
           body(f, i) == IF i = 0 THEN ScanStart ELSE Scanned(f[i - 1], token[i], token)
           step == [i \in 1 .. n |-> [scan \in ScanStates |-> Scanned(scan, token[i], token)]]
           scans == CHOOSE f : f = [i \in 0 .. n |-> body(f, i)]
<1>1. n \in Nat /\ ScanStart \in ScanStates
    BY DEF ScanStart, ScanStates
<1>2. step \in [1 .. n -> [ScanStates -> ScanStates]]
    BY DEF Scanned, ScanStates
<1>3. PICK f : IsRunOf(f, n, ScanStates, ScanStart, step)
  <2>1. IsLoop(n, ScanStates, ScanStart, step)
      BY <1>1, <1>2 DEF IsLoop
  <2> QED
      BY <2>1, LoopIsDefined
<1>4. /\ f \in [0 .. n -> ScanStates] /\ f[0] = ScanStart
      /\ \A i \in 1 .. n : f[i] = step[i][f[i - 1]]
    BY <1>3 DEF IsRunOf
<1>5. ASSUME NEW i \in 0 .. n PROVE f[i] = body(f, i)
  <2>1. CASE i # 0
    <3>1. i \in 1 .. n /\ f[i - 1] \in ScanStates
        BY <1>1, <1>4, <2>1
    <3>2. step[i][f[i - 1]] = Scanned(f[i - 1], token[i], token)
        BY <3>1
    <3>3. f[i] = step[i][f[i - 1]]
        BY <1>4, <3>1
    <3> QED
        BY <2>1, <3>2, <3>3
  <2> QED
      BY <1>4, <2>1
<1> HIDE DEF body
<1>6. f = [i \in 0 .. n |-> body(f, i)]
    BY <1>4, <1>5
<1>7. scans = [i \in 0 .. n |-> body(scans, i)]
    BY <1>6
<1>8. Scans(token) = scans
    BY DEF Scans, ScanStart, body
<1> HIDE DEF scans
<1>9. scans[0] = body(scans, 0) /\ \A i \in 1 .. n : scans[i] = body(scans, i)
    BY <1>1, <1>7
<1> QED
    BY <1>8, <1>9 DEF body

\* The bytes up to i: no separator comes first or after another one, and the
\* first byte is no digit.
InOrder(token, i) ==
    \A j \in 1 .. i :
        /\ token[j] \in {"a", "1"} \cup Separators
        /\ token[j] \in Separators => j # 1 /\ token[j - 1] \notin Separators
        /\ j = 1 => token[j] # "1"

\* What the loop of validate_lower_token knows after i bytes.
LEMMA ScanMeaning ==
    ASSUME NEW token \in Seq(Characters)
    PROVE  \A i \in 0 .. Len(token) :
              LET scan == Scans(token)[i] IN
              /\ scan.valid \in BOOLEAN /\ scan.segment_start \in BOOLEAN
              /\ scan.valid <=> InOrder(token, i)
              /\ scan.valid => (scan.segment_start <=> i = 0 \/ token[i] \in Separators)
<1> DEFINE P(i) ==
              LET scan == Scans(token)[i] IN
              /\ scan.valid \in BOOLEAN /\ scan.segment_start \in BOOLEAN
              /\ scan.valid <=> InOrder(token, i)
              /\ scan.valid => (scan.segment_start <=> i = 0 \/ token[i] \in Separators)
           S == {i \in Nat : P(i)}
<1> Len(token) \in Nat
    OBVIOUS
<1>1. P(0)
  <2>1. InOrder(token, 0)
      BY DEF InOrder
  <2>2. Scans(token)[0].valid = TRUE /\ Scans(token)[0].segment_start = TRUE
      BY ScanRecursion DEF ScanStart
  <2> QED
      BY <2>1, <2>2
<1>2. ASSUME NEW n \in Nat, n < Len(token), P(n) PROVE P(n + 1)
  <2> DEFINE old == Scans(token)[n]
             new == Scans(token)[n + 1]
             byte == token[n + 1]
  <2>1. new = Scanned(old, byte, token)
    <3>1. n + 1 \in 1 .. Len(token) /\ (n + 1) - 1 = n
        BY <1>2
    <3> QED
        BY <3>1, ScanRecursion
  <2>2. byte \in Characters
      BY <1>2
  <2>3. InOrder(token, n + 1) <=>
           /\ InOrder(token, n)
           /\ byte \in {"a", "1"} \cup Separators
           /\ byte \in Separators => n # 0 /\ token[n] \notin Separators
           /\ n = 0 => byte # "1"
    <3>1. 1 .. n + 1 = 1 .. n \cup {n + 1} /\ (n + 1 = 1 <=> n = 0) /\ (n + 1) - 1 = n
        BY <1>2
    <3> QED
        BY <3>1 DEF InOrder
  <2>4. n # 0 /\ InOrder(token, n) => token[1] # "1"
      BY DEF InOrder
  <2>5. /\ old.valid \in BOOLEAN /\ old.segment_start \in BOOLEAN
        /\ old.valid <=> InOrder(token, n)
        /\ old.valid => (old.segment_start <=> n = 0 \/ token[n] \in Separators)
      BY <1>2
  <2>6. n + 1 # 0 /\ (n = 0 => byte = token[1])
      OBVIOUS
  <2> HIDE DEF old, new, byte
  <2>7. CASE ~old.valid
    <3>1. new = old
        BY <2>1, <2>7 DEF Scanned
    <3> QED
        BY <3>1, <2>7, <2>3, <2>5 DEF new
  <2>8. CASE old.valid /\ byte \in Separators
    <3>1. new = [valid |-> ~old.segment_start, segment_start |-> TRUE]
        BY <2>1, <2>8 DEF Scanned
    <3>2. new.valid = ~old.segment_start /\ new.segment_start = TRUE
        BY <3>1
    <3>3. byte # "1" /\ byte \in {"a", "1"} \cup Separators
        BY <2>8 DEF Separators
    <3> QED
        BY <3>2, <3>3, <2>8, <2>3, <2>5 DEF new, byte
  <2>9. CASE old.valid /\ byte \notin Separators
    <3>1. new = [valid |-> byte \in {"a", "1"}
                            /\ ~(byte = "1" /\ old.segment_start /\ token[1] = byte),
                 segment_start |-> FALSE]
        BY <2>1, <2>9 DEF Scanned
    <3>2. /\ new.valid = (byte \in {"a", "1"}
                            /\ ~(byte = "1" /\ old.segment_start /\ token[1] = byte))
          /\ new.segment_start = FALSE
        BY <3>1
    <3>3. new.valid <=> byte \in {"a", "1"} /\ (n = 0 => byte # "1")
        BY <3>2, <2>9, <2>4, <2>5, <2>6
    <3>4. new.valid \in BOOLEAN /\ new.segment_start \in BOOLEAN
        BY <3>2
    <3> QED
        BY <3>2, <3>3, <3>4, <2>9, <2>3, <2>5 DEF new, byte
  <2> QED
      BY <2>7, <2>8, <2>9, <2>5
<1> HIDE DEF P
<1>3. 0 \in S /\ \A n \in Nat : n < Len(token) /\ n \in S => n + 1 \in S
    BY <1>1, <1>2
<1>4. 0 .. Len(token) \subseteq S
  <2> HIDE DEF S
  <2> QED
      BY <1>3, BoundedInduction
<1> QED
    BY <1>4 DEF P

\* Capability::parse and the schema's pattern are the same grammar, for
\* tokens of every length.
LEMMA CapabilityGrammar ==
    ASSUME NEW token \in Seq(Characters)
    PROVE  ValidLowerToken(token) <=> SchemaCapability(token)
<1> DEFINE n == Len(token)
<1>1. n \in Nat /\ MaxToken \in Nat /\ (token # << >> <=> n # 0)
    BY TokenAssumption
<1>2. ASSUME n # 0
      PROVE  ValidLowerToken(token) <=>
                n <= MaxToken /\ InOrder(token, n) /\ token[n] \notin Separators
  <2> DEFINE end == Scans(token)[n]
  <2>1. n \in 0 .. Len(token)
      BY <1>1
  <2>2. /\ end.valid \in BOOLEAN /\ end.segment_start \in BOOLEAN
        /\ end.valid <=> InOrder(token, n)
        /\ end.valid => (end.segment_start <=> n = 0 \/ token[n] \in Separators)
      BY <2>1, ScanMeaning
  <2>3. ValidLowerToken(token) <=> n <= MaxToken /\ end.valid /\ ~end.segment_start
      BY <1>1, <1>2 DEF ValidLowerToken
  <2> HIDE DEF end, n
  <2> QED
      BY <2>2, <2>3, <1>2
<1>3. ASSUME n # 0
      PROVE  InOrder(token, n) /\ token[n] \notin Separators <=>
                token[1] = "a" /\ Segmented(token, {"a", "1"}, Separators)
  <2> n \in Nat /\ 1 \in 1 .. n /\ n \in 1 .. n
      BY <1>1, <1>3
  <2>1. {"a", "1"} \cap Separators = {}
      BY DEF Separators
  <2>2. Range(token) = {token[i] : i \in 1 .. n}
      BY DEF Range
  <2> HIDE DEF n
  <2>3. ASSUME InOrder(token, n), token[n] \notin Separators
        PROVE  token[1] = "a" /\ Segmented(token, {"a", "1"}, Separators)
    <3>1. token[1] = "a" /\ token[n] \in {"a", "1"}
        BY <2>3 DEF InOrder
    <3>2. ASSUME NEW i \in 1 .. (n - 1)
          PROVE  token[i] \in {"a", "1"} \/ token[i + 1] \in {"a", "1"}
      <4>1. i \in 1 .. n /\ i + 1 \in 1 .. n /\ (i + 1) - 1 = i
          OBVIOUS
      <4> QED
          BY <4>1, <2>3 DEF InOrder
    <3>3. Range(token) \subseteq {"a", "1"} \cup Separators
        BY <2>2, <2>3 DEF InOrder
    <3> QED
        BY <3>1, <3>2, <3>3, <1>1, <1>3 DEF Segmented, n
  <2>4. ASSUME token[1] = "a", Segmented(token, {"a", "1"}, Separators)
        PROVE  InOrder(token, n) /\ token[n] \notin Separators
    <3>1. token[n] \notin Separators
        BY <2>1, <2>4 DEF Segmented, n
    <3>2. ASSUME NEW j \in 1 .. n
          PROVE  /\ token[j] \in {"a", "1"} \cup Separators
                 /\ token[j] \in Separators => j # 1 /\ token[j - 1] \notin Separators
                 /\ j = 1 => token[j] # "1"
      <4>1. token[j] \in {"a", "1"} \cup Separators
          BY <2>2, <2>4 DEF Segmented
      <4>2. j = 1 => token[j] = "a" /\ token[j] \notin Separators
          BY <2>1, <2>4
      <4>3. ASSUME j # 1, token[j] \in Separators PROVE token[j - 1] \notin Separators
        <5>1. j - 1 \in 1 .. (n - 1) /\ (j - 1) + 1 = j
            BY <4>3
        <5>2. token[j - 1] \in {"a", "1"} \/ token[j] \in {"a", "1"}
            BY <5>1, <2>4 DEF Segmented, n
        <5> QED
            BY <5>2, <4>3, <2>1
      <4> QED
          BY <4>1, <4>2, <4>3
    <3> QED
        BY <3>1, <3>2 DEF InOrder
  <2> QED
      BY <2>3, <2>4
<1>4. SchemaCapability(token) <=>
         n # 0 /\ n <= MaxToken /\ token[1] = "a" /\ Segmented(token, {"a", "1"}, Separators)
    BY <1>1 DEF SchemaCapability
<1>5. n = 0 => ~ValidLowerToken(token)
    BY <1>1 DEF ValidLowerToken
<1> HIDE DEF n
<1> QED
    BY <1>2, <1>3, <1>4, <1>5

\* RequestId::parse and the schema's pattern, likewise.
LEMMA OpaqueGrammar ==
    ASSUME NEW token \in Seq(Characters)
    PROVE  ValidOpaque(token) <=> SchemaOpaqueId(token)
<1> DEFINE n == Len(token)
<1>1. n \in Nat /\ MaxToken \in Nat /\ (token # << >> <=> n # 0)
    BY TokenAssumption
<1>2. ASSUME n # 0
      PROVE  Range(Tail(token)) = {token[i] : i \in 2 .. n}
  <2>1. Len(Tail(token)) = n - 1 /\ \A i \in 1 .. (n - 1) : Tail(token)[i] = token[i + 1]
      BY <1>1, <1>2
  <2>2. Range(Tail(token)) = {token[i + 1] : i \in 1 .. (n - 1)}
    <3>1. DOMAIN Tail(token) = 1 .. (n - 1)
        BY <2>1, <1>2
    <3>2. Range(Tail(token)) = {Tail(token)[i] : i \in 1 .. (n - 1)}
        BY <3>1 DEF Range
    <3> HIDE DEF n
    <3> QED
        BY <2>1, <3>2
  <2>3. \A i \in 1 .. (n - 1) : i + 1 \in 2 .. n
      BY <1>1
  <2>4. \A i \in 2 .. n : i - 1 \in 1 .. (n - 1) /\ (i - 1) + 1 = i
      BY <1>1
  <2> HIDE DEF n
  <2> QED
      BY <2>2, <2>3, <2>4
<1> HIDE DEF n
<1>3. n # 0 => (Range(Tail(token)) \subseteq Alphanumeric \cup Separators
                <=> \A i \in 2 .. n : token[i] \in Alphanumeric \cup Separators)
    BY <1>2
<1> QED
    BY <1>1, <1>3 DEF ValidOpaque, SchemaOpaqueId, n

LEMMA PlanHasNoDuplicates == NoDuplicates(Stages)
<1> DEFINE S1 == {"prepare"}
           S2 == S1 \cup {"build"}
           S3 == S2 \cup {"run"}
           S4 == S3 \cup {"check"}
           S5 == S4 \cup {"aggregate"}
<1>1. IsFiniteSet(S1) /\ Cardinality(S1) = 1
    BY FS_Singleton
<1>2. IsFiniteSet(S2) /\ Cardinality(S2) = 2
  <2>1. "build" \notin S1
      OBVIOUS
  <2> HIDE DEF S1
  <2> QED
      BY <1>1, <2>1, FS_AddElement
<1>3. IsFiniteSet(S3) /\ Cardinality(S3) = 3
  <2>1. "run" \notin S2
      OBVIOUS
  <2> HIDE DEF S2
  <2> QED
      BY <1>2, <2>1, FS_AddElement
<1>4. IsFiniteSet(S4) /\ Cardinality(S4) = 4
  <2>1. "check" \notin S3
      OBVIOUS
  <2> HIDE DEF S3
  <2> QED
      BY <1>3, <2>1, FS_AddElement
<1>5. IsFiniteSet(S5) /\ Cardinality(S5) = 5
  <2>1. "aggregate" \notin S4
      OBVIOUS
  <2> HIDE DEF S4
  <2> QED
      BY <1>4, <2>1, FS_AddElement
<1>6. Range(Stages) = S5
  <2>1. Range(Stages) = {Stages[i] : i \in 1 .. 5}
      BY ThePlan DEF Range
  <2>2. 1 .. 5 = {1, 2, 3, 4, 5}
      OBVIOUS
  <2> QED
      BY <2>1, <2>2, ThePlan
<1> HIDE DEF S5
<1> QED
    BY <1>5, <1>6, ThePlan DEF NoDuplicates

\* The constructors of a request and the schema's rules are the same, but for
\* the plan, of which the schema only asks that no stage comes twice.
LEMMA RequestGrammar ==
    ASSUME NEW d \in RequestDocuments
    PROVE  /\ DomainRequest(RequestParts(d)) => SchemaRequest(RequestToValue(RequestParts(d)))
           /\ SchemaRequest(d) /\ RequestParts(d).plan = Stages => DomainRequest(RequestParts(d))
<1> DEFINE r == RequestParts(d)
           v == RequestToValue(r)
<1>1. /\ r.request_id = d.request_id /\ r.attempt_number = d.attempt_number
      /\ r.plan = d.plan.stages /\ r.policy = d.policy.limit
      /\ r.required_capabilities = d.required_capabilities
    BY DEF RequestParts
<1>2. /\ v.request_id = d.request_id /\ v.attempt_number = d.attempt_number
      /\ v.plan.profile = "algorithm_batch" /\ v.plan.stages = d.plan.stages
      /\ v.policy.limit = d.policy.limit /\ v.policy.network = "denied"
      /\ v.required_capabilities = d.required_capabilities
    BY DEF RequestToValue, RequestParts
<1> HIDE DEF r, v
<1>3. /\ d.request_id \in Seq(Characters) /\ d.attempt_number \in Nat
      /\ d.policy.limit \in Nat /\ d.required_capabilities \in Seq(Seq(Characters))
      /\ MaxNumber \in Nat /\ MaxPolicy \in Nat
    BY CanonicalAssumption
<1>4. ValidOpaque(d.request_id) <=> SchemaOpaqueId(d.request_id)
    BY <1>3, OpaqueGrammar
<1>5. \A c \in Range(d.required_capabilities) : ValidLowerToken(c) <=> SchemaCapability(c)
    BY <1>3, CapabilityGrammar DEF Range
<1>6. ASSUME DomainRequest(r) PROVE SchemaRequest(v)
  <2>1. d.plan.stages = Stages /\ Stages # << >>
      BY <1>1, <1>6 DEF DomainRequest, Stages
  <2>2. d.attempt_number \in 1 .. MaxNumber /\ d.policy.limit \in 1 .. MaxPolicy
      BY <1>1, <1>3, <1>6 DEF DomainRequest
  <2> QED
      BY <1>1, <1>2, <1>4, <1>5, <1>6, <2>1, <2>2, PlanHasNoDuplicates
      DEF DomainRequest, SchemaRequest
<1>7. ASSUME SchemaRequest(d), r.plan = Stages PROVE DomainRequest(r)
  <2>1. /\ d.attempt_number >= 1 /\ d.attempt_number <= MaxNumber
        /\ d.policy.limit >= 1 /\ d.policy.limit <= MaxPolicy
      BY <1>3, <1>7 DEF SchemaRequest
  <2> QED
      BY <1>1, <1>4, <1>5, <1>7, <2>1 DEF DomainRequest, SchemaRequest
<1> QED
    BY <1>6, <1>7 DEF r, v

-----------------------------------------------------------------------------
(***************************************************************************)
(* The usage of a result, added up over its stages.                        *)
(***************************************************************************)

Counts == [spent : Nat, peak : Nat]

\* The loop's body, in validate_aggregate_usage's order of comparison.
Plus(u, v) == [spent |-> u.spent + v.spent, peak |-> IF u.peak < v.peak THEN v.peak ELSE u.peak]

LEMMA PlusIsAdded ==
    ASSUME NEW u \in Counts, NEW v \in Counts
    PROVE  Plus(u, v) = Added(u, v) /\ Plus(u, v) \in Counts
<1>1. u.spent \in Nat /\ u.peak \in Nat /\ v.spent \in Nat /\ v.peak \in Nat
    BY DEF Counts
<1>2. \A a, b \in Nat : (IF a < b THEN b ELSE a) = (IF a >= b THEN a ELSE b)
    OBVIOUS
<1>3. Plus(u, v) = Added(u, v)
    BY <1>1, <1>2 DEF Plus, Added
<1> QED
    BY <1>1, <1>3 DEF Plus, Counts

LEMMA ReportUsage ==
    /\ NoUsage \in Counts /\ NoUsage.spent = 0 /\ NoUsage.peak = 0
    /\ Usages \subseteq Counts
    /\ \A stages \in Seq(Reports) : \A i \in 1 .. Len(stages) : stages[i].usage \in Counts
<1>1. Usages \subseteq Counts
    BY PipelineAssumption DEF Usages, Counts
<1>2. \A r \in Reports : r.usage \in Counts
    BY <1>1 DEF Reports
<1> QED
    BY <1>1, <1>2 DEF NoUsage, Counts

\* The loop of validate_aggregate_usage is well defined.
LEMMA TotalsRecursion ==
    ASSUME NEW stages \in Seq(Reports)
    PROVE  /\ Totals(stages)[0] = NoUsage
           /\ \A i \in 1 .. Len(stages) :
                 Totals(stages)[i] = Plus(Totals(stages)[i - 1], stages[i].usage)
<1> DEFINE n == Len(stages)
           body(f, i) == IF i = 0 THEN NoUsage ELSE Plus(f[i - 1], stages[i].usage)
           step == [i \in 1 .. n |-> [u \in Counts |-> Plus(u, stages[i].usage)]]
           totals == CHOOSE f : f = [i \in 0 .. n |-> body(f, i)]
<1>1. n \in Nat /\ NoUsage \in Counts
    BY ReportUsage
<1>2. step \in [1 .. n -> [Counts -> Counts]]
    BY ReportUsage, PlusIsAdded
<1>3. PICK f : IsRunOf(f, n, Counts, NoUsage, step)
  <2>1. IsLoop(n, Counts, NoUsage, step)
      BY <1>1, <1>2 DEF IsLoop
  <2> QED
      BY <2>1, LoopIsDefined
<1>4. /\ f \in [0 .. n -> Counts] /\ f[0] = NoUsage
      /\ \A i \in 1 .. n : f[i] = step[i][f[i - 1]]
    BY <1>3 DEF IsRunOf
<1>5. ASSUME NEW i \in 0 .. n PROVE f[i] = body(f, i)
  <2>1. CASE i # 0
    <3>1. i \in 1 .. n /\ f[i - 1] \in Counts
        BY <1>1, <1>4, <2>1
    <3>2. step[i][f[i - 1]] = Plus(f[i - 1], stages[i].usage)
        BY <3>1
    <3>3. f[i] = step[i][f[i - 1]]
        BY <1>4, <3>1
    <3> QED
        BY <2>1, <3>2, <3>3
  <2> QED
      BY <1>4, <2>1
<1> HIDE DEF body
<1>6. f = [i \in 0 .. n |-> body(f, i)]
    BY <1>4, <1>5
<1>7. totals = [i \in 0 .. n |-> body(totals, i)]
    BY <1>6
<1>8. Totals(stages) = totals
    BY DEF Totals, Plus, body
<1> HIDE DEF totals
<1>9. totals[0] = body(totals, 0) /\ \A i \in 1 .. n : totals[i] = body(totals, i)
    BY <1>1, <1>7
<1> QED
    BY <1>8, <1>9 DEF body

LEMMA TotalsTyped ==
    ASSUME NEW stages \in Seq(Reports)
    PROVE  \A i \in 0 .. Len(stages) : Totals(stages)[i] \in Counts
<1> DEFINE S == {i \in Nat : Totals(stages)[i] \in Counts}
<1>1. Len(stages) \in Nat /\ 0 \in S
    BY TotalsRecursion, ReportUsage
<1>2. ASSUME NEW n \in Nat, n < Len(stages), n \in S PROVE n + 1 \in S
  <2>1. n + 1 \in 1 .. Len(stages) /\ (n + 1) - 1 = n
      BY <1>2
  <2>2. Totals(stages)[n + 1] = Plus(Totals(stages)[n], stages[n + 1].usage)
      BY <2>1, TotalsRecursion
  <2>3. stages[n + 1].usage \in Counts /\ Totals(stages)[n] \in Counts
      BY <1>2, <2>1, ReportUsage
  <2> QED
      BY <2>2, <2>3, PlusIsAdded
<1> HIDE DEF S
<1>3. 0 .. Len(stages) \subseteq S
    BY <1>1, <1>2, BoundedInduction
<1> QED
    BY <1>3 DEF S

\* The totals of the first stages do not depend on those that follow.
LEMMA TotalsOfPrefix ==
    ASSUME NEW s \in Seq(Reports), NEW t \in Seq(Reports), Len(s) <= Len(t),
           \A i \in 1 .. Len(s) : t[i] = s[i]
    PROVE  \A i \in 0 .. Len(s) : Totals(t)[i] = Totals(s)[i]
<1> DEFINE S == {i \in Nat : Totals(t)[i] = Totals(s)[i]}
<1>1. Len(s) \in Nat /\ 0 \in S
    BY TotalsRecursion
<1>2. ASSUME NEW n \in Nat, n < Len(s), n \in S PROVE n + 1 \in S
  <2>1. n + 1 \in 1 .. Len(s) /\ n + 1 \in 1 .. Len(t) /\ (n + 1) - 1 = n
      BY <1>2
  <2>2. /\ Totals(s)[n + 1] = Plus(Totals(s)[n], s[n + 1].usage)
        /\ Totals(t)[n + 1] = Plus(Totals(t)[n], t[n + 1].usage)
      BY <2>1, TotalsRecursion
  <2> QED
      BY <1>2, <2>1, <2>2
<1> HIDE DEF S
<1>3. 0 .. Len(s) \subseteq S
    BY <1>1, <1>2, BoundedInduction
<1> QED
    BY <1>3 DEF S

\* Stages that used nothing leave the totals as they are.
LEMMA TotalsOfSkipped ==
    ASSUME NEW t \in Seq(Reports), NEW k \in 0 .. Len(t),
           \A i \in (k + 1) .. Len(t) : t[i].usage = NoUsage
    PROVE  Totals(t)[Len(t)] = Totals(t)[k]
<1> DEFINE rest == Len(t) - k
           S == {i \in Nat : Totals(t)[k + i] = Totals(t)[k]}
<1>1. Len(t) \in Nat /\ k \in Nat /\ rest \in Nat /\ k + rest = Len(t) /\ k + 0 = k
    OBVIOUS
<1>2. 0 \in S
    BY <1>1
<1>3. ASSUME NEW n \in Nat, n < rest, n \in S PROVE n + 1 \in S
  <2>1. /\ k + (n + 1) \in 1 .. Len(t) /\ (k + (n + 1)) - 1 = k + n
        /\ k + (n + 1) \in (k + 1) .. Len(t) /\ k + n \in 0 .. Len(t)
      BY <1>1, <1>3
  <2>2. Totals(t)[k + (n + 1)] = Plus(Totals(t)[k + n], NoUsage)
      BY <2>1, TotalsRecursion
  <2>3. Totals(t)[k + n] \in Counts
      BY <2>1, TotalsTyped
  <2>4. \A u \in Counts : Plus(u, NoUsage) = u
      BY ReportUsage DEF Plus, Counts
  <2> QED
      BY <1>3, <2>2, <2>3, <2>4
<1> HIDE DEF S, rest
<1>4. 0 .. rest \subseteq S
    BY <1>1, <1>2, <1>3, BoundedInduction
<1>5. rest \in S
    BY <1>1, <1>4
<1> QED
    BY <1>1, <1>5 DEF S

\* validate_aggregate_usage says what it should: the counters are added up, and
\* the peak is the greatest of the stages.
LEMMA TotalsMeaning ==
    ASSUME NEW stages \in Seq(Reports), stages # << >>, NEW u \in Usages
    PROVE  u = Totals(stages)[Len(stages)] <=>
              /\ u.spent = Spent(stages)
              /\ \A i \in DOMAIN stages : stages[i].usage.peak <= u.peak
              /\ \E i \in DOMAIN stages : stages[i].usage.peak = u.peak
<1> DEFINE n == Len(stages)
           T(i) == Totals(stages)[i]
           body(f, i) == IF i = 0 THEN 0 ELSE f[i - 1] + stages[i].usage.spent
           step == [i \in 1 .. n |-> [s \in Nat |-> s + stages[i].usage.spent]]
           sums == CHOOSE f : f = [i \in 0 .. n |-> body(f, i)]
           Greatest(p, i) == /\ \A j \in 1 .. i : stages[j].usage.peak <= p
                             /\ i # 0 => \E j \in 1 .. i : stages[j].usage.peak = p
           S == {i \in Nat : T(i).spent = sums[i] /\ Greatest(T(i).peak, i)}
<1>1. n \in Nat /\ n # 0 /\ DOMAIN stages = 1 .. n
    OBVIOUS
<1>2. \A i \in 1 .. n : stages[i].usage.spent \in Nat /\ stages[i].usage.peak \in Nat
    BY ReportUsage DEF Counts
<1>3. \A i \in 0 .. n : T(i).spent \in Nat /\ T(i).peak \in Nat
                        /\ T(i) = [spent |-> T(i).spent, peak |-> T(i).peak]
    BY TotalsTyped DEF Counts
<1>4. u = [spent |-> u.spent, peak |-> u.peak] /\ u.peak \in Nat
    BY PipelineAssumption DEF Usages
<1>5. sums = [i \in 0 .. n |-> body(sums, i)] /\ Spent(stages) = sums[n]
  <2>1. step \in [1 .. n -> [Nat -> Nat]]
      BY <1>2
  <2>2. PICK f : IsRunOf(f, n, Nat, 0, step)
    <3>1. IsLoop(n, Nat, 0, step)
        BY <1>1, <2>1 DEF IsLoop
    <3> QED
        BY <3>1, LoopIsDefined
  <2>3. /\ f \in [0 .. n -> Nat] /\ f[0] = 0
        /\ \A i \in 1 .. n : f[i] = step[i][f[i - 1]]
      BY <2>2 DEF IsRunOf
  <2>4. ASSUME NEW i \in 0 .. n PROVE f[i] = body(f, i)
    <3>1. CASE i # 0
      <4>1. i \in 1 .. n /\ f[i - 1] \in Nat
        <5>1. i \in 1 .. n /\ i - 1 \in 0 .. n
            BY <1>1, <3>1
        <5> QED
            BY <2>3, <5>1
      <4>2. step[i][f[i - 1]] = f[i - 1] + stages[i].usage.spent
          BY <4>1
      <4>3. f[i] = step[i][f[i - 1]]
          BY <2>3, <4>1
      <4> QED
          BY <3>1, <4>2, <4>3
    <3> QED
        BY <2>3, <3>1
  <2> HIDE DEF body
  <2>5. f = [i \in 0 .. n |-> body(f, i)]
      BY <2>3, <2>4
  <2>6. sums = [i \in 0 .. n |-> body(sums, i)]
      BY <2>5
  <2>7. Spent(stages) = sums[n]
      BY DEF Spent, body
  <2> QED
      BY <2>6, <2>7
<1> HIDE DEF sums
<1>6. 0 \in S
  <2>1. T(0) = NoUsage /\ sums[0] = 0
      BY <1>1, <1>5, TotalsRecursion
  <2> QED
      BY <2>1, ReportUsage
<1>7. ASSUME NEW k \in Nat, k < n, k \in S PROVE k + 1 \in S
  <2> DEFINE v == stages[k + 1].usage
             p == T(k).peak
             q == T(k + 1).peak
  <2>1. /\ k + 1 \in 1 .. n /\ (k + 1) - 1 = k /\ k + 1 \in 0 .. n /\ k \in 0 .. n /\ k + 1 # 0
        /\ 1 .. k + 1 = 1 .. k \cup {k + 1}
      BY <1>1, <1>7
  <2>2. T(k + 1) = Plus(T(k), v)
      BY <2>1, TotalsRecursion
  <2>3. T(k + 1).spent = T(k).spent + v.spent /\ q = IF p < v.peak THEN v.peak ELSE p
      BY <2>2 DEF Plus
  <2>4. sums[k + 1] = sums[k] + v.spent
      BY <2>1, <1>5
  <2>5. T(k + 1).spent = sums[k + 1]
      BY <2>3, <2>4, <1>7
  <2>6. p \in Nat /\ v.peak \in Nat /\ Greatest(p, k) /\ (k = 0 => p = 0)
      BY <2>1, <1>2, <1>3, <1>7, TotalsRecursion, ReportUsage
  <2> HIDE DEF v, p
  <2>7. \A j \in 1 .. k : stages[j].usage.peak \in Nat /\ stages[j].usage.peak <= p
      BY <2>6, <1>2, <1>7
  <2>8. CASE p < v.peak
    <3>1. q = v.peak
        BY <2>3, <2>8
    <3>2. \A j \in 1 .. k : stages[j].usage.peak <= v.peak
        BY <2>6, <2>7, <2>8
    <3>3. stages[k + 1].usage.peak = v.peak /\ v.peak <= v.peak
        BY <2>6 DEF v
    <3>4. Greatest(v.peak, k + 1)
        BY <2>1, <3>2, <3>3
    <3> HIDE DEF Greatest, q
    <3>5. Greatest(q, k + 1)
        BY <3>1, <3>4
    <3> QED
        BY <3>5, <2>5 DEF q
  <2>9. CASE ~(p < v.peak)
    <3>1. q = p /\ v.peak <= p
        BY <2>3, <2>6, <2>9
    <3>2. k = 0 => v.peak = p
        BY <3>1, <2>6
    <3>3. \E j \in 1 .. k + 1 : stages[j].usage.peak = p
      <4>1. CASE k = 0
          BY <4>1, <3>2, <2>1 DEF v
      <4>2. CASE k # 0
          BY <4>2, <2>6, <2>1
      <4> QED
          BY <4>1, <4>2
    <3>4. Greatest(p, k + 1)
        BY <2>1, <2>7, <3>1, <3>3 DEF v
    <3> QED
        BY <3>1, <3>4, <2>5
  <2> QED
      BY <2>8, <2>9
<1> HIDE DEF S
<1>8. 0 .. n \subseteq S
  <2> HIDE DEF n
  <2> QED
      BY <1>1, <1>6, <1>7, BoundedInduction
<1>9. T(n).spent = Spent(stages) /\ Greatest(T(n).peak, n)
    BY <1>1, <1>5, <1>8 DEF S
<1>10. \A a, b \in Nat : Greatest(a, n) /\ Greatest(b, n) => a = b
  <2> SUFFICES ASSUME NEW a \in Nat, NEW b \in Nat, Greatest(a, n), Greatest(b, n) PROVE a = b
      OBVIOUS
  <2> HIDE DEF n
  <2>1. PICK i \in 1 .. n : stages[i].usage.peak = a
      BY <1>1
  <2>2. PICK j \in 1 .. n : stages[j].usage.peak = b
      BY <1>1
  <2>3. a <= b /\ b <= a
      BY <2>1, <2>2
  <2> QED
      BY <2>3
<1>11. n \in 0 .. n
    BY <1>1
<1>12. u = T(n) <=> u.spent = T(n).spent /\ u.peak = T(n).peak
    BY <1>3, <1>4, <1>11
<1>13. u.peak = T(n).peak <=> Greatest(u.peak, n)
  <2>1. T(n).peak \in Nat
      BY <1>3, <1>11
  <2> HIDE DEF T, n, Greatest
  <2> QED
      BY <1>4, <1>9, <1>10, <2>1
<1>14. Greatest(u.peak, n) <=>
          /\ \A i \in DOMAIN stages : stages[i].usage.peak <= u.peak
          /\ \E i \in DOMAIN stages : stages[i].usage.peak = u.peak
    BY <1>1
<1>15. u.spent = T(n).spent <=> u.spent = Spent(stages)
    BY <1>9
<1> HIDE DEF Greatest
<1> QED
    BY <1>12, <1>13, <1>14, <1>15

\* EvaluationRun::usage is what validate_aggregate_usage will find.
UsageAddsUp == usage = Totals(reports)[Len(reports)]

\* The result of a run is one that the domain can hold.
EndIsValid ==
    outcome.state = "result" =>
        /\ [i \in DOMAIN reports |-> reports[i].stage] = Stages
        /\ ValidTerminal([status |-> outcome.status, verdict |-> outcome.verdict,
                          earned |-> outcome.earned], reports)

LEMMA TotalsOfPushed ==
    ASSUME NEW rs \in Seq(Reports), NEW report \in Reports, Len(rs) < 5
    PROVE  LET pushed == Append(rs, report)
               all == pushed \o Skipped(pushed)
               total == Added(Totals(rs)[Len(rs)], report.usage) IN
           /\ Totals(pushed)[Len(pushed)] = total
           /\ all \in Seq(Reports) => Totals(all)[Len(all)] = total
<1> DEFINE pushed == Append(rs, report)
           skipped == Skipped(pushed)
           all == pushed \o skipped
           n == Len(rs) + 1
           total == Added(Totals(rs)[Len(rs)], report.usage)
<1>1. /\ pushed \in Seq(Reports) /\ Len(pushed) = n /\ n \in 1 .. 5 /\ pushed[n] = report
      /\ \A i \in 1 .. Len(rs) : pushed[i] = rs[i]
    OBVIOUS
<1>2. Len(rs) \in Nat /\ Len(rs) <= n /\ Len(rs) \in 0 .. Len(rs) /\ n - 1 = Len(rs)
    OBVIOUS
<1> HIDE DEF pushed, n
<1>3. Totals(pushed)[Len(rs)] = Totals(rs)[Len(rs)]
    BY <1>1, <1>2, TotalsOfPrefix
<1>4. Totals(rs)[Len(rs)] \in Counts /\ report.usage \in Counts
    BY <1>2, TotalsTyped, ReportUsage DEF Reports
<1>5. Totals(pushed)[n] = Plus(Totals(pushed)[n - 1], pushed[n].usage)
  <2>1. n \in 1 .. Len(pushed)
      BY <1>1
  <2> QED
      BY <1>1, <2>1, TotalsRecursion
<1>6. Totals(pushed)[n] = total
    BY <1>1, <1>2, <1>3, <1>4, <1>5, PlusIsAdded
<1>7. ASSUME all \in Seq(Reports) PROVE Totals(all)[Len(all)] = total
  <2>1. /\ skipped \in Seq(Reports) /\ Len(skipped) = 5 - n
        /\ \A i \in 1 .. (5 - n) : skipped[i].usage = NoUsage
    <3>1. skipped \in Seq(Reports) /\ Len(skipped) = 5 - n
        BY <1>1, SkippedReports
    <3>2. skipped = [i \in 1 .. (5 - n) |->
             [stage |-> Stages[n + i], status |-> "skipped", usage |-> NoUsage]]
        BY <1>1, ThePlan DEF Skipped
    <3> HIDE DEF skipped
    <3> QED
        BY <3>1, <3>2
  <2> HIDE DEF skipped
  <2>2. /\ Len(all) = n + (5 - n)
        /\ \A i \in 1 .. (n + (5 - n)) : all[i] = IF i <= n THEN pushed[i] ELSE skipped[i - n]
      BY <1>1, <2>1, ConcatProperties
  <2> HIDE DEF all
  <2>3. Len(all) = 5 /\ n <= 5 /\ n \in Nat
      BY <1>1, <2>2
  <2>4. \A i \in 1 .. n : all[i] = pushed[i]
    <3>1. \A i \in 1 .. n : i \in 1 .. (n + (5 - n)) /\ i <= n
        BY <1>1
    <3> QED
        BY <2>2, <3>1
  <2>5. \A i \in (n + 1) .. 5 : all[i].usage = NoUsage
    <3>1. \A i \in (n + 1) .. 5 :
             i \in 1 .. (n + (5 - n)) /\ ~(i <= n) /\ i - n \in 1 .. (5 - n)
        BY <1>1
    <3> QED
        BY <2>1, <2>2, <3>1
  <2>6. Totals(all)[n] = Totals(pushed)[n]
    <3>1. n \in 0 .. Len(pushed) /\ Len(pushed) <= Len(all)
        BY <1>1, <2>3
    <3> QED
        BY <1>1, <1>7, <2>4, <3>1, TotalsOfPrefix
  <2>7. Totals(all)[Len(all)] = Totals(all)[n]
    <3>1. n \in 0 .. Len(all)
        BY <2>3
    <3> QED
        BY <1>7, <2>3, <2>5, <3>1, TotalsOfSkipped
  <2> QED
      BY <1>6, <2>6, <2>7
<1> QED
    BY <1>1, <1>6, <1>7 DEF pushed

\* A turn of evaluate's loop keeps the sum, and brings no end that
\* EvaluationResult::new has not accepted.
LEMMA RecordAddsUp ==
    ASSUME PipelineInv, UsageAddsUp, NEW x \in Executions, Record(x)
    PROVE  UsageAddsUp' /\ EndIsValid'
<1>1. CASE Fail("InvalidExecutorOutput") \/ Fail("Domain")
  <2>1. reports' = reports /\ usage' = usage /\ outcome'.state = "error"
      BY <1>1, OutcomeStates DEF Fail
  <2> QED
      BY <2>1 DEF UsageAddsUp, EndIsValid
<1>2. CASE Push(Stages[Len(reports) + 1], x) /\ UsageFits(Added(usage, x.usage))
  <2> DEFINE n == Len(reports) + 1
             report == [stage |-> Stages[n], status |-> StatusOf(x), usage |-> x.usage]
             pushed == Append(reports, report)
             all == pushed \o Skipped(pushed)
  <2>1. /\ reports \in Seq(Reports) /\ Len(reports) < 5 /\ FollowsPlan(reports)
        /\ \A i \in 1 .. Len(reports) : reports[i].status = "succeeded"
      BY DEF PipelineInv, PipelineTypeOK, GoesOn, Record
  <2>2. n \in 1 .. 5
      BY <2>1
  <2>3. report \in Reports /\ report.stage = Stages[n] /\ report.usage = x.usage
      BY <2>2, ReportMade
  <2>4. usage' = Added(Totals(reports)[Len(reports)], report.usage)
      BY <1>2, <2>3 DEF Push, UsageAddsUp
  <2>5. all \in Seq(Reports)
    <3> HIDE DEF report
    <3> QED
        BY <2>1, <2>3, EndedReports
  <2>6. reports' = pushed \/ reports' = all
      BY <1>2 DEF Push
  <2>7. /\ Totals(pushed)[Len(pushed)] = usage'
        /\ Totals(all)[Len(all)] = usage'
    <3> HIDE DEF report
    <3> QED
        BY <2>1, <2>3, <2>4, <2>5, TotalsOfPushed
  <2>8. UsageAddsUp'
    <3> HIDE DEF all, pushed
    <3> QED
        BY <2>6, <2>7 DEF UsageAddsUp
  <2>9. ASSUME outcome'.state = "result"
        PROVE  \E terminal : outcome' = BuildResult(terminal, reports')
    <3>1. Running.state # "result" /\ Error("InvalidExecutorOutput").state # "result"
        BY OutcomeStates
    <3> HIDE DEF all, pushed, report
    <3> QED
        BY <1>2, <2>9, <3>1 DEF Push
  <2>10. ASSUME NEW terminal, outcome'.state = "result", outcome' = BuildResult(terminal, reports')
         PROVE  EndIsValid'
    <3>1. Error("Domain").state # "result"
        BY OutcomeStates
    <3>2. /\ outcome' = Result(terminal)
          /\ [i \in DOMAIN reports' |-> reports'[i].stage] = Stages
          /\ ValidTerminal(terminal, reports')
        BY <2>10, <3>1 DEF BuildResult
    <3>3. /\ outcome'.status = terminal.status /\ outcome'.verdict = terminal.verdict
          /\ outcome'.earned = terminal.earned
        BY <3>2, OutcomeStates
    <3>4. ValidTerminal([status |-> outcome'.status, verdict |-> outcome'.verdict,
                         earned |-> outcome'.earned], reports')
        BY <3>2, <3>3 DEF ValidTerminal
    <3> QED
        BY <3>2, <3>4 DEF EndIsValid
  <2> QED
      BY <2>8, <2>9, <2>10 DEF EndIsValid
<1> QED
    BY <1>1, <1>2 DEF Record

-----------------------------------------------------------------------------
(***************************************************************************)
(* The rules on the stages of a result: those of the protocol, over a list *)
(* of statuses, and those of the domain, over reports.                     *)
(***************************************************************************)

AllAre(s, a, b, x) == Range(SubSeq(s, a, b)) \subseteq {x}

LEMMA RangeOfSubSeq ==
    ASSUME NEW s \in Seq(StageStatuses), NEW a \in Nat \ {0}, NEW b \in 0 .. Len(s), NEW x
    PROVE  AllAre(s, a, b, x) <=> \A i \in a .. b : s[i] = x
<1> DEFINE n == IF a <= b THEN (b - a) + 1 ELSE 0
           t == SubSeq(s, a, b)
<1>1. n \in Nat /\ Len(t) = n /\ DOMAIN t = 1 .. n
    BY SubSeqProperties
<1>2. \A i \in 1 .. n : t[i] = s[(a + i) - 1]
    BY SubSeqProperties
<1> HIDE DEF t
<1>3. Range(t) = {t[i] : i \in 1 .. n}
    BY <1>1 DEF Range
<1>4. \A i \in 1 .. n : (a + i) - 1 \in a .. b
    OBVIOUS
<1>5. \A i \in a .. b : (i - a) + 1 \in 1 .. n /\ (a + ((i - a) + 1)) - 1 = i
    OBVIOUS
<1> HIDE DEF n
<1>6. ASSUME \A i \in a .. b : s[i] = x PROVE Range(t) \subseteq {x}
    BY <1>2, <1>3, <1>4, <1>6
<1>7. ASSUME Range(t) \subseteq {x}, NEW i \in a .. b PROVE s[i] = x
  <2>1. (i - a) + 1 \in 1 .. n /\ (a + ((i - a) + 1)) - 1 = i
      BY <1>5
  <2>2. t[(i - a) + 1] = s[i]
      BY <1>2, <2>1
  <2>3. t[(i - a) + 1] \in Range(t)
      BY <1>3, <2>1
  <2> QED
      BY <1>7, <2>2, <2>3
<1> QED
    BY <1>6, <1>7 DEF t, AllAre

Statuses(rs) == [i \in DOMAIN rs |-> rs[i].status]
FullPlan(rs) == [i \in DOMAIN rs |-> rs[i].stage] = Stages

LEMMA ReportsOfPlan ==
    ASSUME NEW rs \in Seq(Reports), FullPlan(rs)
    PROVE  /\ Len(rs) = 5 /\ DOMAIN rs = 1 .. 5 /\ \A i \in 1 .. 5 : rs[i].stage = Stages[i]
           /\ Statuses(rs) \in Seq(StageStatuses) /\ Len(Statuses(rs)) = 5
           /\ \A i \in 1 .. 5 : Statuses(rs)[i] = rs[i].status
<1>1. DOMAIN rs = 1 .. 5
  <2>1. DOMAIN [i \in DOMAIN rs |-> rs[i].stage] = 1 .. 5
      BY ThePlan DEF FullPlan
  <2> QED
      BY <2>1
<1>2. Len(rs) = 5
    BY <1>1
<1>3. \A i \in 1 .. 5 : rs[i].stage = Stages[i]
    BY <1>1 DEF FullPlan
<1>4. Statuses(rs) = [i \in 1 .. 5 |-> rs[i].status]
    BY <1>1 DEF Statuses
<1>5. \A i \in 1 .. 5 : rs[i].status \in StageStatuses
  <2>1. \A i \in 1 .. Len(rs) : rs[i] \in Reports
      OBVIOUS
  <2>2. \A r \in Reports : r.status \in StageStatuses
      BY DEF Reports
  <2> QED
      BY <1>2, <2>1, <2>2
<1>6. Statuses(rs) \in [1 .. 5 -> StageStatuses]
    BY <1>4, <1>5
<1>7. Statuses(rs) \in Seq(StageStatuses) /\ Len(Statuses(rs)) = 5
  <2>1. Statuses(rs) \in Seq(StageStatuses)
    <3>1. ASSUME NEW S, NEW n \in Nat, NEW t \in [1 .. n -> S] PROVE t \in Seq(S)
        OBVIOUS
    <3> QED
        BY <1>6, <3>1
  <2>2. DOMAIN Statuses(rs) = 1 .. 5
      BY <1>6
  <2> QED
      BY <2>1, <2>2
<1> QED
    BY <1>1, <1>2, <1>3, <1>4, <1>7

\* validate_terminal_pattern is what the domain asks of the reports.
LEMMA PatternAgrees ==
    ASSUME NEW rs \in Seq(Reports), FullPlan(rs), NEW k \in 1 .. 5, NEW status
    PROVE  ProtocolPattern(Statuses(rs), k, status) <=> EndsAt(rs, k, status)
<1> DEFINE s == Statuses(rs)
<1>1. /\ Len(rs) = 5 /\ s \in Seq(StageStatuses) /\ Len(s) = 5 /\ DOMAIN s = 1 .. 5
      /\ \A i \in 1 .. 5 : s[i] = rs[i].status
    BY ReportsOfPlan
<1> HIDE DEF s
<1>2. /\ 1 \in Nat \ {0} /\ k - 1 \in 0 .. Len(s)
      /\ k + 1 \in Nat \ {0} /\ 5 \in 0 .. Len(s)
    BY <1>1
<1>3. /\ \A j \in 1 .. (k - 1) : s[j] = rs[j].status
      /\ \A j \in (k + 1) .. 5 : s[j] = rs[j].status
    BY <1>1
<1>4. AllAre(s, 1, k - 1, "succeeded")
           <=> \A j \in 1 .. (k - 1) : rs[j].status = "succeeded"
  <2>1. PICK a \in Nat \ {0}, b \in 0 .. Len(s) : a = 1 /\ b = k - 1
      BY <1>2
  <2>2. \A x : AllAre(s, a, b, x) <=> \A j \in a .. b : s[j] = x
      BY <1>1, RangeOfSubSeq
  <2> QED
      BY <1>3, <2>1, <2>2
<1>5. AllAre(s, k + 1, 5, "skipped")
           <=> \A j \in (k + 1) .. 5 : rs[j].status = "skipped"
  <2>1. PICK a \in Nat \ {0}, b \in 0 .. Len(s) : a = k + 1 /\ b = 5
      BY <1>2
  <2>2. \A x : AllAre(s, a, b, x) <=> \A j \in a .. b : s[j] = x
      BY <1>1, RangeOfSubSeq
  <2> QED
      BY <1>3, <2>1, <2>2
<1> QED
    BY <1>1, <1>4, <1>5 DEF ProtocolPattern, EndsAt, AllAre, s

\* validate_any_terminal_pattern looks at the first stage with the status, and
\* no other could be meant.
LEMMA AnyPatternAgrees ==
    ASSUME NEW rs \in Seq(Reports), FullPlan(rs), NEW status \in {"failed", "cancelled"}
    PROVE  AnyTerminalPattern(Statuses(rs), status) <=> TerminalPattern(rs, status)
<1> DEFINE s == Statuses(rs)
           I == {i \in 1 .. 5 : s[i] = status}
           first == SelectInSeq(s, LAMBDA t : t = status)
<1>1. /\ DOMAIN rs = 1 .. 5 /\ DOMAIN s = 1 .. 5 /\ Len(s) = 5
      /\ \A i \in 1 .. 5 : s[i] = rs[i].status
    BY ReportsOfPlan
<1>2. first = IF I # {} THEN Min(I) ELSE 0
    BY <1>1 DEF SelectInSeq
<1>3. status \in Range(s) <=> I # {}
    BY <1>1 DEF Range
<1>4. \A i \in 1 .. 5 : EndsAt(rs, i, status) => \A j \in I : i <= j
  <2> TAKE i \in 1 .. 5
  <2> SUFFICES ASSUME EndsAt(rs, i, status), NEW j \in I PROVE i <= j
      OBVIOUS
  <2>1. \A k \in 1 .. (i - 1) : s[k] = "succeeded"
    <3>1. \A k \in 1 .. (i - 1) : k \in 1 .. 5
        OBVIOUS
    <3> QED
        BY <1>1, <3>1 DEF EndsAt
  <2>2. s[j] # "succeeded"
      OBVIOUS
  <2> HIDE DEF s
  <2> QED
      BY <2>1, <2>2
<1> HIDE DEF s
<1>5. \A i \in I : (\A j \in I : i <= j) => Min(I) = i
  <2> TAKE i \in I
  <2> SUFFICES ASSUME \A j \in I : i <= j PROVE Min(I) = i
      OBVIOUS
  <2>1. Min(I) \in I /\ \A j \in I : Min(I) <= j
      BY DEF Min
  <2>2. Min(I) <= i /\ i <= Min(I) /\ i \in Int /\ Min(I) \in Int
      BY <2>1
  <2> QED
      BY <2>2
<1>6. \A i \in 1 .. 5 : ProtocolPattern(s, i, status) <=> EndsAt(rs, i, status)
    BY PatternAgrees DEF s
<1>7. \A i \in 1 .. 5 : EndsAt(rs, i, status) => i \in I
    BY <1>1 DEF EndsAt
<1>8. AnyTerminalPattern(s, status) <=> I # {} /\ ProtocolPattern(s, first, status)
    BY <1>3 DEF AnyTerminalPattern
<1> HIDE DEF first, I
<1>9. ASSUME I # {}, ProtocolPattern(s, first, status) PROVE TerminalPattern(rs, status)
  <2>1. first \in 1 .. 5
      BY <1>1, <1>9 DEF ProtocolPattern
  <2> QED
      BY <1>1, <1>6, <1>9, <2>1 DEF TerminalPattern
<1>10. ASSUME TerminalPattern(rs, status) PROVE I # {} /\ ProtocolPattern(s, first, status)
  <2>1. PICK i \in 1 .. 5 : EndsAt(rs, i, status)
      BY <1>1, <1>10 DEF TerminalPattern
  <2>2. i \in I /\ \A j \in I : i <= j
      BY <1>4, <1>7, <2>1
  <2>3. first = i
      BY <1>2, <1>5, <2>2
  <2> QED
      BY <1>6, <2>1, <2>2, <2>3
<1> QED
    BY <1>8, <1>9, <1>10 DEF s

LEMMA RejectionAgrees ==
    ASSUME NEW rs \in Seq(Reports), FullPlan(rs)
    PROVE  /\ ProtocolPattern(Statuses(rs), 2, "failed") <=> RejectedStage(rs, "build")
           /\ ProtocolPattern(Statuses(rs), 3, "failed") <=> RejectedStage(rs, "run")
           /\ Range(Statuses(rs)) = {"succeeded"}
                 <=> \A i \in DOMAIN rs : rs[i].status = "succeeded"
<1>1. /\ DOMAIN rs = 1 .. 5 /\ \A i \in 1 .. 5 : rs[i].stage = Stages[i]
      /\ DOMAIN Statuses(rs) = 1 .. 5
      /\ \A i \in 1 .. 5 : Statuses(rs)[i] = rs[i].status
    BY ReportsOfPlan
<1>2. 2 \in 1 .. 5 /\ 3 \in 1 .. 5 /\ 1 \in 1 .. 5
    OBVIOUS
<1>3. \A i \in 1 .. 5 : (rs[i].stage = "build" <=> i = 2) /\ (rs[i].stage = "run" <=> i = 3)
  <2>1. \A i \in 1 .. 5 : i = 1 \/ i = 2 \/ i = 3 \/ i = 4 \/ i = 5
      OBVIOUS
  <2> QED
      BY <1>1, <2>1, ThePlan
<1>4. RejectedStage(rs, "build") <=> EndsAt(rs, 2, "failed")
    BY <1>1, <1>2, <1>3 DEF RejectedStage
<1>5. RejectedStage(rs, "run") <=> EndsAt(rs, 3, "failed")
    BY <1>1, <1>2, <1>3 DEF RejectedStage
<1>6. /\ ProtocolPattern(Statuses(rs), 2, "failed") <=> EndsAt(rs, 2, "failed")
      /\ ProtocolPattern(Statuses(rs), 3, "failed") <=> EndsAt(rs, 3, "failed")
    BY <1>2, PatternAgrees
<1>7. Range(Statuses(rs)) = {"succeeded"} <=> \A i \in 1 .. 5 : rs[i].status = "succeeded"
  <2>1. Range(Statuses(rs)) = {Statuses(rs)[i] : i \in 1 .. 5}
      BY <1>1 DEF Range
  <2>2. \A i \in 1 .. 5 : rs[i].status \in Range(Statuses(rs))
      BY <1>1, <2>1
  <2>3. \A x \in Range(Statuses(rs)) : \E i \in 1 .. 5 : x = rs[i].status
      BY <1>1, <2>1
  <2> QED
      BY <1>2, <2>2, <2>3
<1> QED
    BY <1>1, <1>4, <1>5, <1>6, <1>7

\* A result as the schema types it.
TypedResult(d) ==
    /\ d.status \in {"completed", "failed", "cancelled"}
    /\ d.score \in [earned : Nat, possible : Nat]
    /\ d.stages \in Seq(Reports) /\ d.usage \in Usages

\* validate_result_semantics and validate_terminal_semantics are the same rule
\* on the end of an evaluation.
LEMMA EndsAgree ==
    ASSUME NEW d, TypedResult(d), FullPlan(d.stages)
    PROVE  /\ d.status = "completed" => d.verdict \notin {"cancelled", "system_error"}
           /\ d.status = "failed" => d.verdict = "system_error" /\ d.score.earned = 0
           /\ d.status = "cancelled" => d.verdict = "cancelled" /\ d.score.earned = 0
           /\ d.status = "completed" /\ d.verdict \in Rejections => d.score.earned = 0
           /\ ResultStages(d)
           <=> ValidTerminal([status |-> d.status, verdict |-> d.verdict,
                              earned |-> d.score.earned], d.stages)
<1> DEFINE rs == d.stages
           s == Statuses(rs)
           earned == d.score.earned
           terminal == [status |-> d.status, verdict |-> d.verdict, earned |-> earned]
<1>1. rs \in Seq(Reports) /\ d.status \in {"completed", "failed", "cancelled"}
    BY DEF TypedResult
<1>2. /\ ProtocolPattern(s, 2, "failed") <=> RejectedStage(rs, "build")
      /\ ProtocolPattern(s, 3, "failed") <=> RejectedStage(rs, "run")
      /\ Range(s) = {"succeeded"} <=> \A i \in DOMAIN rs : rs[i].status = "succeeded"
    BY <1>1, RejectionAgrees
<1>3. /\ AnyTerminalPattern(s, "failed") <=> TerminalPattern(rs, "failed")
      /\ AnyTerminalPattern(s, "cancelled") <=> TerminalPattern(rs, "cancelled")
    BY <1>1, AnyPatternAgrees
<1>4. terminal.status = d.status /\ terminal.verdict = d.verdict /\ terminal.earned = earned
    OBVIOUS
<1>5. [i \in DOMAIN rs |-> rs[i].stage] = Stages /\ [i \in DOMAIN rs |-> rs[i].status] = s
    BY DEF FullPlan, Statuses
<1>6. {"accepted", "wrong_answer"} \cap Rejections = {} /\ "compile_error" \in Rejections
      /\ {"cancelled", "system_error"} \cap Rejections = {}
    BY DEF Rejections
<1> HIDE DEF s, earned, terminal
<1>7. CASE d.status = "completed"
  <2>1. ValidTerminal(terminal, rs) <=>
            \/ /\ d.verdict \in {"accepted", "wrong_answer"}
               /\ \A i \in DOMAIN rs : rs[i].status = "succeeded"
            \/ /\ d.verdict = "compile_error"
               /\ RejectedStage(rs, "build") /\ earned = 0
            \/ /\ d.verdict \in Rejections \ {"compile_error"}
               /\ RejectedStage(rs, "run") /\ earned = 0
      BY <1>4, <1>7 DEF ValidTerminal
  <2>2. ResultStages(d) <=>
            \/ d.verdict \in {"accepted", "wrong_answer"} /\ Range(s) = {"succeeded"}
            \/ d.verdict = "compile_error" /\ ProtocolPattern(s, 2, "failed")
            \/ /\ d.verdict \in Rejections \ {"compile_error"}
               /\ ProtocolPattern(s, 3, "failed")
    <3>1. CASE d.verdict \in {"accepted", "wrong_answer"}
        BY <1>5, <1>6, <1>7, <3>1 DEF ResultStages
    <3>2. CASE d.verdict = "compile_error"
        BY <1>5, <1>6, <1>7, <3>2 DEF ResultStages
    <3>3. CASE d.verdict \in Rejections \ {"compile_error"}
        BY <1>5, <1>6, <1>7, <3>3 DEF ResultStages
    <3>4. CASE d.verdict \notin {"accepted", "wrong_answer"} \cup Rejections
        BY <1>5, <1>6, <1>7, <3>4 DEF ResultStages
    <3> QED
        BY <3>1, <3>2, <3>3, <3>4
  <2> QED
      BY <1>2, <1>6, <1>7, <2>1, <2>2 DEF terminal, earned
<1>8. CASE d.status = "failed"
  <2>1. ValidTerminal(terminal, rs) <=>
            d.verdict = "system_error" /\ earned = 0 /\ TerminalPattern(rs, "failed")
      BY <1>4, <1>8 DEF ValidTerminal
  <2>2. d.verdict = "system_error" => (ResultStages(d) <=> AnyTerminalPattern(s, "failed"))
      BY <1>5, <1>8 DEF ResultStages
  <2> QED
      BY <1>3, <1>8, <2>1, <2>2 DEF terminal, earned
<1>9. CASE d.status = "cancelled"
  <2>1. ValidTerminal(terminal, rs) <=>
            d.verdict = "cancelled" /\ earned = 0 /\ TerminalPattern(rs, "cancelled")
      BY <1>4, <1>9 DEF ValidTerminal
  <2>2. d.verdict = "cancelled" => (ResultStages(d) <=> AnyTerminalPattern(s, "cancelled"))
      BY <1>5, <1>9 DEF ResultStages
  <2> QED
      BY <1>3, <1>9, <2>1, <2>2 DEF terminal, earned
<1> QED
    BY <1>1, <1>7, <1>8, <1>9

\* The protocol accepts a document exactly if the domain can hold it and its
\* usage is that of its stages.
LEMMA RulesAgree ==
    ASSUME NEW d, TypedResult(d)
    PROVE  SchemaResult(d) /\ ResultSemantics(d)
              <=> DomainResult(ResultParts(d)) /\ AggregateUsage(d)
<1> DEFINE r == ResultParts(d)
           p == d.provenance
           terminal == [status |-> d.status, verdict |-> d.verdict, earned |-> d.score.earned]
<1>1. /\ r.status = d.status /\ r.verdict = d.verdict /\ r.score = d.score
      /\ r.stages = d.stages /\ r.usage = d.usage /\ r.provenance = d.provenance
      /\ r.identity.digest = d.provenance.digest
    BY DEF ResultParts
<1>2. /\ d.stages \in Seq(Reports) /\ d.usage \in Usages
      /\ d.score.earned \in Nat /\ d.score.possible \in Nat
    BY DEF TypedResult
<1> HIDE DEF r
<1>3. UsageFits(d.usage) /\ \A i \in DOMAIN d.stages : UsageFits(d.stages[i].usage)
  <2>1. \A u \in Usages : UsageFits(u)
      BY PipelineAssumption DEF Usages, UsageFits
  <2>2. \A x \in Reports : x.usage \in Usages
      BY DEF Reports
  <2>3. \A i \in DOMAIN d.stages : d.stages[i] \in Reports
      BY <1>2
  <2> QED
      BY <1>2, <2>1, <2>2, <2>3
<1>4. (p.eligible => p.kind # "development_mock" /\ p.named)
         <=> ValidProvenance(p.kind, p.eligible, p.named)
    BY DEF ValidProvenance
<1>5. DomainResult(r) <=>
         /\ d.score.possible >= 1 /\ d.score.earned <= d.score.possible
         /\ ValidProvenance(p.kind, p.eligible, p.named)
         /\ FullPlan(d.stages) /\ ValidTerminal(terminal, d.stages)
    BY <1>1, <1>3 DEF DomainResult, FullPlan
<1>6. FullPlan(d.stages) => d.stages # << >>
    BY <1>2, ReportsOfPlan
<1>7. ResultSemantics(d) => FullPlan(d.stages)
    BY DEF ResultSemantics, ResultStages, FullPlan
<1>8. FullPlan(d.stages) =>
         (ResultSemantics(d) <=>
            /\ d.score.earned <= d.score.possible
            /\ ValidTerminal(terminal, d.stages) /\ AggregateUsage(d)
            /\ ValidProvenance(p.kind, p.eligible, p.named))
    BY <1>4, EndsAgree DEF ResultSemantics
<1> QED
    BY <1>5, <1>6, <1>7, <1>8 DEF SchemaResult, r

-----------------------------------------------------------------------------
(***************************************************************************)
(* The conversions.                                                        *)
(***************************************************************************)

LEMMA Replies ==
    /\ None.state = "none" /\ None # Idle
    /\ \A v : Accepted(v).state = "accepted" /\ Accepted(v).value = v
    /\ \A e : Refused(e).state = "refused" /\ Refused(e).error = e
BY DEF None, Accepted, Refused, Idle

\* Documents and parts of them are something.
LEMMA Something ==
    /\ \A d : RequestParts(d) # None
    /\ \A kind, eligible, named, digest :
          [kind |-> kind, eligible |-> eligible, named |-> named, digest |-> digest] # None
BY DEF None, RequestParts

\* The two conversions of a request are inverses on what the schema admits:
\* what RequestParts drops is what the schema makes constant.
LEMMA RequestRebuilds ==
    ASSUME NEW d \in RequestDocuments, SchemaRequest(d)
    PROVE  RequestToValue(RequestParts(d)) = d
<1>1. d.plan.profile = "algorithm_batch" /\ d.policy.network = "denied"
    BY DEF SchemaRequest
<1>2. RequestToValue(RequestParts(d)) =
        [request_id |-> d.request_id, attempt_number |-> d.attempt_number, digest |-> d.digest,
         plan |-> [profile |-> "algorithm_batch", stages |-> d.plan.stages],
         policy |-> [limit |-> d.policy.limit, network |-> "denied"],
         required_capabilities |-> d.required_capabilities]
    BY DEF RequestToValue, RequestParts
<1> QED
    BY <1>1, <1>2, CanonicalAssumption

\* decode_evaluation_request refuses a document or leaves it as it is.
LEMMA RequestDecoded ==
    ASSUME NEW d \in RequestDocuments
    PROVE  \/ DecodeRequest(d) \in {Refused("SchemaViolation"), Refused("Domain")}
           \/ DecodeRequest(d) = Accepted(RequestParts(d)) /\ Carriable(d)
BY RequestRebuilds DEF DecodeRequest, Carriable

\* The store and the wire take a document apart and put it together again.
LEMMA RequestCarried ==
    ASSUME NEW d, Carriable(d)
    PROVE  /\ DecodeRequest(d) = Accepted(RequestParts(d))
           /\ EncodeRequest(RequestParts(d)) = Accepted(d)
           /\ Carried(d) = Accepted(RequestParts(d))
<1>1. DecodeRequest(d) = Accepted(RequestParts(d))
    BY DEF DecodeRequest, Carriable
<1>2. EncodeRequest(RequestParts(d)) = Accepted(d)
    BY DEF EncodeRequest, Carriable
<1>3. /\ DecodeRequest(d).state # "refused" /\ DecodeRequest(d).value = RequestParts(d)
      /\ EncodeRequest(RequestParts(d)).state # "refused"
      /\ EncodeRequest(RequestParts(d)).value = d
    BY <1>1, <1>2, Replies
<1> QED
    BY <1>1, <1>2, <1>3 DEF Carried

\* A file that fits is read whole, and one that does not is refused, whatever
\* its length was when it was opened.
LEMMA FileIsWhole ==
    ASSUME NEW seen \in Nat, NEW length \in Nat
    PROVE  ReadBounded(seen, length) \in {Refused("InputTooLarge"), Accepted(length)}
BY CanonicalAssumption DEF ReadBounded

\* The conversions of a result are inverses.
LEMMA ResultRebuilds ==
    /\ \A d \in ResultDocuments : Rebuilds(d)
    /\ \A r : Rebuilds(ResultToValue(r))
<1>1. ASSUME NEW d \in ResultDocuments PROVE Rebuilds(d)
  <2>1. ResultToValue(ResultParts(d)) =
           [attempt |-> d.attempt, status |-> d.status, verdict |-> d.verdict,
            score |-> d.score, stages |-> d.stages, usage |-> d.usage,
            provenance |-> d.provenance, large |-> d.large]
      BY DEF ResultToValue, ResultParts
  <2> QED
      BY <2>1, CanonicalAssumption DEF Rebuilds
<1>2. ASSUME NEW r PROVE Rebuilds(ResultToValue(r))
    BY DEF ResultToValue, ResultParts, Rebuilds
<1> QED
    BY <1>1, <1>2

\* What was decoded can be encoded again, as the document it was.
LEMMA ResultCarried ==
    ASSUME NEW d, Rebuilds(d), DecodeResult(d).state # "refused"
    PROVE  /\ DecodeResult(d).value = ResultParts(d)
           /\ EncodeResult(ResultParts(d)) = Accepted(d)
<1>1. ~d.large /\ SchemaResult(d) /\ ResultSemantics(d) /\ DomainResult(ResultParts(d))
    BY Replies DEF DecodeResult
<1>2. DecodeResult(d) = Accepted(ResultParts(d))
    BY <1>1 DEF DecodeResult
<1>3. ResultToValue(ResultParts(d)) = d
    BY DEF Rebuilds
<1> QED
    BY <1>1, <1>2, <1>3, Replies DEF EncodeResult

\* A document is stored under the leased request.
Storable(d) ==
    /\ ~d.large /\ DomainResult(ResultParts(d)) /\ AggregateUsage(d)
    /\ ResultParts(d).identity = Identity(request)

\* The document of the run that ended.
RunDocument(d) == \E possible \in Possible : d = ResultToValue(RunResult(possible, FALSE))

(***************************************************************************)
(* What the way back relies on: a run's usage adds up, its end and its     *)
(* provenance are ones the domain accepts, a submission in the name of a   *)
(* run that ended is that run's, and the answer to a submission is that of *)
(* the one rule that protocol and domain share.                            *)
(***************************************************************************)
StoreInv ==
    /\ UsageAddsUp /\ EndIsValid
    /\ outcome.state \in {"running", "result"} =>
          /\ provenance.digest = request.digest
          /\ ValidProvenance(provenance.kind, provenance.eligible, provenance.named)
    /\ submission # None => TypedResult(submission) /\ submission.large \in BOOLEAN
    /\ submission # None /\ outcome.state = "result" => RunDocument(submission)
    /\ request # None /\ submission = None /\ reply # None =>
          outcome.state = "result" /\ reply = Refused("MessageTooLarge")
    /\ submission # None /\ reply # None =>
          \/ Storable(submission) /\ reply = Accepted(submission)
          \/ ~Storable(submission) /\ reply.state = "refused" /\ reply.error # "Domain"

-----------------------------------------------------------------------------
(***************************************************************************)
(* The steps of the path.                                                  *)
(***************************************************************************)

LEMMA PathStarts ==
    CanonicalInit => CanonicalInv
BY PipelineInitInv, Replies DEF CanonicalInit, CanonicalInv, PipelineInit

LEMMA CreateKeepsInv ==
    ASSUME CanonicalInv, Create
    PROVE  CanonicalInv'
<1>1. /\ client = None /\ request = None
      /\ UNCHANGED <<pipelineVars, request, provenance, submission>>
    BY DEF Create, CanonicalInv
<1>2. PICK d \in RequestDocuments, seen \in 1 .. MaxDocument + 1, length \in 1 .. MaxDocument + 2 :
          LET input == ReadBounded(seen, length)
              decoded == IF input.state = "refused" THEN input ELSE
                         IF input.value # length THEN Refused("MalformedDocument")
                         ELSE DecodeRequest(d) IN
          /\ client' = d
          /\ reply' = IF decoded.state = "refused" THEN decoded ELSE EncodeRequest(decoded.value)
    BY DEF Create
<1>3. \/ reply' \in {Refused("InputTooLarge"), Refused("SchemaViolation"), Refused("Domain")}
      \/ reply' = Accepted(d) /\ Carriable(d)
  <2>1. ReadBounded(seen, length) \in {Refused("InputTooLarge"), Accepted(length)}
    <3>1. MaxDocument \in Nat /\ seen \in Nat /\ length \in Nat
      <4>1. MaxDocument \in Nat
          BY CanonicalAssumption
      <4> QED
          BY <4>1
    <3> QED
        BY <3>1, FileIsWhole
  <2>2. CASE ReadBounded(seen, length) = Refused("InputTooLarge")
      BY <1>2, <2>2, Replies
  <2>3. CASE ReadBounded(seen, length) = Accepted(length)
    <3>1. reply' = IF DecodeRequest(d).state = "refused" THEN DecodeRequest(d)
                   ELSE EncodeRequest(DecodeRequest(d).value)
        BY <1>2, <2>3, Replies
    <3>2. CASE DecodeRequest(d) \in {Refused("SchemaViolation"), Refused("Domain")}
        BY <3>1, <3>2, Replies
    <3>3. CASE DecodeRequest(d) = Accepted(RequestParts(d)) /\ Carriable(d)
        BY <3>1, <3>3, RequestCarried, Replies
    <3> QED
        BY <3>2, <3>3, RequestDecoded
  <2> QED
      BY <2>1, <2>2, <2>3
<1>4. /\ reply'.state \in {"none", "refused", "accepted"}
      /\ reply'.state = "refused" => reply'.error \notin LostRequest
      /\ reply'.state = "accepted" => reply'.value = d /\ Carriable(d)
    BY <1>3, Replies DEF LostRequest
<1>5. PipelineInv'
    BY <1>1, PipelineNextInv DEF CanonicalInv
<1> QED
    BY <1>1, <1>2, <1>4, <1>5 DEF CanonicalInv, pipelineVars

LEMMA LeaseKeepsInv ==
    ASSUME CanonicalInv, NEW executor \in Executors, Lease(executor)
    PROVE  CanonicalInv'
<1>1. /\ client # None /\ request = None /\ reply.state = "accepted"
      /\ reply.value = client /\ Carriable(client) /\ submission = None
      /\ UNCHANGED <<client, submission>>
    BY DEF Lease, CanonicalInv
<1>2. Carried(reply.value) = Accepted(RequestParts(client))
    BY <1>1, RequestCarried
<1>3. Carried(reply.value).state # "refused" /\ Carried(reply.value).value = RequestParts(client)
    BY <1>2, Replies
<1>4. /\ request' = RequestParts(client)
      /\ provenance' = [kind |-> executor.kind, eligible |-> executor.eligible,
                        named |-> executor.named, digest |-> RequestParts(client).digest]
      /\ Begin(Range(RequestParts(client).required_capabilities) \subseteq executor.supports,
               executor.kind, executor.eligible, executor.named)
      /\ reply' = None
    BY <1>3 DEF Lease
<1>5. PipelineInv'
    BY <1>4, BeginKeepsInv
<1>6. request' # None /\ provenance' # None /\ submission' = None
    BY <1>1, <1>4, Something
<1> QED
    BY <1>1, <1>4, <1>5, <1>6, Replies DEF CanonicalInv

LEMMA RunKeepsInv ==
    ASSUME CanonicalInv, NEW execution \in Executions, Run(execution)
    PROVE  CanonicalInv'
<1>1. UNCHANGED <<client, request, provenance, submission, reply>> /\ Record(execution)
    BY DEF Run
<1>2. outcome = Running /\ Running # Idle
    BY <1>1, OutcomeStates DEF Record
<1>3. PipelineInv'
    BY <1>1, RecordKeepsInv DEF CanonicalInv
<1> QED
    BY <1>1, <1>2, <1>3 DEF CanonicalInv

LEMMA SubmitKeepsInv ==
    ASSUME CanonicalInv, NEW possible, NEW large, Submit(possible, large)
    PROVE  CanonicalInv'
<1> DEFINE result == RunResult(possible, large)
           encoded == EncodeResult(result)
<1>1. /\ outcome.state = "result" /\ UNCHANGED <<pipelineVars, client, request, provenance>>
      /\ submission' = IF encoded.state = "accepted" THEN encoded.value ELSE None
      /\ reply' = IF encoded.state = "accepted" THEN None ELSE encoded
    BY DEF Submit
<1>2. request # None
    BY <1>1, OutcomeStates DEF CanonicalInv
<1> HIDE DEF result
<1>3. \/ encoded \in {Refused("SemanticViolation"), Refused("SchemaViolation"),
                      Refused("MessageTooLarge")}
      \/ encoded = Accepted(ResultToValue(result))
    BY DEF EncodeResult
<1> HIDE DEF encoded
<1>4. /\ submission' # None => Rebuilds(submission')
      /\ reply'.state \in {"none", "refused", "accepted"}
      /\ reply'.state = "refused" => reply'.error \notin LostRequest
    BY <1>1, <1>3, Replies, ResultRebuilds DEF LostRequest
<1>5. PipelineInv'
    BY <1>1, PipelineNextInv DEF CanonicalInv
<1> QED
    BY <1>1, <1>2, <1>4, <1>5 DEF CanonicalInv

LEMMA SubmitForeignKeepsInv ==
    ASSUME CanonicalInv, SubmitForeign
    PROVE  CanonicalInv'
<1>1. /\ outcome = Running /\ UNCHANGED <<pipelineVars, client, request, provenance, reply>>
      /\ submission' \in ResultDocuments
    BY DEF SubmitForeign
<1>2. request # None
    BY <1>1, OutcomeStates DEF CanonicalInv
<1>3. Rebuilds(submission')
    BY <1>1, ResultRebuilds
<1>4. PipelineInv'
    BY <1>1, PipelineNextInv DEF CanonicalInv
<1> QED
    BY <1>1, <1>2, <1>3, <1>4 DEF CanonicalInv

LEMMA DeliverKeepsInv ==
    ASSUME CanonicalInv, Deliver
    PROVE  CanonicalInv'
<1> DEFINE decoded == DecodeResult(submission)
           result == decoded.value
           again == EncodeResult(result)
<1>1. /\ submission # None /\ UNCHANGED <<pipelineVars, client, request, provenance, submission>>
      /\ reply' = IF decoded.state = "refused" THEN decoded ELSE
                  IF result.identity.attempt # request.attempt_number
                  THEN Refused("result_identity_mismatch") ELSE
                  IF again.state = "refused" THEN Refused("CorruptData") ELSE
                  IF result.identity # Identity(request) THEN Refused("IdentityConflict")
                  ELSE again
    BY DEF Deliver
<1>2. request # None /\ Rebuilds(submission)
    BY <1>1 DEF CanonicalInv
<1>3. decoded.state = "refused" =>
         decoded \in {Refused("MessageTooLarge"), Refused("SchemaViolation"),
                      Refused("SemanticViolation"), Refused("Domain")}
    BY Replies DEF DecodeResult
<1>4. decoded.state # "refused" => again = Accepted(submission)
    BY <1>2, ResultCarried
<1> HIDE DEF decoded, result, again
<1>5. /\ reply'.state \in {"none", "refused", "accepted"}
      /\ reply'.state = "refused" => reply'.error \notin LostRequest
    BY <1>1, <1>3, <1>4, Replies DEF LostRequest
<1>6. PipelineInv'
    BY <1>1, PipelineNextInv DEF CanonicalInv
<1> QED
    BY <1>1, <1>2, <1>5, <1>6 DEF CanonicalInv

-----------------------------------------------------------------------------
(***************************************************************************)
(* The way back.                                                           *)
(***************************************************************************)

\* The score of a run is within what its decision was out of.
LEMMA ScoreFits ==
    ASSUME PipelineInv, outcome.state = "result", NEW possible \in Possible
    PROVE  /\ possible \in Nat /\ possible >= 1
           /\ outcome.earned \in Nat /\ outcome.earned <= possible
<1>1. outcome.earned \in 0 .. MaxScore /\ outcome.verdict \in Verdicts
  <2>1. outcome \in [state : {"result"}, status : {"completed", "failed", "cancelled"},
                     verdict : Verdicts, earned : 0 .. MaxScore]
      BY OutcomeStates DEF PipelineInv, PipelineTypeOK
  <2> QED
      BY <2>1
<1>2. MaxScore \in Nat
    BY PipelineAssumption
<1>3. CASE outcome.verdict \in {"accepted", "wrong_answer"}
  <2>1. possible \in {n \in 1 .. MaxScore : outcome.earned <= n}
      BY <1>3 DEF Possible
  <2> QED
      BY <1>1, <1>2, <2>1
<1>4. CASE outcome.verdict \notin {"accepted", "wrong_answer"}
  <2>1. possible = 1
      BY <1>4 DEF Possible
  <2>2. outcome.verdict # decision.verdict
    <3>1. decision \in Decisions \cup {NoDecision}
        BY DEF PipelineInv, PipelineTypeOK
    <3>2. decision.verdict \in {"accepted", "wrong_answer", "none"}
        BY <3>1 DEF Decisions, NoDecision
    <3>3. "none" \notin Verdicts
        BY DEF Verdicts, Rejections
    <3> QED
        BY <1>1, <1>4, <3>2, <3>3
  <2>3. outcome.earned = 0
      BY <2>2 DEF PipelineInv, NoFabricatedSuccess, HasResult
  <2> QED
      BY <2>1, <2>3
<1> QED
    BY <1>3, <1>4

\* What evaluate built is a document that every check on the way accepts.
LEMMA RunIsStorable ==
    ASSUME CanonicalInv, StoreInv, outcome.state = "result", NEW possible \in Possible, NEW large
    PROVE  LET d == ResultToValue(RunResult(possible, large)) IN
           /\ TypedResult(d) /\ d.large = large
           /\ SchemaResult(d) /\ ResultSemantics(d)
           /\ ~large => Storable(d)
<1> DEFINE d == ResultToValue(RunResult(possible, large))
           p == provenance
           terminal == [status |-> outcome.status, verdict |-> outcome.verdict,
                        earned |-> outcome.earned]
           r == ResultParts(d)
<1>1. /\ d.attempt = request.attempt_number /\ d.status = outcome.status
      /\ d.verdict = outcome.verdict
      /\ d.score = [earned |-> outcome.earned, possible |-> possible]
      /\ d.stages = reports /\ d.usage = usage /\ d.provenance = p /\ d.large = large
    BY DEF ResultToValue, RunResult, Identity
<1> HIDE DEF d
<1>2. /\ r.status = d.status /\ r.verdict = d.verdict /\ r.score = d.score
      /\ r.stages = d.stages /\ r.usage = d.usage /\ r.provenance = d.provenance
      /\ r.identity = [attempt |-> d.attempt, digest |-> d.provenance.digest]
      /\ r.identity.digest = d.provenance.digest
    BY DEF ResultParts
<1>3. PipelineInv
    BY DEF CanonicalInv
<1>4. /\ possible \in Nat /\ possible >= 1
      /\ outcome.earned \in Nat /\ outcome.earned <= possible
    BY <1>3, ScoreFits
<1>5. outcome.status \in {"completed", "failed", "cancelled"}
  <2>1. outcome \in [state : {"result"}, status : {"completed", "failed", "cancelled"},
                     verdict : Verdicts, earned : 0 .. MaxScore]
      BY <1>3, OutcomeStates DEF PipelineInv, PipelineTypeOK
  <2> QED
      BY <2>1
<1>6. reports \in Seq(Reports) /\ usage \in Usages
    BY <1>3 DEF PipelineInv, PipelineTypeOK
<1>7. d.score.earned = outcome.earned /\ d.score.possible = possible
    BY <1>1
<1>8. TypedResult(d)
    BY <1>1, <1>4, <1>5, <1>6 DEF TypedResult
<1>9. /\ p.digest = request.digest
      /\ ValidProvenance(p.kind, p.eligible, p.named)
      /\ [i \in DOMAIN reports |-> reports[i].stage] = Stages
      /\ ValidTerminal(terminal, reports)
      /\ usage = Totals(reports)[Len(reports)]
    BY DEF StoreInv, EndIsValid, UsageAddsUp
<1>10. AggregateUsage(d)
    BY <1>1, <1>9 DEF AggregateUsage
<1>11. UsageFits(usage) /\ \A i \in DOMAIN reports : UsageFits(reports[i].usage)
  <2>1. \A u \in Usages : UsageFits(u)
      BY PipelineAssumption DEF Usages, UsageFits
  <2>2. \A x \in Reports : x.usage \in Usages
      BY DEF Reports
  <2>3. \A i \in DOMAIN reports : reports[i] \in Reports
      BY <1>6
  <2> QED
      BY <1>6, <2>1, <2>2, <2>3
<1> HIDE DEF r, terminal
<1>12. DomainResult(r)
    BY <1>1, <1>2, <1>4, <1>7, <1>9, <1>11 DEF DomainResult, terminal
<1>13. SchemaResult(d) /\ ResultSemantics(d)
    BY <1>8, <1>10, <1>12, RulesAgree DEF r
<1>14. r.identity = Identity(request)
    BY <1>1, <1>2, <1>9 DEF Identity
<1>15. ~large => Storable(d)
    BY <1>1, <1>10, <1>12, <1>14 DEF Storable, r
<1> QED
    BY <1>1, <1>8, <1>13, <1>15 DEF d

\* What submit_result answers is decided by Storable alone.
LEMMA AnswerIsExact ==
    ASSUME NEW d, TypedResult(d), Rebuilds(d), d.large \in BOOLEAN
    PROVE  LET decoded == DecodeResult(d)
               result == decoded.value
               answer == IF decoded.state = "refused" THEN decoded ELSE
                         IF result.identity.attempt # request.attempt_number
                         THEN Refused("result_identity_mismatch") ELSE
                         IF EncodeResult(result).state = "refused" THEN Refused("CorruptData") ELSE
                         IF result.identity # Identity(request) THEN Refused("IdentityConflict")
                         ELSE EncodeResult(result) IN
           \/ Storable(d) /\ answer = Accepted(d)
           \/ ~Storable(d) /\ answer.state = "refused" /\ answer.error # "Domain"
<1> DEFINE decoded == DecodeResult(d)
           result == decoded.value
           again == EncodeResult(result)
           answer == IF decoded.state = "refused" THEN decoded ELSE
                     IF result.identity.attempt # request.attempt_number
                     THEN Refused("result_identity_mismatch") ELSE
                     IF again.state = "refused" THEN Refused("CorruptData") ELSE
                     IF result.identity # Identity(request) THEN Refused("IdentityConflict")
                     ELSE again
           fine == ~d.large /\ DomainResult(ResultParts(d)) /\ AggregateUsage(d)
<1>1. SchemaResult(d) /\ ResultSemantics(d) <=> DomainResult(ResultParts(d)) /\ AggregateUsage(d)
    BY RulesAgree
<1>2. CASE ~fine
  <2>1. decoded \in {Refused("MessageTooLarge"), Refused("SchemaViolation"),
                     Refused("SemanticViolation")}
      BY <1>1, <1>2 DEF DecodeResult
  <2>2. decoded.state = "refused" /\ decoded.error # "Domain"
      BY <2>1, Replies
  <2>3. answer = decoded
      BY <2>2
  <2> HIDE DEF decoded, answer
  <2>4. ~Storable(d)
      BY <1>2 DEF Storable
  <2> QED
      BY <2>2, <2>3, <2>4 DEF answer, decoded
<1>3. CASE fine
  <2>1. decoded = Accepted(ResultParts(d))
      BY <1>1, <1>3 DEF DecodeResult
  <2>2. decoded.state # "refused" /\ result = ResultParts(d)
      BY <2>1, Replies
  <2>3. again = Accepted(d)
      BY <2>2, ResultCarried
  <2>4. again.state # "refused"
      BY <2>3, Replies
  <2> HIDE DEF decoded, result, again
  <2>5. CASE ResultParts(d).identity = Identity(request)
    <3>1. ResultParts(d).identity.attempt = request.attempt_number
        BY <2>5 DEF Identity
    <3>2. answer = again
        BY <2>2, <2>4, <2>5, <3>1
    <3>3. Storable(d)
        BY <1>3, <2>5 DEF Storable
    <3> HIDE DEF answer
    <3> QED
        BY <2>3, <3>2, <3>3 DEF answer, decoded, result, again
  <2>6. CASE ResultParts(d).identity # Identity(request)
    <3>1. answer \in {Refused("result_identity_mismatch"), Refused("IdentityConflict")}
        BY <2>2, <2>4, <2>6
    <3>2. answer.state = "refused" /\ answer.error # "Domain"
        BY <3>1, Replies
    <3>3. ~Storable(d)
        BY <2>6 DEF Storable
    <3> HIDE DEF answer
    <3> QED
        BY <3>2, <3>3 DEF answer, decoded, result, again
  <2> QED
      BY <2>5, <2>6
<1> QED
    BY <1>2, <1>3

LEMMA StoreStarts ==
    ASSUME CanonicalInit
    PROVE  StoreInv
<1>1. /\ reports = << >> /\ usage = NoUsage /\ outcome = Idle /\ request = None
      /\ submission = None
    BY DEF CanonicalInit, PipelineInit
<1>2. << >> \in Seq(Reports) /\ Len(<< >>) = 0
    OBVIOUS
<1>3. UsageAddsUp
    BY <1>1, <1>2, TotalsRecursion DEF UsageAddsUp
<1>4. outcome.state \notin {"running", "result"}
    BY <1>1, OutcomeStates
<1> QED
    BY <1>1, <1>3, <1>4 DEF StoreInv, EndIsValid

\* A step that changes neither the run nor the submission.
LEMMA StoreKept ==
    ASSUME CanonicalInv, StoreInv, UNCHANGED <<pipelineVars, request, provenance, submission>>
    PROVE  /\ UsageAddsUp' /\ EndIsValid'
           /\ outcome'.state \in {"running", "result"} =>
                 /\ provenance'.digest = request'.digest
                 /\ ValidProvenance(provenance'.kind, provenance'.eligible, provenance'.named)
           /\ submission' # None => TypedResult(submission') /\ submission'.large \in BOOLEAN
           /\ submission' # None /\ outcome'.state = "result" => RunDocument(submission)'
           /\ Storable(submission)' <=> Storable(submission)
<1>1. /\ reports' = reports /\ usage' = usage /\ outcome' = outcome /\ decision' = decision
      /\ request' = request /\ provenance' = provenance /\ submission' = submission
    BY DEF pipelineVars
<1>2. UsageAddsUp' /\ EndIsValid'
    BY <1>1 DEF StoreInv, UsageAddsUp, EndIsValid
<1>3. RunDocument(submission)' <=> RunDocument(submission)
    BY <1>1 DEF RunDocument, RunResult, Possible
<1>4. Storable(submission)' <=> Storable(submission)
    BY <1>1 DEF Storable
<1> QED
    BY <1>1, <1>2, <1>3, <1>4 DEF StoreInv

LEMMA CreateKeepsStore ==
    ASSUME CanonicalInv, StoreInv, Create
    PROVE  StoreInv'
<1>1. /\ client = None /\ request = None /\ submission = None
      /\ UNCHANGED <<pipelineVars, request, provenance, submission>>
    BY DEF Create, CanonicalInv
<1> QED
    BY <1>1, StoreKept DEF StoreInv

LEMMA LeaseKeepsStore ==
    ASSUME CanonicalInv, StoreInv, NEW executor \in Executors, Lease(executor)
    PROVE  StoreInv'
<1>1. /\ request = None /\ reply.state = "accepted"
      /\ reply.value = client /\ Carriable(client) /\ submission = None
      /\ UNCHANGED <<client, submission>>
    BY DEF Lease, CanonicalInv
<1>2. Carried(reply.value).state # "refused" /\ Carried(reply.value).value = RequestParts(client)
    BY <1>1, RequestCarried, Replies
<1> DEFINE supported ==
              Range(RequestParts(client).required_capabilities) \subseteq executor.supports
<1>3. /\ request' = RequestParts(client)
      /\ provenance' = [kind |-> executor.kind, eligible |-> executor.eligible,
                        named |-> executor.named, digest |-> RequestParts(client).digest]
      /\ Begin(supported, executor.kind, executor.eligible, executor.named)
      /\ reply' = None
    BY <1>2 DEF Lease
<1> HIDE DEF supported
<1>4. /\ reports' = << >> /\ usage' = NoUsage
      /\ outcome' \in {Error("UnsupportedCapability"), Error("Domain"), Running}
      /\ outcome' = Running => ValidProvenance(executor.kind, executor.eligible, executor.named)
    BY <1>3, OutcomeStates DEF Begin
<1>5. UsageAddsUp'
  <2>1. << >> \in Seq(Reports) /\ Len(<< >>) = 0
      OBVIOUS
  <2> QED
      BY <1>4, <2>1, TotalsRecursion DEF UsageAddsUp
<1>6. outcome'.state # "result" /\ (outcome'.state = "running" => outcome' = Running)
    BY <1>4, OutcomeStates
<1>7. /\ provenance'.kind = executor.kind /\ provenance'.eligible = executor.eligible
      /\ provenance'.named = executor.named /\ provenance'.digest = request'.digest
    BY <1>3
<1>8. submission' = None /\ reply' = None
    BY <1>1, <1>3
<1> QED
    BY <1>4, <1>5, <1>6, <1>7, <1>8 DEF StoreInv, EndIsValid

LEMMA RunKeepsStore ==
    ASSUME CanonicalInv, StoreInv, NEW execution \in Executions, Run(execution)
    PROVE  StoreInv'
<1>1. /\ submission = None /\ Record(execution)
      /\ UNCHANGED <<client, request, provenance, submission, reply>>
    BY DEF Run
<1>2. outcome = Running /\ outcome.state = "running"
    BY <1>1, OutcomeStates DEF Record
<1>3. request # None
    BY <1>2, OutcomeStates DEF CanonicalInv
<1>4. UsageAddsUp' /\ EndIsValid'
    BY <1>1, RecordAddsUp DEF CanonicalInv, StoreInv
<1>5. reply = None
    BY <1>1, <1>2, <1>3 DEF StoreInv
<1> QED
    BY <1>1, <1>2, <1>4, <1>5 DEF StoreInv

LEMMA SubmitKeepsStore ==
    ASSUME CanonicalInv, StoreInv, NEW possible \in Possible, NEW large \in BOOLEAN,
           Submit(possible, large)
    PROVE  StoreInv'
<1> DEFINE result == RunResult(possible, large)
           d == ResultToValue(result)
           encoded == EncodeResult(result)
<1>1. /\ outcome.state = "result" /\ UNCHANGED <<pipelineVars, client, request, provenance>>
      /\ submission' = IF encoded.state = "accepted" THEN encoded.value ELSE None
      /\ reply' = IF encoded.state = "accepted" THEN None ELSE encoded
    BY DEF Submit
<1>2. /\ reports' = reports /\ usage' = usage /\ outcome' = outcome
      /\ request' = request /\ provenance' = provenance
    BY <1>1 DEF pipelineVars
<1>3. UsageAddsUp' /\ EndIsValid'
    BY <1>2 DEF StoreInv, UsageAddsUp, EndIsValid
<1>4. /\ TypedResult(d) /\ d.large = large
      /\ SchemaResult(d) /\ ResultSemantics(d)
    BY <1>1, RunIsStorable
<1> HIDE DEF result
<1>5. encoded = IF large THEN Refused("MessageTooLarge") ELSE Accepted(d)
    BY <1>4 DEF EncodeResult
<1>6. CASE large
  <2>1. submission' = None /\ reply' = Refused("MessageTooLarge")
      BY <1>1, <1>5, <1>6, Replies
  <2> QED
      BY <1>1, <1>2, <1>3, <2>1 DEF StoreInv
<1>7. CASE ~large
  <2>1. submission' = d /\ reply' = None
      BY <1>1, <1>5, <1>7, Replies
  <2>2. RunDocument(d)
      BY <1>7 DEF RunDocument, result
  <2>3. RunDocument(d) => RunDocument(submission)'
      BY <1>2, <2>1 DEF RunDocument, RunResult, Possible
  <2>4. TypedResult(submission') /\ submission'.large \in BOOLEAN
      BY <1>4, <2>1
  <2> QED
      BY <1>2, <1>3, <2>1, <2>2, <2>3, <2>4 DEF StoreInv
<1> QED
    BY <1>6, <1>7

LEMMA SubmitForeignKeepsStore ==
    ASSUME CanonicalInv, StoreInv, SubmitForeign
    PROVE  StoreInv'
<1>1. /\ outcome = Running /\ submission = None /\ submission' \in ResultDocuments
      /\ UNCHANGED <<pipelineVars, client, request, provenance, reply>>
    BY DEF SubmitForeign
<1>2. outcome.state = "running" /\ request # None
    BY <1>1, OutcomeStates DEF CanonicalInv
<1>3. reply = None
    BY <1>1, <1>2 DEF StoreInv
<1>4. /\ reports' = reports /\ usage' = usage /\ outcome' = outcome
      /\ request' = request /\ provenance' = provenance /\ reply' = reply
    BY <1>1 DEF pipelineVars
<1>5. UsageAddsUp' /\ EndIsValid'
    BY <1>4 DEF StoreInv, UsageAddsUp, EndIsValid
<1>6. TypedResult(submission') /\ submission'.large \in BOOLEAN
    BY <1>1, CanonicalAssumption DEF TypedResult
<1> QED
    BY <1>2, <1>3, <1>4, <1>5, <1>6 DEF StoreInv

LEMMA DeliverKeepsStore ==
    ASSUME CanonicalInv, StoreInv, Deliver
    PROVE  StoreInv'
<1>1. submission # None /\ UNCHANGED <<pipelineVars, client, request, provenance, submission>>
    BY DEF Deliver
<1>2. TypedResult(submission) /\ submission.large \in BOOLEAN /\ Rebuilds(submission)
    BY <1>1 DEF StoreInv, CanonicalInv
<1>3. \/ Storable(submission) /\ reply' = Accepted(submission)
      \/ ~Storable(submission) /\ reply'.state = "refused" /\ reply'.error # "Domain"
    BY <1>2, AnswerIsExact DEF Deliver
<1>4. submission' = submission
    BY <1>1
<1> QED
    BY <1>1, <1>3, <1>4, StoreKept DEF StoreInv

-----------------------------------------------------------------------------
(***************************************************************************)
(* What the path keeps.                                                    *)
(***************************************************************************)

\* Every step from the client to the store and back keeps the inductive
\* invariant.
THEOREM PathInvariance == CanonicalSpec => []CanonicalInv
<1>1. CanonicalInv /\ [CanonicalNext]_canonicalVars => CanonicalInv'
  <2> SUFFICES ASSUME CanonicalInv, [CanonicalNext]_canonicalVars PROVE CanonicalInv'
      OBVIOUS
  <2>1. CASE UNCHANGED canonicalVars
    <3>1. UNCHANGED <<pipelineVars, client, request, provenance, submission, reply>>
        BY <2>1 DEF canonicalVars
    <3>2. PipelineInv'
        BY <3>1, PipelineNextInv DEF CanonicalInv
    <3> QED
        BY <3>1, <3>2 DEF CanonicalInv, pipelineVars
  <2>2. CASE \E possible \in Possible, large \in BOOLEAN : Submit(possible, large)
      BY <2>2, SubmitKeepsInv
  <2> QED
      BY <2>1, <2>2, CreateKeepsInv, LeaseKeepsInv, RunKeepsInv, SubmitForeignKeepsInv,
         DeliverKeepsInv DEF CanonicalNext
<1> QED
    BY <1>1, PathStarts, PTL DEF CanonicalSpec

\* A node only ever has requests that the domain's constructors accept, and a
\* run's reports, usage and end have their types on the whole path.
THEOREM PathTyped == CanonicalSpec => []CanonicalTypeOK
<1>1. CanonicalInv => CanonicalTypeOK
    BY DEF CanonicalInv, CanonicalTypeOK, PipelineInv, Carriable
<1> QED
    BY <1>1, PathInvariance, PTL

\* A request that decode_evaluation_request found in order reaches a node as
\* the client sent it, for every request document and every grammar of its
\* identifiers; the store's payload never turns out corrupt, and read_bounded
\* never cuts a file that grew.
THEOREM RequestsSurvive == CanonicalSpec => []RequestSurvives
<1>1. CanonicalInv => RequestSurvives
    BY DEF CanonicalInv, RequestSurvives, Carriable, LostRequest
<1> QED
    BY <1>1, PathInvariance, PTL

\* The hand-written parsers of value.rs and the patterns of the schema accept
\* the same identifiers and capabilities, of every length, so that a request
\* is in order for the domain exactly if it is for the schema.
THEOREM ParsersAgreeWithSchema == CanonicalSpec => []ParsersMatchSchema
<1>1. CanonicalInv => ParsersMatchSchema
    BY RequestGrammar DEF CanonicalInv, ParsersMatchSchema
<1> QED
    BY <1>1, PathInvariance, PTL

\* Between the client and the store, too, no success is fabricated.
THEOREM PathFabricatesNothing == CanonicalSpec => []NoFabricatedSuccess
<1>1. CanonicalInv => NoFabricatedSuccess
    BY DEF CanonicalInv, PipelineInv
<1> QED
    BY <1>1, PathInvariance, PTL

\* The way back keeps its own invariant.
LEMMA StoreInvariance == CanonicalSpec => []StoreInv
<1>1. CanonicalInv /\ StoreInv /\ [CanonicalNext]_canonicalVars => StoreInv'
  <2> SUFFICES ASSUME CanonicalInv, StoreInv, [CanonicalNext]_canonicalVars PROVE StoreInv'
      OBVIOUS
  <2>1. CASE UNCHANGED canonicalVars
    <3>1. /\ UNCHANGED <<pipelineVars, request, provenance, submission>>
          /\ reply' = reply /\ request' = request /\ submission' = submission
          /\ outcome' = outcome
        BY <2>1 DEF canonicalVars, pipelineVars
    <3> QED
        BY <3>1, StoreKept DEF StoreInv
  <2>2. CASE \E possible \in Possible, large \in BOOLEAN : Submit(possible, large)
      BY <2>2, SubmitKeepsStore
  <2> QED
      BY <2>1, <2>2, CreateKeepsStore, LeaseKeepsStore, RunKeepsStore, SubmitForeignKeepsStore,
         DeliverKeepsStore DEF CanonicalNext
<1>2. CanonicalInit => StoreInv
    BY StoreStarts
<1> QED
    BY <1>1, <1>2, PathInvariance, PTL DEF CanonicalSpec

\* Whatever an executor returned at any stage, the result that evaluate built
\* of it passes encode_evaluation_result, decode_evaluation_result_domain and
\* the store, and what is stored is what was built; only the size of its text
\* can keep it out.
THEOREM RunsAlwaysStored == CanonicalSpec => []RunsAreStored
<1>1. CanonicalInv /\ StoreInv => RunsAreStored
  <2> SUFFICES ASSUME CanonicalInv, StoreInv, outcome.state = "result", reply # None
               PROVE  IF reply.state = "refused" THEN reply.error = "MessageTooLarge"
                      ELSE \E possible \in Possible :
                              reply.value = ResultToValue(RunResult(possible, FALSE))
      BY DEF RunsAreStored
  <2>1. request # None
      BY OutcomeStates DEF CanonicalInv
  <2>2. CASE submission = None
    <3>1. reply = Refused("MessageTooLarge")
        BY <2>1, <2>2 DEF StoreInv
    <3> QED
        BY <3>1, Replies
  <2>3. CASE submission # None
    <3>1. PICK possible \in Possible : submission = ResultToValue(RunResult(possible, FALSE))
        BY <2>3 DEF StoreInv, RunDocument
    <3>2. Storable(submission)
        BY <3>1, RunIsStorable
    <3>3. reply = Accepted(submission)
        BY <2>3, <3>2 DEF StoreInv
    <3> QED
        BY <3>1, <3>3, Replies
  <2> QED
      BY <2>2, <2>3
<1> QED
    BY <1>1, PathInvariance, StoreInvariance, PTL

\* validate_result_semantics and EvaluationResult::new, written apart, agree on
\* every document a peer may send, however its stages, its usage and its end
\* are combined: one is stored exactly if its text fits, the domain can hold
\* it under the leased identity and its usage is that of its stages.
THEOREM ChecksFailClosed == CanonicalSpec => []FailsClosed
<1>1. StoreInv => FailsClosed
  <2> SUFFICES ASSUME StoreInv, submission # None, reply # None PROVE FailsClosed
      BY DEF FailsClosed
  <2> DEFINE d == submission
             sums == /\ d.usage.spent = Spent(d.stages)
                     /\ \A i \in DOMAIN d.stages : d.stages[i].usage.peak <= d.usage.peak
                     /\ \E i \in DOMAIN d.stages : d.stages[i].usage.peak = d.usage.peak
  <2>1. d.stages \in Seq(Reports) /\ d.usage \in Usages
      BY DEF StoreInv, TypedResult
  <2>2. DomainResult(ResultParts(d)) => FullPlan(d.stages)
      BY DEF DomainResult, ResultParts, FullPlan
  <2>3. FullPlan(d.stages) => d.stages # << >>
      BY <2>1, ReportsOfPlan
  <2>4. DomainResult(ResultParts(d)) => (AggregateUsage(d) <=> sums)
      BY <2>1, <2>2, <2>3, TotalsMeaning DEF AggregateUsage
  <2>5. \/ Storable(d) /\ reply.state = "accepted"
        \/ ~Storable(d) /\ reply.state = "refused" /\ reply.error # "Domain"
      BY Replies DEF StoreInv
  <2> HIDE DEF sums
  <2>6. Storable(d) <=> /\ ~d.large /\ DomainResult(ResultParts(d))
                        /\ ResultParts(d).identity = Identity(request) /\ sums
      BY <2>4 DEF Storable
  <2> QED
      BY <2>5, <2>6 DEF FailsClosed, sums
<1> QED
    BY <1>1, StoreInvariance, PTL
=============================================================================
