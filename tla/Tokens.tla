------------------------------- MODULE Tokens -------------------------------
(***************************************************************************)
(* The grammars of identifiers and capabilities.  crates/openoj-domain     *)
(* (value.rs) parses them by hand, the canonical schema states them as     *)
(* patterns, and the database states the capabilities' once more in a      *)
(* CHECK.  A token is a sequence of character classes:                     *)
(*    "a" lowercase   "A" uppercase   "1" a digit                          *)
(*    "." dot or hyphen   "_" underscore or colon   "/" anything else      *)
(***************************************************************************)
EXTENDS Naturals, Sequences, SequencesExt

CONSTANT MaxToken       \* MAX_OPAQUE_ID_LENGTH, MAX_CAPABILITY_LENGTH

ASSUME TokenAssumption == MaxToken \in Nat

Characters == {"a", "A", "1", ".", "_", "/"}
Separators == {".", "_"}
Alphanumeric == {"a", "A", "1"}

\* validate_opaque
ValidOpaque(token) ==
    /\ token # << >> /\ Len(token) <= MaxToken
    /\ token[1] \in Alphanumeric
    /\ Range(Tail(token)) \subseteq Alphanumeric \cup Separators

\* Fault: a separator may follow a separator.
ScansLoosely(scan, byte, token) ==
    IF ~scan.valid THEN scan ELSE
    IF byte \in Separators THEN [valid |-> TRUE, segment_start |-> TRUE] ELSE
    [valid |-> byte \in {"a", "1"} /\ ~(byte = "1" /\ scan.segment_start /\ token[1] = byte),
     segment_start |-> FALSE]

\* The loop of validate_lower_token.  It tells the first segment from the
\* others by the value of the first byte, not by its place.
Scanned(scan, byte, token) ==
    IF ~scan.valid THEN scan ELSE
    IF byte \in Separators THEN [valid |-> ~scan.segment_start, segment_start |-> TRUE] ELSE
    [valid |-> byte \in {"a", "1"} /\ ~(byte = "1" /\ scan.segment_start /\ token[1] = byte),
     segment_start |-> FALSE]

\* The state of the loop before the first byte and after every byte.
Scans(token) ==
    LET scan[i \in 0 .. Len(token)] ==
            IF i = 0 THEN [valid |-> TRUE, segment_start |-> TRUE]
            ELSE Scanned(scan[i - 1], token[i], token) IN
    scan

\* validate_lower_token
ValidLowerToken(token) ==
    LET end == Scans(token)[Len(token)] IN
    /\ token # << >> /\ Len(token) <= MaxToken
    /\ end.valid /\ ~end.segment_start

-----------------------------------------------------------------------------
\* Segments of these characters, with one of these separators between two.
Segmented(token, segment, separators) ==
    /\ token # << >> /\ Range(token) \subseteq segment \cup separators
    /\ token[1] \in segment /\ token[Len(token)] \in segment
    /\ \A i \in 1 .. (Len(token) - 1) : token[i] \in segment \/ token[i + 1] \in segment

\* OpaqueId: ^[A-Za-z0-9][A-Za-z0-9._:-]*$
SchemaOpaqueId(token) ==
    /\ Len(token) \in 1 .. MaxToken
    /\ token[1] \in Alphanumeric
    /\ \A i \in 2 .. Len(token) : token[i] \in Alphanumeric \cup Separators

\* Capability: ^[a-z][a-z0-9]*(?:[._:-][a-z0-9]+)*$
SchemaCapability(token) ==
    /\ Len(token) \in 1 .. MaxToken
    /\ token[1] = "a" /\ Segmented(token, {"a", "1"}, Separators)

\* The CHECK: ^[a-z0-9]+([.-][a-z0-9]+)*$
StorableCapability(token) ==
    /\ Len(token) <= MaxToken
    /\ Segmented(token, {"a", "1"}, {"."})
=============================================================================
