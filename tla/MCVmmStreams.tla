--------------------------- MODULE MCVmmStreams -----------------------------
(* The inputs for an instance of VmmStreams: each message of the guest       *)
(* protocol and responses of the control API, with fields on both sides of   *)
(* their bounds.                                                             *)
EXTENDS VmmStreams

MCUpload(name, inline, chars) ==
    [type |-> "upload_input", name |-> name, intact |-> TRUE, inline |-> inline, chars |-> chars]

MCQuestions ==
    {[type |-> "negotiate", sorted |-> TRUE], [type |-> "negotiate", sorted |-> FALSE],
     MCUpload("plain", 2, 4), MCUpload("plain", 2, 7), MCUpload("plain", 3, 6),
     MCUpload("dotted", 0, 0),
     [type |-> "run", argv |-> 1], [type |-> "run", argv |-> 0],
     [type |-> "stage_evidence", kind |-> 1], [type |-> "stage_evidence", kind |-> 2],
     [type |-> "cancel"], [type |-> "ack"]}

MCResponse(status, head, declared, body) ==
    [status |-> status, head |-> head, declared |-> declared, body |-> body]

\* Without a body, with one, with one that is cut, too long, refused, and with
\* a head that is too long.
MCResponses ==
    {MCResponse(204, 1, Undeclared, 0), MCResponse(200, 2, 1, 1), MCResponse(200, 1, 2, 1),
     MCResponse(200, 1, 4, 4), MCResponse(400, 1, 1, 1), MCResponse(204, 4, 0, 0)}
=============================================================================
