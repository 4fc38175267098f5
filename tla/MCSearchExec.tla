----------------------------- MODULE MCSearchExec -----------------------------
(***************************************************************************)
(* Two sessions with two-message snapshots search concurrently.  The    *)
(* messages differ in \Seen, in the From: word and in the presence of a   *)
(* valid Date: header, so that keys match some rows and not others, and a *)
(* SENT* key can fail on a row.                                           *)
(***************************************************************************)
EXTENDS SearchExec

W1 == CHOOSE w \in Words : TRUE

NoHeader == [f \in {"From"} |-> {}]
FromW1   == [f \in {"From"} |-> {W1}]

Row(uid, seq, flags, header, valid) ==
    [uid |-> uid, seq |-> seq, flags |-> flags, size |-> 1, date |-> 24,
     zone |-> 0, header |-> header, hdrDate |-> 24, hdrZone |-> 0,
     hdrValid |-> valid, body |-> {}]

(* Session s1's mailbox has UIDs 3 and 5; s2's has a row without Date:.   *)
MCSnap(s) ==
    IF s = CHOOSE x \in Sessions : TRUE
    THEN <<Row(3, 1, {"\\seen"}, NoHeader, TRUE),
           Row(5, 2, {}, FromW1, TRUE)>>
    ELSE <<Row(2, 1, {}, FromW1, TRUE),
           Row(4, 2, {"\\seen"}, NoHeader, FALSE)>>

MCSnapshots == [s \in Sessions |-> MCSnap(s)]

MCKeys == {Leaf("UNSEEN", "none"), Leaf("SENTON", 1)}

=============================================================================
