---------------------------- MODULE ReadWriteLock ----------------------------
(***************************************************************************)
(* What a slim reader/writer lock promises: one writer, or any number of   *)
(* readers.                                                                *)
(***************************************************************************)
CONSTANT Thread

VARIABLES readers, writers

Init == readers = {} /\ writers = {}

Read(t)  == /\ writers = {} /\ t \notin readers
            /\ readers' = readers \cup {t}
            /\ UNCHANGED writers
Write(t) == /\ writers = {} /\ readers = {}
            /\ writers' = {t}
            /\ UNCHANGED readers
EndRead(t)  == t \in readers /\ readers' = readers \ {t} /\ UNCHANGED writers
EndWrite(t) == t \in writers /\ writers' = writers \ {t} /\ UNCHANGED readers

Next == \E t \in Thread : Read(t) \/ Write(t) \/ EndRead(t) \/ EndWrite(t)

Spec == Init /\ [][Next]_<<readers, writers>>
=============================================================================
