------------------------------ MODULE Dictation ------------------------------
(***************************************************************************)
(* What voice typing promises its user, whatever threads, buffers and      *)
(* processes are in between: speech is heard chunk by chunk, and from time *)
(* to time some of what was heard appears as text.  Text is in the order   *)
(* it was spoken in, never repeats itself and never contains what was not  *)
(* said.  Nothing is promised about speech that is lost.                   *)
(***************************************************************************)
EXTENDS Naturals, Sequences

VARIABLES
    heard,  \* chunks of speech so far, numbered from 1
    text    \* the chunks that have become text, in the order of the text

Init == heard = 0 /\ text = <<>>

Hear == heard' = heard + 1 /\ UNCHANGED text

\* Some chunks spoken since the last text are appended, in their order.
Write ==
    /\ text' \in Seq(1 .. heard)
    /\ Len(text) <= Len(text') /\ SubSeq(text', 1, Len(text)) = text
    /\ \A i \in Len(text) + 1 .. Len(text') : i > 1 => text'[i - 1] < text'[i]
    /\ UNCHANGED heard

Next == Hear \/ Write

Spec == Init /\ [][Next]_<<heard, text>>
=============================================================================
