------------------------------ MODULE WhisperModel ------------------------------
(***************************************************************************)
(* A speech model in use: it is loaded and freed (WhisperLoad) and, while  *)
(* it is whole and has its state, it transcribes (WhisperAttention); a     *)
(* new state starts with caches of its own.  The instance that TLC checks  *)
(* stands at the end.                                                      *)
(***************************************************************************)
EXTENDS WhisperLoad, WhisperAttention

vars == <<files, speech>>

Init == LoadInit /\ SpeechInit

\* A model with no or torn weights computes the same with other numbers, and
\* so does one after failed loads.
InUse == state = "live" /\ loads = 1 /\ \A w \in Names : ctx.weights[w] = "whole"

Next ==
    \/ InUse /\ SpeechNext /\ UNCHANGED files
    \/ ((\E f \in Files : Load(f)) \/ InitState) /\ UNCHANGED speech
    \/ FreeModel /\ Forget
Spec == Init /\ [][Next]_vars

-----------------------------------------------------------------------------
\* Two small models, a file of two tensors torn in every way, and audio of which
\* one sample sounds.
Hparams == [n_state |-> 4, n_head |-> 2, n_layer |-> 2, n_audio_ctx |-> 3, n_text_ctx |-> 3,
            n_mels |-> 2, n_vocab |-> 5, wtype |-> "F16"]
MCModels == {Hparams, [Hparams EXCEPT !.n_state = 32, !.n_layer = 1, !.wtype = "Q8_0", !.n_audio_ctx = 2,
                             !.n_text_ctx = 2]}

MCNames == {"a", "b"}
Rec(name, fits) == [name |-> name, fits |-> fits]
File(recs, cut, at) == [magic |-> TRUE, ftype |-> TRUE, recs |-> recs, cut |-> cut, at |-> at]
Both == <<Rec("b", TRUE), Rec("a", TRUE)>>
MCFiles ==
    {File(Both, "none", 0), File(Both, "vocab", 0)}
    \cup {File(Both, cut, at) : cut \in {"header", "name", "data"}, at \in 1 .. 2}
    \cup {[File(Both, "none", 0) EXCEPT !.magic = FALSE], [File(Both, "none", 0) EXCEPT !.ftype = FALSE],
          File(<<Rec("a", TRUE)>>, "none", 0), File(Both \o <<Rec("c", TRUE)>>, "none", 0),
          File(<<Rec("a", TRUE), Rec("b", FALSE)>>, "none", 0)}

MCAudios == {[n |-> n, one |-> o] : n \in 7 .. 9, o \in {0, 3, 6}}
=============================================================================
