-------------------------- MODULE MCWhisperFull --------------------------
(* The calls WhisperFull is checked with: the keyboard's own (greedy, one    *)
(* segment per window), the library's defaults, models without timestamps    *)
(* or without tensors, a limit on tokens, and beam search.                   *)
EXTENDS WhisperFull

Default == [strategy |-> "greedy", best_of |-> 2, beam_size |-> 1,
            single_segment |-> FALSE, no_timestamps |-> FALSE,
            multilingual |-> TRUE, max_tokens |-> 0, loaded |-> TRUE,
            past |-> 0, frames |-> 5]

Keyboard == [Default EXCEPT !.single_segment = TRUE]
Beam     == [Default EXCEPT !.strategy = "beam", !.beam_size = 2]

MCCalls ==
    {[Keyboard EXCEPT !.frames = f] : f \in {2, 3, 9}}
    \cup {[Keyboard EXCEPT !.no_timestamps = TRUE, !.past = 12, !.frames = 9],
          [Keyboard EXCEPT !.loaded = FALSE, !.frames = 9],
          [Default EXCEPT !.past = 12], [Default EXCEPT !.best_of = 1, !.frames = 9],
          [Default EXCEPT !.multilingual = FALSE, !.max_tokens = 1],
          [Beam EXCEPT !.no_timestamps = TRUE, !.past = 12]}
==========================================================================
