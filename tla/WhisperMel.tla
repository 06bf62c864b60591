------------------------------ MODULE WhisperMel ------------------------------
(***************************************************************************)
(* The spectrogram of whisper.cpp: frames of the padded audio, shared out  *)
(* among threads, each through a fast Fourier transform.                   *)
(*                                                                         *)
(* The transform only adds, multiplies and looks roots of unity up in a    *)
(* table, so it is checked in the numbers modulo Prime, where Root is a    *)
(* root of unity of the table's order: cos(t) - i sin(t) is one number.    *)
(* The window function, the power of each bin, the mel filters, the        *)
(* logarithm and the clamping after it work on each value by itself and    *)
(* are left out: a frame is its spectrum.                                  *)
(***************************************************************************)
EXTENDS Integers, FiniteSetsExt

CONSTANTS
    N_FFT,      \* WHISPER_N_FFT: samples of a frame, and of the sine table (400)
    HOP,        \* WHISPER_HOP_LENGTH: samples from one frame to the next (160)
    Silence,    \* samples of silence appended (stage_1_pad, 30 seconds)
    Prime, Root

ASSUME MelAssumption ==
    /\ N_FFT \in Nat \ {0} /\ HOP \in Nat \ {0} /\ Silence \in Nat
    /\ Prime \in Nat /\ Root \in 1 .. Prime - 1

Power[e \in Nat] == IF e = 0 THEN 1 ELSE (Root * Power[e - 1]) % Prime
\* fill_sin_cos_table: entry i is exp(-2 pi i / N_FFT).
table == [i \in 0 .. N_FFT - 1 |-> Power[(N_FFT - i) % N_FFT]]

SumMod(f, S) == MapThenSumSet(LAMBDA n : f[n], S) % Prime

\* N is the number of samples: in is a function on 0 .. N - 1.
dft(in, N) ==
    LET sin_cos_step == N_FFT \div N
    IN  [k \in 0 .. N - 1 |->
           SumMod([n \in 0 .. N - 1 |-> in[n] * table[(k * n * sin_cos_step) % N_FFT]], 0 .. N - 1)]

RECURSIVE fft(_, _)
fft(in, N) ==
    IF N = 1 THEN in
    ELSE IF N % 2 = 1 THEN dft(in, N)
    ELSE LET even == fft([i \in 0 .. (N \div 2) - 1 |-> in[2 * i]], N \div 2)
             odd  == fft([i \in 0 .. (N \div 2) - 1 |-> in[2 * i + 1]], N \div 2)
             sin_cos_step == N_FFT \div N
             turned(k) == table[k * sin_cos_step] * odd[k]
         IN  [k \in 0 .. N - 1 |->
                IF k < N \div 2 THEN (even[k] + turned(k)) % Prime
                ELSE (even[k - (N \div 2)] - turned(k - (N \div 2))) % Prime]

----------------------------------------------------------------------------
\* log_mel_spectrogram: the audio mirrored before its start, with silence
\* after its end.  The code reads samples[1 .. pad] for the mirror, so it
\* needs more than pad samples.
stage_2_pad == N_FFT \div 2
padded(samples, n) ==
    [x \in 0 .. n + Silence + 2 * stage_2_pad - 1 |->
        IF x < stage_2_pad THEN samples[stage_2_pad - x]
        ELSE IF x < n + stage_2_pad THEN samples[x - stage_2_pad] ELSE 0]
MelLen(n) == (n + Silence + 2 * stage_2_pad - N_FFT) \div HOP

\* log_mel_spectrogram_worker_thread: thread ith of n_threads goes through
\* the frames ith, ith + n_threads, ... with one buffer.
FramesOf(ith, n_threads, len) == {i \in 0 .. len - 1 : i % n_threads = ith}
\* Mutant: what the frame does not fill stays from the frame before it.
WindowStale(audio, n_samples, i, before) ==
    [j \in 0 .. N_FFT - 1 |-> IF j < n_samples - i * HOP THEN audio[i * HOP + j] ELSE before[j]]
Window(audio, n_samples, i, before) ==
    [j \in 0 .. N_FFT - 1 |-> IF j < n_samples - i * HOP THEN audio[i * HOP + j] ELSE 0]
\* The frames of one thread; past the audio nothing is computed.
Worker(ith, audio, n_samples, n_threads, len) ==
    LET last == Min({(n_samples \div HOP) + 1, len})
        none == [j \in 0 .. N_FFT - 1 |-> 0]
        fft_in[i \in 0 .. len - 1] ==
            Window(audio, n_samples, i, IF i < n_threads THEN none ELSE fft_in[i - n_threads])
    IN  [i \in FramesOf(ith, n_threads, len) |-> IF i < last THEN fft(fft_in[i], N_FFT) ELSE none]

log_mel_spectrogram(samples, n, n_threads) ==
    LET len   == MelLen(n)
        audio == padded(samples, n)
    IN  [n_len |-> len,
         data  |-> [i \in 0 .. len - 1 |->
                       Worker(i % n_threads, audio, n + stage_2_pad, n_threads, len)[i]]]

\* What it should be: each frame the transform of its stretch of the padded
\* audio, by definition.
Spectrum(samples, n) ==
    LET audio == padded(samples, n)
    IN  [i \in 0 .. MelLen(n) - 1 |->
           [k \in 0 .. N_FFT - 1 |->
              SumMod([j \in 0 .. N_FFT - 1 |-> audio[i * HOP + j] * Power[(k * (N_FFT - j)) % N_FFT]],
                     0 .. N_FFT - 1)]]
=============================================================================
