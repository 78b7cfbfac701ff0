------------------------------- MODULE Stokes -------------------------------
(***************************************************************************)
(* Spectrometer::doAcc and the six accumulators behind it: after the FFTs  *)
(* of a block every computing thread accumulates the polarisation products *)
(* of its share of the channels, over all integrations, into the float     *)
(* array of the output frame, which all threads share.                     *)
(*                                                                         *)
(* Samples are pairs of integers, and a vector register holds two of them  *)
(* (re, im, re, im).  One stream (tuning) is modelled: the streams are     *)
(* K * number_products floats apart and are treated alike.                 *)
(***************************************************************************)
EXTENDS Integers, Sequences, FiniteSetsExt, Bitwise

CONSTANTS
  K,          \* channels
  L,          \* integrations
  Threads,    \* number_threads: tunings times polarisations
  Modes,      \* StokesProducts to check
  Inputs      \* pairs of FFT outputs <<x, y>>, functions of integration and channel

ASSUME StokesAssumption == {K, L, Threads} \subseteq Nat \ {0}

VARIABLES mode, x, y,
          adata,     \* the floats of the output frame; what was there before
          turn       \* per thread, how far it is: 0, .., L + 2

stVars == <<mode, x, y, adata, turn>>

Products == [XXYY |-> 2, CRCI |-> 2, XXCRCIYY |-> 4, I |-> 1, IV |-> 2, IQUV |-> 4]
number_products == Products[mode]

\* The geometries the SPC command accepts; K channels, L integrations here
\* are those of the smaller instance that is checked.
SpcIntegrations == 4096
SpcAccepts(nFreqs, nInts) ==
  nFreqs \in 32 .. 16384 /\ nInts \in 384 .. 24576 /\ (nFreqs * nInts) % 4096 = 0

Thread == 0 .. Threads - 1
Junk   == 99

StInit ==
  /\ mode \in Modes
  /\ \E in \in Inputs : x = in[1] /\ y = in[2]
  /\ adata = [i \in 0 .. K * number_products - 1 |-> Junk]
  /\ turn = [t \in Thread |-> 0]

-----------------------------------------------------------------------------
(* The vector instructions.                                                *)

mulps(a, b)  == [i \in 1 .. 4 |-> a[i] * b[i]]
addps(a, b)  == [i \in 1 .. 4 |-> a[i] + b[i]]
subps(a, b)  == [i \in 1 .. 4 |-> a[i] - b[i]]
haddps(a, b) == <<a[1] + a[2], a[3] + a[4], b[1] + b[2], b[3] + b[4]>>
hsubps(a, b) == <<a[1] - a[2], a[3] - a[4], b[1] - b[2], b[3] - b[4]>>
shufps(a)    == <<a[2], a[1], a[4], a[3]>>       \* _MM_SHUFFLE(2,3,0,1)

-----------------------------------------------------------------------------
(* The accumulators: what each adds for four neighbouring channels, given  *)
(* their samples in the registers x1, x2 and y1, y2, as one tuple of four  *)
(* for each product.                                                       *)

Power(a1, a2)         == haddps(mulps(a1, a1), mulps(a2, a2))
Real(x1, x2, y1, y2)  == haddps(mulps(x1, y1), mulps(x2, y2))
ImagWrong(x1, x2, y1, y2) == hsubps(mulps(x1, shufps(y1)), mulps(x2, shufps(y2)))
Imag(x1, x2, y1, y2)  == hsubps(mulps(shufps(x1), y1), mulps(shufps(x2), y2))

doAcc_XXYY(x1, x2, y1, y2) ==
  LET lo == haddps(mulps(x1, x1), mulps(y1, y1))
      hi == haddps(mulps(x2, x2), mulps(y2, y2))
  IN  << <<lo[1], lo[2], hi[1], hi[2]>>, <<lo[3], lo[4], hi[3], hi[4]>> >>

doAcc_CRCI(x1, x2, y1, y2) == <<Real(x1, x2, y1, y2), Imag(x1, x2, y1, y2)>>

doAcc_XXCRCIYY(x1, x2, y1, y2) ==
  <<Power(x1, x2), Real(x1, x2, y1, y2), Imag(x1, x2, y1, y2), Power(y1, y2)>>

doAcc_I(x1, x2, y1, y2) == <<addps(Power(x1, x2), Power(y1, y2))>>

doAcc_IV(x1, x2, y1, y2) == doAcc_I(x1, x2, y1, y2) \o <<Imag(x1, x2, y1, y2)>>

doAcc_IQUV(x1, x2, y1, y2) ==
  <<addps(Power(x1, x2), Power(y1, y2)), subps(Power(x1, x2), Power(y1, y2)),
    Real(x1, x2, y1, y2), Imag(x1, x2, y1, y2)>>

doAcc(x1, x2, y1, y2) ==
  CASE mode = "XXYY"     -> doAcc_XXYY(x1, x2, y1, y2)
    [] mode = "CRCI"     -> doAcc_CRCI(x1, x2, y1, y2)
    [] mode = "XXCRCIYY" -> doAcc_XXCRCIYY(x1, x2, y1, y2)
    [] mode = "I"        -> doAcc_I(x1, x2, y1, y2)
    [] mode = "IV"       -> doAcc_IV(x1, x2, y1, y2)
    [] mode = "IQUV"     -> doAcc_IQUV(x1, x2, y1, y2)

\* The products that are doubled when all integrations are in.
Doubled == CASE mode = "IQUV" -> {3, 4} [] mode = "IV" -> {2} [] OTHER -> {}

-----------------------------------------------------------------------------
(* The threads.                                                            *)

n_freqs_per_thread == K \div Threads
startFreq(t)       == t * n_freqs_per_thread

\* Exclusive or with K / 2, which moves channel 0 to the middle when K is a
\* power of two.
freq_mask  == K \div 2
f_index(f) == (f ^^ freq_mask) * number_products

\* The channels a thread accumulates: four at a time (two for XXYY) up to
\* the end of its share.
Stride    == IF mode = "XXYY" THEN 2 ELSE 4
StartsOver(t) == {f \in startFreq(t) .. startFreq(t) + n_freqs_per_thread :
                    (f - startFreq(t)) % Stride = 0}
Starts(t) == {f \in startFreq(t) .. startFreq(t) + n_freqs_per_thread - 1 :
                (f - startFreq(t)) % Stride = 0}
Share(t)  == {f \in 0 .. K + 3 : \E s \in Starts(t) : f \in s .. s + Stride - 1}

register(z, f) == IF f + 1 < K THEN z[f] \o z[f + 1] ELSE <<0, 0, 0, 0>>

\* What the samples of channel f in integration i add to its product p.
Added(i, f, t, p) ==
  LET s == CHOOSE s \in {g \in 0 .. f : g % 4 = startFreq(t) % 4 /\ f - g < 4} : TRUE
  IN  doAcc(register(x[i], s), register(x[i], s + 2),
            register(y[i], s), register(y[i], s + 2))[p][f - s + 1]

Writes(t)  == {f_index(f) + p - 1 : f \in Share(t), p \in 1 .. number_products}
Zeroes(t)  == f_index(startFreq(t)) ..
              f_index(startFreq(t)) + n_freqs_per_thread * number_products - 1

bzeroShare(t) ==
  adata' = [i \in DOMAIN adata |-> IF i \in Zeroes(t) THEN 0 ELSE adata[i]]

accumulate(t, i) ==
  adata' = [a \in DOMAIN adata |->
              LET here == {fp \in Share(t) \X (1 .. number_products) : f_index(fp[1]) + fp[2] - 1 = a}
              IN  adata[a] + MapThenSumSet(LAMBDA fp : Added(i, fp[1], t, fp[2]), here)]

fixUp(t) ==
  adata' = [a \in DOMAIN adata |->
              IF \E f \in startFreq(t) .. startFreq(t) + n_freqs_per_thread - 1, p \in Doubled :
                   a = f_index(f) + p - 1
              THEN 2 * adata[a] ELSE adata[a]]

\* One step of a thread: clear its part, add an integration, double.
threadStep(t) ==
  /\ turn[t] <= L + 1
  /\ turn' = [turn EXCEPT ![t] = @ + 1]
  /\ CASE turn[t] = 0          -> bzeroShare(t)
       [] turn[t] \in 1 .. L   -> accumulate(t, turn[t])
       [] turn[t] = L + 1      -> fixUp(t)
  /\ UNCHANGED <<mode, x, y>>

StNext == \E t \in Thread : threadStep(t)
StSpec == StInit /\ [][StNext]_stVars

-----------------------------------------------------------------------------
(* Properties.                                                             *)

Re(z) == z[1]
Im(z) == z[2]
Norm(z) == Re(z) * Re(z) + Im(z) * Im(z)
CrossRe(a, b) == Re(a) * Re(b) + Im(a) * Im(b)     \* of a times b conjugate
CrossIm(a, b) == Im(a) * Re(b) - Re(a) * Im(b)

\* What the products of two samples are, by their definition.
Reference(a, b) ==
  CASE mode = "XXYY"     -> <<Norm(a), Norm(b)>>
    [] mode = "CRCI"     -> <<CrossRe(a, b), CrossIm(a, b)>>
    [] mode = "XXCRCIYY" -> <<Norm(a), CrossRe(a, b), CrossIm(a, b), Norm(b)>>
    [] mode = "I"        -> <<Norm(a) + Norm(b)>>
    [] mode = "IV"       -> <<Norm(a) + Norm(b), 2 * CrossIm(a, b)>>
    [] mode = "IQUV"     -> <<Norm(a) + Norm(b), Norm(a) - Norm(b),
                              2 * CrossRe(a, b), 2 * CrossIm(a, b)>>

Shifted(f) == (f + K \div 2) % K

\* When all threads are through, in whatever order they ran, every product
\* of every channel is the sum over the integrations of its definition, at
\* the place the shifted spectrum has it.
SpectrumIsStokes ==
  (\A t \in Thread : turn[t] = L + 2) =>
    \A f \in 0 .. K - 1, p \in 1 .. number_products :
      adata[Shifted(f) * number_products + p - 1] =
        MapThenSumSet(LAMBDA i : Reference(x[i][f], y[i][f])[p], 1 .. L)

\* A thread that has begun stays within the frame it was given, and its part is its own:
\* it clears what it accumulates into, and no other thread touches it.
StokesTypeOK ==
  \A t \in {u \in Thread : turn[u] > 0} :
    /\ Writes(t) \subseteq DOMAIN adata
    /\ Writes(t) = Zeroes(t)
    /\ \A u \in Thread \ {t} : Writes(t) \cap Writes(u) = {}

\* The threads share the frame without touching each other's part, and
\* together compute the products they were asked for.
SpectrumSound == StokesTypeOK /\ SpectrumIsStokes

\* A transform length the SPC command accepts with some integration count is
\* one for which the computing threads stay within the frame.
LengthIsSupported ==
  SpcAccepts(K, SpcIntegrations) => \A t \in Thread : Writes(t) \subseteq DOMAIN adata
=============================================================================
