------------------------------ MODULE ChainStore ------------------------------
(***************************************************************************)
(* The storing handlers of handlers.hpp and the binary files written from  *)
(* them.  Each chain's handler hears of its own warm-up and draws, in any  *)
(* interleaving with the others'; a client may write the files at any      *)
(* time, also after a call that ended early.                               *)
(*                                                                         *)
(* The file is the sequence of the 8-byte words written to it.  A log      *)
(* density is a number that names its draw.                                *)
(***************************************************************************)
EXTENDS Summary

CONSTANTS
  NumChains, Dims,
  Traces,       \* [chain -> sequence of the values its draws will have]
  MaxWarmup     \* bound on a chain's warm-up draws
                \* (a trace's length bounds its draws)

ASSUME StoreAssumption ==
  /\ NumChains \in Nat \ {0} /\ Dims \in Nat \ {0} /\ MaxWarmup \in Nat
  /\ Traces \subseteq [1 .. NumChains -> Seq(Int)]

Chains == 1 .. NumChains

VARIABLES
  handlers,   \* the ChainStores
  r_hats,     \* of the GlobalStore
  warmups,    \* history: warm-up draws each chain made
  made,       \* history: draws each chain made
  complete,   \* history: chains whose warm-up is complete
  trace,      \* the values the draws have
  file        \* what was written since the last event, and its words

storeVars == <<handlers, r_hats, warmups, made, complete, trace, file>>

\* A draw's position and log density; warm-up draws have negative ones.
Position(v) == [d \in 1 .. Dims |-> Frac(v + d - 1, 1)]
LogDensity(m, i) == Frac(100 * m + i, 1)

NewStore(save_warmup) ==
  [save_warmup |-> save_warmup, stepsize |-> Zero, diag_inv_mass |-> <<>>,
   draws |-> <<>>, lps |-> <<>>,
   warmup_draws |-> <<>>, warmup_lps |-> <<>>,
   warmup_stepsizes |-> <<>>, warmup_diag_inv_masses |-> <<>>]

\* The accessors of warm-up draws return the draws of sampling (WarmupWritten).
WarmupDraws(h)    == h.draws
WarmupLogProbs(h) == h.lps

NoFile == [content |-> "none", words |-> <<>>]

StoreInit ==
  /\ handlers \in [Chains -> {NewStore(save) : save \in BOOLEAN}]
  /\ r_hats = <<>>
  /\ warmups = [m \in Chains |-> 0] /\ made = warmups /\ complete = {}
  /\ trace \in Traces
  /\ file = NoFile

\* Step size and mass of chain m after n warm-up draws.
StepSize(m, n) == Frac(n + 1, m)
InvMass(m, n)  == [d \in 1 .. Dims |-> Frac(n + d, m + 1)]

OnWarmup(m) ==
  /\ complete = {} /\ warmups[m] < MaxWarmup
  /\ LET n == warmups[m] + 1
     IN  handlers' = IF ~handlers[m].save_warmup THEN handlers ELSE
           [handlers EXCEPT
              ![m].warmup_draws = Append(@, Position(-n)),
              ![m].warmup_lps = Append(@, Negative(LogDensity(m, n))),
              ![m].warmup_stepsizes = Append(@, StepSize(m, n)),
              ![m].warmup_diag_inv_masses = Append(@, InvMass(m, n))]
  /\ warmups' = [warmups EXCEPT ![m] = @ + 1]
  /\ file' = NoFile /\ UNCHANGED <<r_hats, made, complete, trace>>

\* The samplers are built one after the other, once no chain warms up.
OnWarmupComplete(m) ==
  /\ complete = 1 .. m - 1
  /\ handlers' = [handlers EXCEPT ![m].stepsize = StepSize(m, warmups[m]),
                                  ![m].diag_inv_mass = InvMass(m, warmups[m])]
  /\ complete' = complete \cup {m}
  /\ file' = NoFile /\ UNCHANGED <<r_hats, warmups, made, trace>>

OnSample(m) ==
  LET i == made[m] + 1
  IN  /\ complete = Chains /\ i \in DOMAIN trace[m]
      /\ handlers' = [handlers EXCEPT ![m].draws = Append(@, Position(trace[m][i])),
                                      ![m].lps = Append(@, LogDensity(m, i))]
      /\ made' = [made EXCEPT ![m] = i]
      /\ file' = NoFile /\ UNCHANGED <<r_hats, warmups, complete, trace>>

OnRHat ==
  /\ complete = Chains /\ r_hats = <<>>
  /\ r_hats' = Append(r_hats, One)
  /\ file' = NoFile /\ UNCHANGED <<handlers, warmups, made, complete, trace>>

-------------------------------------------------------------------------------
\* write_binary() and write_vector().
Uint(n)     == <<<<"uint64", n>>>>
Real(x)     == <<<<"double", x>>>>
Vector(v)   == [d \in DOMAIN v |-> <<"double", v[d]>>]

\* The words one chain after the other contributes.
PerChain(Words(_)) == FlattenSeq([m \in Chains |-> Words(handlers[m])])

StepSizeWords == Uint(NumChains) \o PerChain(LAMBDA h : Real(h.stepsize))

\* The dimensions are those of the first chain.
MassWords ==
  LET dims == Len(handlers[1].diag_inv_mass)
  IN  IF dims = 0 THEN <<>>
      ELSE Uint(NumChains) \o Uint(dims) \o PerChain(LAMBDA h : Vector(h.diag_inv_mass))

\* mutant: the log density follows the values
DrawWordsLpLast(is_sampling, draws, lps, i) ==
  Uint(IF is_sampling THEN 1 ELSE 0) \o Vector(draws[i]) \o Real(lps[i])

DrawWords(is_sampling, draws, lps, i) ==
  Uint(IF is_sampling THEN 1 ELSE 0) \o Real(lps[i]) \o Vector(draws[i])

write_draws(is_sampling, draws, lps) ==
  Uint(Len(draws)) \o
  FlattenSeq([i \in DOMAIN draws |-> DrawWords(is_sampling, draws, lps, i)])

\* The dimensions are those of the first draw of any chain; without a draw
\* nothing is written.
SampleWords(include_warmup) ==
  LET drawn == {m \in Chains : handlers[m].draws # <<>> \/ WarmupDraws(handlers[m]) # <<>>}
  IN  IF drawn = {} THEN <<>>
      ELSE Uint(NumChains) \o Uint(Dims)
           \o (IF include_warmup
                 THEN PerChain(LAMBDA h : write_draws(FALSE, WarmupDraws(h), WarmupLogProbs(h)))
                 ELSE <<>>)
           \o PerChain(LAMBDA h : write_draws(TRUE, h.draws, h.lps))

\* A file that cannot be opened leaves nothing behind but an exception.
Write(content, words) ==
  /\ \E opened \in BOOLEAN :
       file' = IF Open([open |-> opened]) THEN [content |-> content, words |-> words]
                                          ELSE [NoFile EXCEPT !.content = "refused"]
  /\ UNCHANGED <<handlers, r_hats, warmups, made, complete, trace>>

WriteStepSize   == Write("step_size", StepSizeWords)
WriteMassMatrix == Write("mass_matrix", MassWords)
WriteSample     == \E include_warmup \in BOOLEAN :
  Write(IF include_warmup THEN "warmup_and_sample" ELSE "sample", SampleWords(include_warmup))

StoreNext ==
  \/ \E m \in Chains : OnWarmup(m) \/ OnWarmupComplete(m) \/ OnSample(m)
  \/ OnRHat
  \/ WriteStepSize \/ WriteMassMatrix \/ WriteSample

-------------------------------------------------------------------------------
(***************************************************************************)
(* A reader that knows only the format's description.                      *)
(***************************************************************************)
IsWord(words, k, type) == k \in DOMAIN words /\ words[k][1] = type

RealsAt(words, first, n) ==
  [i \in 1 .. n |-> IF IsWord(words, first + i - 1, "double") THEN words[first + i - 1][2] ELSE NaN]

\* Where section s begins, each section being a count and as many draws.
SectionStart(words, s) ==
  LET dims == words[2][2]
      start[k \in 1 .. s] ==
        IF k = 1 THEN 3 ELSE start[k - 1] + 1 + words[start[k - 1]][2] * (2 + dims)
  IN  start[s]

Section(words, s) ==
  LET dims  == words[2][2]
      start == SectionStart(words, s)
  IN  [i \in 1 .. words[start][2] |->
        LET k == start + 1 + (i - 1) * (2 + dims)
        IN  [is_sampling |-> words[k][2], lp |-> RealsAt(words, k + 1, 1)[1],
             draw |-> RealsAt(words, k + 2, dims)]]

Made(m, flag) ==
  [i \in 1 .. made[m] |->
     [is_sampling |-> flag, lp |-> LogDensity(m, i), draw |-> Position(trace[m][i])]]

\* The warm-up draws chain m's handler was told to keep.
SavedWarmup(m) ==
  IF ~handlers[m].save_warmup THEN <<>> ELSE
    [i \in 1 .. warmups[m] |->
       [is_sampling |-> 0, lp |-> Negative(LogDensity(m, i)), draw |-> Position(-i)]]

\* handlers.hpp:257-378: every draw made is read back for its chain, in order,
\* with its own log density and flagged as one of sampling, whichever chains have
\* none and however many entries the warm-up sections before it hold, none of
\* which is so flagged, and the words end there; step sizes and masses are the
\* adapted ones.  What the warm-up sections hold is WarmupWritten's matter.
RoundTrip ==
  LET w == file.words
  IN  CASE file.content \in {"sample", "warmup_and_sample"} /\ w # <<>> ->
             LET first == IF file.content = "sample" THEN 0 ELSE NumChains
             IN  /\ w[1][2] = NumChains /\ w[2][2] = Dims
                 /\ \A m \in Chains : Section(w, first + m) = Made(m, 1)
                 /\ \A s \in 1 .. first : \A i \in DOMAIN Section(w, s) :
                      Section(w, s)[i].is_sampling = 0
                 /\ SectionStart(w, first + NumChains)
                      + made[NumChains] * (2 + Dims) = Len(w)
        [] file.content = "sample" /\ w = <<>> -> \A m \in Chains : made[m] = 0
        [] file.content = "step_size" /\ complete = Chains ->
             RealsAt(w, 2, w[1][2]) = [m \in Chains |-> StepSize(m, warmups[m])]
        [] file.content = "mass_matrix" /\ complete = Chains ->
             \A m \in Chains : RealsAt(w, 3 + (m - 1) * w[2][2], w[2][2]) = InvMass(m, warmups[m])
        [] OTHER -> TRUE

\* handlers.hpp:341-342, "it then writes the warmup draws for each chain in
\* order": a chain's warm-up section holds the warm-up draws it saved.
WarmupWritten ==
  file.content = "warmup_and_sample" /\ file.words # <<>> =>
    \A m \in Chains : Section(file.words, m) = SavedWarmup(m)
===============================================================================
