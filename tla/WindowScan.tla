----------------------------- MODULE WindowScan -----------------------------
(***************************************************************************)
(* The parallel window scan of the SAX front ends (multi_search.go, with   *)
(* the single-channel scans of bitmap_parallel.go and saxutil.Lead_lag as  *)
(* the case of one channel).  The main goroutine slides a lag and a lead   *)
(* window over the words.  For each position it starts one goroutine per   *)
(* analysis, which reads two count maps, computes a distance and sends it  *)
(* on the unbuffered channel of the analysis; then it collects as many     *)
(* results from every channel as there were positions.                     *)
(*                                                                         *)
(* A distance is a function of the two maps it is computed from, so the    *)
(* model keeps the pair of maps as the result.                             *)
(***************************************************************************)
EXTENDS Subwords

CONSTANTS Inputs,   \* series of words to scan
          Lag,      \* words in the lag window
          Lead,     \* words in the lead window
          Profiles, \* analyses of the lead window against a fixed profile
          Fixed     \* Fixed[c]: the counts of a fixed analysis c

LagLead == "lag_lead"                \* the analysis that compares the two windows
Chans   == Profiles \cup {"base", LagLead}

(* Gen_words makes no word longer than the one before it.                  *)
ASSUME WindowConstants ==
    /\ Lag \in Nat /\ Lead \in Nat \ {0}
    /\ {"base", LagLead} \cap Profiles = {}
    /\ Fixed \in [Chans \ {LagLead} -> [Subs -> Int]]
    /\ Inputs \subseteq Seq(Seq(Alphabet))
    /\ \A w \in Inputs : /\ Len(w) >= Lag + Lead
                         /\ \A j, k \in 1 .. Len(w) : j <= k => Len(w[k]) <= Len(w[j])

VARIABLES words,   \* the series; never changes
          pc,      \* the main goroutine: "spawn", "collect", "done"
          lagStart,\* windows started so far, the position of the next one
          lagCt,   \* lag_subct: the maps of the lag window, one per position
          leadCt,  \* lead_subct: the maps of the lead window
          state,   \* state[c][k]: goroutine k of channel c
          result,  \* result[c][k]: what it will send
          got,     \* results collected in full rounds
          left,    \* channels still to receive from in this round
          dist     \* dist[c]: the distances stored, by position

vars == <<words, pc, lagStart, lagCt, leadCt, state, result, got, left, dist>>

N         == Len(words)
leadStart == lagStart + Lag
leadEnd   == lagStart + Lag + Lead

(* The windows there are positions for, counted from 1. *)
Windows == 1 .. N - Lag - Lead + 1

(* Slices are indexed from 0. *)
Word(k) == words[k + 1]
Slice   == [k \in 0 .. N - 1 |-> Word(k)]

Init == /\ words \in Inputs
        /\ pc = "spawn"
        /\ lagStart = 0
        /\ lagCt  = <<CountSubwords(Slice, 0, Lag)>>
        /\ leadCt = <<CountSubwords(Slice, Lag, Lag + Lead)>>
        /\ state  = [c \in Chans |-> <<>>]
        /\ result = [c \in Chans |-> <<>>]
        /\ got = 0 /\ left = Chans
        /\ dist = [c \in Chans |-> {}]

\* Mutant: the lag map is adjusted in place, as the commented lines of
\* Adj_count do, and the next position shares it.
SpawnInPlace ==
    /\ pc = "spawn" /\ leadEnd <= N
    /\ state' = [c \in Chans |-> Append(state[c], "started")]
    /\ result' = [c \in Chans |-> Append(result[c], <<>>)]
    /\ LET next == AdjCount(lagCt[lagStart + 1], Word(lagStart), Word(leadStart))
       IN  lagCt' = Append([lagCt EXCEPT ![lagStart + 1] = next], next)
    /\ leadCt' = IF leadEnd < N
                 THEN Append(leadCt, AdjCount(leadCt[lagStart + 1], Word(leadStart), Word(leadEnd)))
                 ELSE leadCt
    /\ lagStart' = lagStart + 1
    /\ UNCHANGED <<words, pc, got, left, dist>>

(* One pass of the first loop: start the goroutines of this position, and  *)
(* derive the maps of the next one.                                        *)
Spawn ==
    /\ pc = "spawn" /\ leadEnd <= N
    /\ state' = [c \in Chans |-> Append(state[c], "started")]
    /\ result' = [c \in Chans |-> Append(result[c], <<>>)]
    /\ lagCt' = Append(lagCt, AdjCount(lagCt[lagStart + 1], Word(lagStart), Word(leadStart)))
    /\ leadCt' = IF leadEnd < N
                 THEN Append(leadCt, AdjCount(leadCt[lagStart + 1], Word(leadStart), Word(leadEnd)))
                 ELSE leadCt
    /\ lagStart' = lagStart + 1
    /\ UNCHANGED <<words, pc, got, left, dist>>

SpawnEnds == /\ pc = "spawn" /\ leadEnd > N
             /\ pc' = "collect"
             /\ UNCHANGED <<words, lagStart, lagCt, leadCt, state, result, got, left, dist>>

(* The two maps that are compared for a position. *)
Compared(c, k) == <<IF c = LagLead THEN lagCt[k] ELSE Fixed[c], leadCt[k]>>

(* proc_window: a goroutine reads its two maps when it gets to run, and    *)
(* blocks on its channel with the outcome.                                 *)
Compute(c, k) ==
    /\ state[c][k] = "started"
    /\ state' = [state EXCEPT ![c][k] = "sending"]
    /\ result' = [result EXCEPT ![c][k] = Compared(c, k)]
    /\ UNCHANGED <<words, pc, lagStart, lagCt, leadCt, got, left, dist>>

(* A round receives from the baseline, then from lag/lead, then from the   *)
(* profiles in any order.                                                  *)
MayReceive(c) == /\ c \in left
                 /\ c = LagLead => "base" \notin left
                 /\ c \in Profiles => left \subseteq Profiles

\* Mutant: one round too many.
AllCollectedLate(rounds) == rounds > lagStart

(* The second loop makes as many rounds as the first one made passes. *)
AllCollected(rounds) == rounds = lagStart

(* One receive of the second loop, from whichever sender of the channel    *)
(* the scheduler pairs it with.                                            *)
Receive(c, k) ==
    /\ pc = "collect" /\ MayReceive(c)
    /\ state[c][k] = "sending"
    /\ state' = [state EXCEPT ![c][k] = "gone"]
    /\ dist' = [dist EXCEPT ![c] = @ \cup {<<k, result[c][k]>>}]
    /\ IF left = {c}
       THEN /\ left' = Chans
            /\ got' = got + 1
            /\ pc' = IF AllCollected(got + 1) THEN "done" ELSE "collect"
       ELSE /\ left' = left \ {c}
            /\ UNCHANGED <<got, pc>>
    /\ UNCHANGED <<words, lagStart, lagCt, leadCt, result>>

Goroutine == \E c \in Chans : \E k \in DOMAIN state[c] : Compute(c, k)
Collect   == \E c \in Chans : \E k \in DOMAIN state[c] : Receive(c, k)

Next == Spawn \/ SpawnEnds \/ Goroutine \/ Collect

Spec == Init /\ [][Next]_vars

(* The runtime runs every goroutine that can run. *)
FairSpec == Spec /\ WF_vars(Spawn \/ SpawnEnds) /\ WF_vars(Goroutine) /\ WF_vars(Collect)

----------------------------------------------------------------------------
Map == [Subs -> Int]

(* The types of the state. *)
TypeOK == /\ words \in Inputs
          /\ pc \in {"spawn", "collect", "done"}
          /\ lagStart \in Nat /\ got \in Nat
          /\ lagCt \in Seq(Map) /\ leadCt \in Seq(Map)
          /\ state \in [Chans -> Seq({"started", "sending", "gone"})]
          /\ result \in [Chans -> Seq({<<>>} \cup (Map \X Map))]
          /\ left \subseteq Chans
          /\ dist \in [Chans -> SUBSET (Nat \X (Map \X Map))]

(* The maps are those of the sequential scan of bitmap_window.go, which    *)
(* has one map per window and adjusts it from position to position.        *)
SequentialMaps ==
    /\ lagCt[1] = CountSubwords(Slice, 0, Lag)
    /\ leadCt[1] = CountSubwords(Slice, Lag, Lag + Lead)
    /\ \A k \in 1 .. Len(lagCt) - 1 :
          lagCt[k + 1] = AdjCount(lagCt[k], Word(k - 1), Word(k - 1 + Lag))
    /\ \A k \in 1 .. Len(leadCt) - 1 :
          leadCt[k + 1] = AdjCount(leadCt[k], Word(k - 1 + Lag), Word(k - 1 + Lag + Lead))

(* multi_search.go:170-243: whatever the scheduler does, the distances are *)
(* those of the sequential scan: none is missing, doubled, or computed     *)
(* from maps that moved on.                                                *)
SameAsSequential ==
    pc = "done" => /\ SequentialMaps
                   /\ \A c \in Chans : dist[c] = {<<k, Compared(c, k)>> : k \in Windows}

(* saxutil.go:275: no subword is counted less often than it occurs in the  *)
(* window of a distance that is stored, and none more often as long as no  *)
(* word that entered a window was shorter than the first one.              *)
DistancesMatchRecount ==
    pc = "done" =>
      \A c \in Chans : \A d \in dist[c] :
        LET k    == d[1] - 1
            lag  == CountSubwords(Slice, k, k + Lag)
            lead == CountSubwords(Slice, k + Lag, k + Lag + Lead)
        IN  /\ \A s \in Subs : d[2][2][s] >= lead[s] /\ (c = LagLead => d[2][1][s] >= lag[s])
            /\ Len(Word(k + Lag + Lead - 1)) = Len(Word(0)) =>
                  d[2][2] = lead /\ (c = LagLead => d[2][1] = lag)

(* saxutil.go:272, "I can use this code instead of recounting everything": *)
(* the adjusted counts of every window that is stored are a recount.       *)
AdjustedIsRecounted ==
    \A c \in Chans : \A d \in dist[c] :
        d[2][2] = CountSubwords(Slice, d[1] - 1 + Lag, d[1] - 1 + Lag + Lead)

(* multi_search.go:219: a round never waits for a result of a channel that *)
(* no goroutine is left to send on.                                        *)
SendersRemain ==
    pc = "collect" => \E c \in Chans : /\ MayReceive(c)
                                      /\ \E k \in DOMAIN state[c] : state[c][k] # "gone"
============================================================================
