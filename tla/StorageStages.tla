---------------------------- MODULE StorageStages ----------------------------
(***************************************************************************)
(* The stages of a store (storage/ladder.py, store_stage): the fill        *)
(* percentage sets a stage at once on the way up, and a store descends     *)
(* from a stage only when its fill is Hysteresis below that stage's level. *)
(***************************************************************************)
EXTENDS Integers

CONSTANTS Watch, Tighten, Demand, Final,   \* Levels, in percent
          Hysteresis                        \* HYSTERESIS_PCT

ASSUME LevelsAssumption ==
  /\ Watch \in Nat /\ Tighten \in Nat /\ Demand \in Nat /\ Final \in Nat
  /\ Hysteresis \in Nat
  /\ Watch < Tighten /\ Tighten < Demand /\ Demand < Final

OKAY == 0
WATCH == 1
TIGHTEN == 2
DEMAND == 3
FINAL == 4
Stages == OKAY .. FINAL

LevelOf(s) == CASE s = WATCH -> Watch [] s = TIGHTEN -> Tighten
                [] s = DEMAND -> Demand [] OTHER -> Final

\* The stage the fill alone sets; `soon` is a projected time to full under
\* the horizon, which raises a quiet store to WATCH.
RawStage(pct, soon) ==
  CASE pct >= Final -> FINAL
    [] pct >= Demand /\ pct < Final -> DEMAND
    [] pct >= Tighten /\ pct < Demand -> TIGHTEN
    [] pct >= Watch /\ pct < Tighten -> WATCH
    [] OTHER -> IF soon THEN WATCH ELSE OKAY

\* Mutant: a stage ends where it began.
ClingsNot(pct, s) == pct >= LevelOf(s)

\* Stage s still holds a store that was at s or above.
Clings(pct, s) == pct >= LevelOf(s) - Hysteresis

StoreStage(pct, soon, previous) ==
  LET raw == RawStage(pct, soon)
      held == {s \in Stages : raw < s /\ s <= previous /\ Clings(pct, s)}
  IN IF held = {} THEN raw
     ELSE CHOOSE s \in held : \A other \in held : other <= s
=============================================================================
