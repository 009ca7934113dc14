----------------------------- MODULE VoiceListen -----------------------------
(***************************************************************************)
(* One listening session of the voice assistant (startVoiceListen of       *)
(* src/lib/voice.ts): the browser's recognizer reports transcripts, errors *)
(* and its end; timers and the caller's stop race with them, and the       *)
(* caller is told the command that was heard.                              *)
(*                                                                         *)
(* A transcript is what parsing makes of it: the amount and recipient it   *)
(* names, one value of Commands, or None when one of them is missing;      *)
(* whether its shape is good enough; whether the engine calls it final;    *)
(* and whether it is in another script than the engine's.  The recognizer  *)
(* is not continuous: a final transcript is the last one until it is       *)
(* started again, and it may still report when it was told to stop.        *)
(***************************************************************************)
EXTENDS Integers

CONSTANTS Commands, None

VARIABLES
  engine,    \* external: the browser's recognizer
  stopped, finalized,
  heard,     \* lastHeard
  stableKey, \* lastStableKey
  set,       \* the timers that are set
  due,       \* the transcript stableTimer was set for
  switched, restarted, \* switchedLang, endRestarts
  closed,    \* history: the caller has stopped the session
  told       \* history: how many commands were told, and if they were right

vars == <<engine, stopped, finalized, heard, stableKey, set, due, switched, restarted,
          closed, told>>

Transcript == [command : Commands \union {None}, shaped : BOOLEAN, final : BOOLEAN,
               foreign : BOOLEAN]

ConstantTypes == None \notin Commands \union Transcript

TypeOK ==
  /\ engine \in {"off", "on", "stopping", "done"}
  /\ {stopped, finalized, switched, restarted, closed} \subseteq BOOLEAN
  /\ heard \in Transcript \union {None} /\ due \in Transcript \union {None}
  /\ stableKey \in Commands \union {None}
  /\ set \subseteq {"stable", "commit", "silence", "hard", "switch"}
  /\ told \in [finals : 0..2, right : BOOLEAN]

(* The recognizer starts, or throws.                                       *)
Init ==
  /\ engine \in {"on", "off"}
  /\ set = IF engine = "on" THEN {"hard"} ELSE {}
  /\ stopped = FALSE /\ finalized = FALSE
  /\ heard = None /\ stableKey = None /\ due = None
  /\ switched = FALSE /\ restarted = FALSE /\ closed = FALSE
  /\ told = [finals |-> 0, right |-> TRUE]

parsing == <<heard, stableKey, due, switched>>

(* Mutant of Over: the caller's stop is not looked at.                     *)
OverWhenTold == finalized

Over == finalized \/ stopped

StopEngine == engine' = IF engine = "on" THEN "stopping" ELSE engine

(* finish: once, and not after a stop.                                     *)
Finish(t) ==
  IF Over THEN UNCHANGED <<stopped, finalized, told>>
  ELSE /\ finalized' = TRUE /\ stopped' = TRUE
       /\ told' = [finals |-> told.finals + 1,
                   right |-> told.right /\ t = heard /\ ~closed]

(* The timers that are left once one of them has fired, or the end came.   *)
Left(fired) == set' = IF finalized' THEN set \intersect {"switch"} ELSE set \ fired

Quiet == UNCHANGED <<stopped, finalized, told>>

-----------------------------------------------------------------------------
(* onresult.  Another script switches the engine once; a command is told   *)
(* when it was heard for a while, or at once if the engine calls it final. *)
Switches(t) == ~switched /\ ~t.final /\ t.foreign
Commits(t) == t.command # None /\ t.final /\ t.shaped
Awaits(t) == t.command \notin {None, stableKey}

Result(t) ==
  /\ engine \in {"on", "stopping"} /\ ~finalized
  /\ heard' = t
  /\ engine' = CASE t.final -> "done" [] Switches(t) -> "stopping" [] OTHER -> engine
  /\ IF Switches(t)
     THEN /\ switched' = TRUE /\ set' = set \union {"switch"}
          /\ UNCHANGED <<stableKey, due>>
     ELSE /\ set' = (IF Commits(t) THEN (set \ {"stable"}) \union {"commit"}
                     ELSE IF Awaits(t) THEN (set \ {"commit"}) \union {"stable"}
                     ELSE set)
                      \union (IF t.command # None \/ t.final THEN {"silence"} ELSE {})
          /\ due' = IF Commits(t) \/ Awaits(t) THEN t ELSE due
          /\ stableKey' = IF t.command = None THEN stableKey ELSE t.command
          /\ UNCHANGED switched
  /\ Quiet /\ UNCHANGED <<restarted, closed>>

(* A timer fires: stableTimer, if that is still what was heard last;       *)
(* silenceTimer, if it is good enough; hardTimer, with whatever was heard. *)
Fires(timer) ==
  /\ timer \in set
  /\ CASE timer = "commit" -> Finish(due)
       [] timer = "stable" /\ heard.command = due.command -> Finish(heard)
       [] timer = "silence" /\ heard.command # None /\ heard.shaped -> Finish(heard)
       [] timer = "hard" /\ heard # None -> Finish(heard)
       [] OTHER -> Quiet
  /\ IF finalized' \/ timer = "hard" THEN StopEngine ELSE UNCHANGED engine
  /\ Left({timer})
  /\ UNCHANGED <<parsing, restarted, closed>>

(* The engine is started again in the other language.                      *)
SwitchFires ==
  /\ "switch" \in set
  /\ engine' = IF ~Over /\ engine = "off" THEN "on" ELSE engine
  /\ set' = set \ {"switch"}
  /\ Quiet /\ UNCHANGED <<parsing, restarted, closed>>

-----------------------------------------------------------------------------
(* onerror: silence after something was heard ends the session with it.    *)
EngineErrs(silent) ==
  /\ engine # "off" /\ ~finalized
  /\ IF silent /\ heard # None THEN Finish(heard) /\ StopEngine
     ELSE Quiet /\ UNCHANGED engine
  /\ set' = set \intersect {"switch"}
  /\ UNCHANGED <<parsing, restarted, closed>>

(* onend: tell what was heard, after one more try if it is no command yet. *)
EngineEnds(starts) ==
  LET again == ~Over /\ heard # None /\ heard.command = None /\ ~restarted
  IN  /\ engine # "off"
      /\ restarted' = (restarted \/ again)
      /\ engine' = IF again /\ starts THEN "on" ELSE "off"
      /\ IF heard = None \/ (again /\ starts) THEN Quiet ELSE Finish(heard)
      /\ Left({})
      /\ UNCHANGED <<parsing, closed>>

Stop ==
  /\ ~closed /\ closed' = TRUE
  /\ stopped' = TRUE
  /\ StopEngine
  /\ set' = set \intersect {"switch"}
  /\ UNCHANGED <<finalized, told, parsing, restarted>>

-----------------------------------------------------------------------------
Next ==
  \/ \E t \in Transcript : Result(t)
  \/ \E timer \in {"stable", "commit", "silence", "hard"} : Fires(timer)
  \/ SwitchFires
  \/ \E silent \in BOOLEAN : EngineErrs(silent)
  \/ \E starts \in BOOLEAN : EngineEnds(starts)
  \/ Stop

Spec == Init /\ [][Next]_vars

-----------------------------------------------------------------------------
(* A session tells at most one command, none once it was stopped, and what *)
(* it tells is what was heard last, whichever timer, error or end comes    *)
(* first (finish, scheduleStableCommit, onend).                            *)
OneRightCommand == told.finals <= 1 /\ told.right
=============================================================================
