---------------------------- MODULE SessionProofs ----------------------------
(***************************************************************************)
(* What comes before a session and who opens one: bring-up leaves the      *)
(* applications what they need, on every board; the gates count their      *)
(* attempts and open for those enrolled, at the direct call, at the        *)
(* prompts, from the file of the ring-3 program and on the pad of the lock *)
(* screen, for every registry, password, key and limit.                    *)
(***************************************************************************)
EXTENDS Session, BringUp, WellFoundedInduction, TLAPS

-----------------------------------------------------------------------------
(* Bring-up                                                                *)

\* What is up by the time kernel_entry is at a phase.
UpBy ==
  /\ phase \in {"mount", "mmu", "virtio", "ring3", "apps", "storage", "complete"} => "rng" \in booted
  /\ phase \in {"ring3", "apps"} => "mmu" \in booted
  /\ phase = "apps" => {"irq", "table"} \subseteq booted
  /\ ran # <<>> => {"rng", "mmu", "irq", "table"} \subseteq booted

Outcome == [app : {"hello", "hello-rs", "create", "login", "shell", "none"}, code : {0, 1, 7, -1}]

\* What was run is the script, but for shells whose login was not granted.
RanByScript ==
  /\ ran \in Seq(Outcome) /\ Len(ran) <= Len(Script)
  /\ \A i \in 1 .. Len(ran) :
       \/ ran[i].app = Script[i] /\ (Script[i] = "shell" => i > 1 /\ ran[i - 1].code = 0)
       \/ ran[i] = [app |-> "none", code |-> -1]

BringInv == UpBy /\ RanByScript

\* In every build a shell comes right after a login.
ShellsFollowLogins(s) ==
  /\ s \in Seq({"hello", "hello-rs", "create", "login", "shell"})
  /\ \A i \in 1 .. Len(s) : s[i] = "shell" => i > 1 /\ s[i - 1] = "login"

(* One list of applications after another, neither breaking a pair.        *)
LEMMA ScriptsJoin ==
  ASSUME NEW s, NEW t, ShellsFollowLogins(s), ShellsFollowLogins(t)
  PROVE  ShellsFollowLogins(s \o t)
<1> DEFINE N == {"hello", "hello-rs", "create", "login", "shell"}
<1>1. s \in Seq(N) /\ t \in Seq(N)
  BY Zenon DEF ShellsFollowLogins
<1> HIDE DEF N
<1>2. /\ s \o t \in Seq(N) /\ Len(s \o t) = Len(s) + Len(t)
      /\ \A i \in 1 .. Len(s) + Len(t) : (s \o t)[i] = IF i <= Len(s) THEN s[i] ELSE t[i - Len(s)]
      /\ Len(s) \in Nat /\ Len(t) \in Nat
  BY <1>1
<1>3. ASSUME NEW i \in 1 .. Len(s) + Len(t), (s \o t)[i] = "shell"
      PROVE  i > 1 /\ (s \o t)[i - 1] = "login"
  <2>1. CASE i <= Len(s)
    <3>1. i > 1 /\ s[i - 1] = "login"
      BY <1>2, <1>3, <2>1 DEF ShellsFollowLogins
    <3> QED
      BY <1>2, <2>1, <3>1
  <2>2. CASE i > Len(s)
    <3>1. i - Len(s) \in 1 .. Len(t) /\ t[i - Len(s)] = "shell"
      BY <1>2, <1>3, <2>2
    <3>2. i - Len(s) > 1 /\ t[(i - Len(s)) - 1] = "login"
      BY <3>1, Zenon DEF ShellsFollowLogins
    <3>3. i - 1 \in 1 .. Len(s) + Len(t) /\ ~(i - 1 <= Len(s)) /\ (i - 1) - Len(s) = (i - Len(s)) - 1
      BY <1>2, <2>2, <3>2
    <3> QED
      BY <1>2, <3>2, <3>3
  <2> QED
    BY <1>2, <2>1, <2>2
<1> QED
  BY <1>2, <1>3, Zenon DEF ShellsFollowLogins, N

LEMMA ScriptSound == ShellsFollowLogins(Script)
<1>1. ShellsFollowLogins(<<"hello">>) /\ ShellsFollowLogins(<<"hello-rs">>) /\ ShellsFollowLogins(<<>>)
  BY DEF ShellsFollowLogins
<1>2. ShellsFollowLogins(<<"login", "shell">>)
  BY DEF ShellsFollowLogins
<1>3. ShellsFollowLogins(<<"create", "login">> \o <<"shell">>)
  BY DEF ShellsFollowLogins
<1>4. ShellsFollowLogins(<<"create", "login">> \o <<>>)
  BY DEF ShellsFollowLogins
<1> DEFINE A == IF "app-hello" \in board.features THEN <<"hello-rs">> ELSE <<>>
           B == IF {"selftest", "app-login"} \subseteq board.features
                THEN <<"create", "login">> \o IF "app-shell" \in board.features THEN <<"shell">> ELSE <<>>
                ELSE <<>>
           C == IF "interactive" \in board.features THEN <<"login", "shell">> ELSE <<>>
<1>5. ShellsFollowLogins(A) /\ ShellsFollowLogins(B) /\ ShellsFollowLogins(C)
  BY <1>1, <1>2, <1>3, <1>4, Zenon
<1>6. Script = ((<<"hello">> \o A) \o B) \o C
  BY Zenon DEF Script
<1> HIDE DEF A, B, C
<1> QED
  BY <1>1, <1>5, <1>6, ScriptsJoin, Zenon

LEMMA BringInitially == BringInit => BringInv
<1> SUFFICES ASSUME BringInit PROVE BringInv
  OBVIOUS
<1>1. phase = "discover" /\ ran = <<>>
  BY Zenon DEF BringInit
<1>2. Script \in Seq({"hello", "hello-rs", "create", "login", "shell"})
  BY ScriptSound, Zenon DEF ShellsFollowLogins
<1>3. <<>> \in Seq(Outcome) /\ Len(<<>>) = 0 /\ Len(Script) \in Nat
  BY <1>2
<1> QED
  BY <1>1, <1>3 DEF BringInv, UpBy, RanByScript

(* A step that runs nothing keeps what was run.                            *)
LEMMA NothingRun ==
  ASSUME RanByScript, UNCHANGED <<board, ran>>
  PROVE  RanByScript'
<1>1. Script' = Script
  BY Zenon DEF Script
<1> QED
  BY <1>1, Zenon DEF RanByScript

LEMMA AppRun ==
  ASSUME RanByScript, run_app_image_isolated
  PROVE  RanByScript'
<1> DEFINE i == Len(ran) + 1
<1>1. Script' = Script
  BY Zenon DEF run_app_image_isolated, Script
<1>2. /\ Script \in Seq({"hello", "hello-rs", "create", "login", "shell"})
      /\ \A j \in 1 .. Len(Script) : Script[j] = "shell" => j > 1
  BY ScriptSound, Zenon DEF ShellsFollowLogins
<1>3. ran \in Seq(Outcome) /\ Len(ran) < Len(Script) /\ Len(ran) \in Nat /\ Len(Script) \in Nat
  BY <1>2 DEF run_app_image_isolated, RanByScript
<1>4. i \in 1 .. Len(Script) /\ Script[i] \in {"hello", "hello-rs", "create", "login", "shell"}
  BY <1>2, <1>3
<1>5. \E o \in Outcome :
        /\ ran' = Append(ran, o)
        /\ \/ o.app = Script[i] /\ (Script[i] = "shell" => i > 1 /\ ran[i - 1].code = 0)
           \/ o = [app |-> "none", code |-> -1]
  <2>1. CASE ~Skipped(i) /\ \E code \in {0, 1, 7, -1} : ran' = Append(ran, [app |-> Script[i], code |-> code])
    <3>1. PICK code \in {0, 1, 7, -1} : ran' = Append(ran, [app |-> Script[i], code |-> code])
      BY <2>1, Zenon
    <3>2. [app |-> Script[i], code |-> code] \in Outcome
      BY <1>4, Zenon DEF Outcome
    <3>3. Script[i] = "shell" => i > 1 /\ ran[i - 1].code = 0
      BY <1>2, <1>4, <2>1, Zenon DEF Skipped
    <3> QED
      BY <3>1, <3>2, <3>3, Zenon
  <2>2. CASE Skipped(i) /\ ran' = Append(ran, [app |-> "none", code |-> -1])
    BY <2>2, Zenon DEF Outcome
  <2> QED
    BY <2>1, <2>2, Zenon DEF run_app_image_isolated
<1>6. PICK o \in Outcome :
        /\ ran' = Append(ran, o)
        /\ \/ o.app = Script[i] /\ (Script[i] = "shell" => i > 1 /\ ran[i - 1].code = 0)
           \/ o = [app |-> "none", code |-> -1]
  BY <1>5, Zenon
<1>7. /\ ran' \in Seq(Outcome) /\ Len(ran') = Len(ran) + 1 /\ ran'[i] = o
      /\ \A j \in 1 .. Len(ran) : ran'[j] = ran[j]
  BY <1>3, <1>6
<1>8. ASSUME NEW j \in 1 .. Len(ran')
      PROVE  \/ ran'[j].app = Script[j] /\ (Script[j] = "shell" => j > 1 /\ ran'[j - 1].code = 0)
             \/ ran'[j] = [app |-> "none", code |-> -1]
  <2>1. CASE j = i
    <3>1. i > 1 => ran'[i - 1] = ran[i - 1]
      BY <1>3, <1>7
    <3> QED
      BY <1>6, <1>7, <2>1, <3>1, Zenon
  <2>2. CASE j \in 1 .. Len(ran)
    <3>1. j > 1 => ran'[j - 1] = ran[j - 1]
      BY <1>3, <1>7, <2>2
    <3> QED
      BY <1>7, <2>2, <3>1, Zenon DEF RanByScript
  <2> QED
    BY <1>3, <1>7, <2>1, <2>2
<1>9. Len(ran') <= Len(Script')
  BY <1>1, <1>3, <1>7
<1>10. \A j \in 1 .. Len(ran') :
         \/ ran'[j].app = Script'[j] /\ (Script'[j] = "shell" => j > 1 /\ ran'[j - 1].code = 0)
         \/ ran'[j] = [app |-> "none", code |-> -1]
  BY <1>1, <1>8, Zenon
<1> HIDE DEF i
<1> QED
  BY <1>7, <1>9, <1>10, Zenon DEF RanByScript

(* Every phase of kernel_entry keeps the invariant.                        *)
LEMMA BringStep == BringInv /\ [BringNext]_bringVars => BringInv'
<1> SUFFICES ASSUME BringInv, [BringNext]_bringVars PROVE BringInv'
  OBVIOUS
<1>0. UpBy /\ RanByScript
  BY Zenon DEF BringInv
<1>1. CASE discover
  <2>1. UNCHANGED <<board, phase, ran, booted>>
    BY <1>1, Zenon DEF discover
  <2> QED
    BY <1>0, <2>1, NothingRun, Zenon DEF UpBy, BringInv
<1>2. CASE obtain_handoff
  <2>1. phase' \in {"halted", "entropy"} /\ UNCHANGED <<board, ran, booted>>
    BY <1>2, Zenon DEF obtain_handoff
  <2> QED
    BY <1>0, <2>1, NothingRun, Zenon DEF UpBy, BringInv
<1>3. CASE seed_entropy
  BY <1>0, <1>3, NothingRun, Zenon DEF seed_entropy, UpBy, BringInv
<1>4. CASE mount_root_fs
  <2>1. phase = "mount" /\ phase' = "mmu" /\ booted \subseteq booted' /\ UNCHANGED <<board, ran>>
    BY <1>4, Zenon DEF mount_root_fs
  <2> QED
    BY <1>0, <2>1, NothingRun, Zenon DEF UpBy, BringInv
<1>5. CASE bring_up_mmu
  <2>1. /\ phase = "mmu" /\ UNCHANGED <<board, ran>>
        /\ \/ booted' = booted \cup {"mmu"} /\ phase' \in {"ring3", "virtio"}
           \/ phase' = "storage" /\ booted' = booted
    BY <1>5, Zenon DEF bring_up_mmu
  <2> QED
    BY <1>0, <2>1, NothingRun, Zenon DEF UpBy, BringInv
<1>6. CASE verify_virtio_blk
  BY <1>0, <1>6, NothingRun, Zenon DEF verify_virtio_blk, UpBy, BringInv
<1>7. CASE start_ring3_runtime
  BY <1>0, <1>7, NothingRun, Zenon DEF start_ring3_runtime, UpBy, BringInv
<1>8. CASE run_app_image_isolated
  <2>1. phase = "apps" /\ UNCHANGED <<phase, booted>>
    BY <1>8, Zenon DEF run_app_image_isolated
  <2> QED
    BY <1>0, <1>8, <2>1, AppRun, Zenon DEF UpBy, BringInv
<1>9. CASE apps_done
  BY <1>0, <1>9, NothingRun, Zenon DEF apps_done, UpBy, BringInv
<1>10. CASE verify_storage
  <2>1. phase = "storage" /\ phase' = "complete" /\ booted \subseteq booted' /\ UNCHANGED <<board, ran>>
    BY <1>10, Zenon DEF verify_storage
  <2> QED
    BY <1>0, <2>1, NothingRun, Zenon DEF UpBy, BringInv
<1>11. CASE UNCHANGED bringVars
  BY <1>0, <1>11, NothingRun, Zenon DEF bringVars, UpBy, BringInv
<1> QED
  BY <1>1, <1>2, <1>3, <1>4, <1>5, <1>6, <1>7, <1>8, <1>9, <1>10, <1>11, Zenon DEF BringNext

(* On every board, with every set of features and whatever any program     *)
(* returns, no application runs before page tables, random numbers,        *)
(* interrupts and handles are up, and every shell follows a granted login  *)
(* (start_ring3_runtime, run_interactive_session).                         *)
THEOREM AppsRunReadyHolds == BringSpec => []AppsRunReady
<1>1. BringInv => AppsRunReady
  <2> SUFFICES ASSUME BringInv PROVE AppsRunReady
    OBVIOUS
  <2>1. ran # <<>> => {"rng", "mmu", "irq", "table"} \subseteq booted
    BY Zenon DEF BringInv, UpBy
  <2>2. ran \in Seq(Outcome) /\ Len(ran) <= Len(Script) /\ Len(ran) \in Nat
    BY DEF BringInv, RanByScript
  <2>3. ASSUME NEW i \in DOMAIN ran, ran[i].app = "shell"
        PROVE  i > 1 /\ ran[i - 1] = [app |-> "login", code |-> 0]
    <3>1. i \in 1 .. Len(ran) /\ ran[i] # [app |-> "none", code |-> -1]
      BY <2>2, <2>3
    <3>2. Script[i] = "shell" /\ i > 1 /\ ran[i - 1].code = 0
      BY <2>3, <3>1, Zenon DEF BringInv, RanByScript
    <3>3. Len(Script) \in Nat /\ Script[i - 1] = "login"
      BY <2>2, <3>1, <3>2, ScriptSound DEF ShellsFollowLogins
    <3>4. i - 1 \in 1 .. Len(ran) /\ ran[i - 1] \in Outcome
      BY <2>2, <3>1, <3>2
    <3>5. ran[i - 1] # [app |-> "none", code |-> -1]
      BY <3>2
    <3>6. ran[i - 1].app = "login"
      BY <3>3, <3>4, <3>5, Zenon DEF BringInv, RanByScript
    <3> QED
      BY <3>2, <3>4, <3>6, Zenon DEF Outcome
  <2> QED
    BY <2>1, <2>3, Zenon DEF AppsRunReady
<1> QED
  BY <1>1, BringInitially, BringStep, PTL DEF BringSpec

-----------------------------------------------------------------------------
(* The gates: attempts                                                     *)

GateFields == {"app", "at", "ps", "boundary", "limit", "left", "name", "entered", "result"}

GateTypes ==
  /\ DOMAIN gate = GateFields
  /\ gate.app \in {"none", "call", "login", "capp", "lock"}
  /\ gate.at \in {"done", "name", "password", "create", "Locked", "Wrong"}
  /\ gate.limit \in Nat /\ gate.left \in Nat /\ misses \in Nat

\* A gate that is running has given no answer, and what it has used up and
\* what it has left are what it was started with.
StillCounting ==
  /\ gate.at # "done" => gate.result = "none"
  /\ gate.at \in {"name", "password"} =>
       gate.app \in {"login", "capp"} /\ gate.left > 0 /\ misses + gate.left = gate.limit
  /\ gate.at = "create" => gate.app = "capp" /\ gate.limit = 0 /\ misses = 0
  /\ gate.at \in {"Locked", "Wrong"} =>
       gate.app = "lock" /\ misses + gate.left = gate.limit /\ (gate.limit > 0 => gate.left > 0)
  /\ gate.app = "lock" => gate.at \in {"Locked", "Wrong", "done"}
  /\ gate.app = "none" => gate.at = "done"

\* The inductive invariant of AttemptsAreCounted.
CountInv == GateTypes /\ StillCounting /\ AttemptsAreCounted

LEMMA NoGateFields ==
  /\ DOMAIN NoGate = GateFields
  /\ NoGate.app = "none" /\ NoGate.at = "done" /\ NoGate.limit = 0 /\ NoGate.left = 0
  /\ NoGate.result = "none"
BY Zenon DEF NoGate, GateFields

(* A wrong answer at a prompt takes one attempt, and the last one ends the *)
(* login (lib.rs: for remaining in (1..=max_attempts).rev()).              *)
LEMMA AttemptUsed ==
  ASSUME CountInv, gate.at \in {"name", "password"},
         gate' = NextAttempt(gate), misses' = misses + 1
  PROVE  CountInv'
<1>1. /\ DOMAIN gate = GateFields /\ gate.app \in {"login", "capp"} /\ gate.result = "none"
      /\ gate.limit \in Nat /\ gate.left \in Nat /\ misses \in Nat
      /\ gate.left > 0 /\ misses + gate.left = gate.limit
  BY Zenon DEF CountInv, GateTypes, StillCounting
<1>2. CASE gate.left > 1
  <2>1. gate' = [gate EXCEPT !.left = @ - 1]
    BY <1>2, Zenon DEF NextAttempt
  <2>2. /\ DOMAIN gate' = GateFields /\ gate'.app = gate.app /\ gate'.at = gate.at
        /\ gate'.limit = gate.limit /\ gate'.left = gate.left - 1 /\ gate'.result = "none"
    BY <1>1, <2>1, Zenon DEF GateFields
  <2> QED
    BY <1>1, <1>2, <2>2 DEF CountInv, GateTypes, StillCounting, AttemptsAreCounted
<1>3. CASE ~(gate.left > 1)
  <2>1. gate' = [gate EXCEPT !.left = 0, !.at = "done", !.result = "Denied"]
    BY <1>3, Zenon DEF NextAttempt
  <2>2. /\ DOMAIN gate' = GateFields /\ gate'.app = gate.app /\ gate'.at = "done"
        /\ gate'.limit = gate.limit /\ gate'.left = 0 /\ gate'.result = "Denied"
    BY <1>1, <2>1, Zenon DEF GateFields
  <2> QED
    BY <1>1, <1>3, <2>2 DEF CountInv, GateTypes, StillCounting, AttemptsAreCounted
<1> QED
  BY <1>2, <1>3, Zenon

(* A step that ends a running gate without an attempt, and not by turning  *)
(* the user away.                                                          *)
LEMMA GateEnds ==
  ASSUME CountInv, gate.at # "done", NEW r, r \notin {"Denied", "LockedOut"},
         DOMAIN gate' = GateFields, gate'.app = gate.app, gate'.at = "done",
         gate'.limit = gate.limit, gate'.left = gate.left, gate'.result = r, misses' = misses
  PROVE  CountInv'
<1>1. /\ gate.app \in {"none", "call", "login", "capp", "lock"}
      /\ gate.limit \in Nat /\ gate.left \in Nat /\ misses \in Nat
  BY Zenon DEF CountInv, GateTypes
<1>2. misses <= IF gate.app = "lock" /\ gate.limit = 0 THEN 1 ELSE gate.limit
  BY Zenon DEF CountInv, AttemptsAreCounted
<1>3. gate.app = "none" => gate.at = "done"
  BY Zenon DEF CountInv, StillCounting
<1>4. GateTypes' /\ StillCounting'
  BY <1>1, <1>3, Zenon DEF GateTypes, StillCounting
<1>5. AttemptsAreCounted'
  BY <1>1, <1>2, Zenon DEF AttemptsAreCounted
<1> QED
  BY <1>4, <1>5, Zenon DEF CountInv

(* A gate that is started: at its first prompt with all its attempts, with *)
(* none to give, or with nothing to count.                                 *)
LEMMA GateStarts ==
  ASSUME NEW g, StartGate(g), DOMAIN g = GateFields, g.limit \in Nat,
         \/ g.app \in {"login", "capp"} /\ g.at \in {"name", "password"} /\ g.limit > 0
            /\ g.left = g.limit /\ g.result = "none"
         \/ g.app = "login" /\ g.at = "done" /\ g.limit = 0 /\ g.left = 0 /\ g.result = "Denied"
         \/ g.app = "capp" /\ g.at = "create" /\ g.limit = 0 /\ g.left = 0 /\ g.result = "none"
         \/ g.app = "lock" /\ g.at = "Locked" /\ g.left = g.limit /\ g.result = "none"
         \/ g.app = "none" /\ g.at = "done" /\ g.left = 0 /\ g.result = "none"
  PROVE  CountInv'
<1>1. gate' = g /\ misses' = 0
  BY Zenon DEF StartGate
<1>2. GateTypes'
  BY <1>1 DEF GateTypes
<1>3. StillCounting'
  BY <1>1 DEF StillCounting
<1>4. AttemptsAreCounted'
  BY <1>1 DEF AttemptsAreCounted
<1> QED
  BY <1>2, <1>3, <1>4, Zenon DEF CountInv

LEMMA CountKept ==
  ASSUME CountInv, UNCHANGED <<gate, misses>>
  PROVE  CountInv'
BY Zenon DEF CountInv, GateTypes, StillCounting, AttemptsAreCounted

(* The record read from disk is a password profile, so the per-profile     *)
(* gate prompts for the password.                                          *)
LEMMA RecordGatePrompts ==
  ASSUME NEW g, DOMAIN g = GateFields, NEW name, NEW record, g.boundary = PROFILE_BOUNDARY,
         g.ps = enroll_password_record(<<>>, PROFILE_BOUNDARY, name, record)
  PROVE  run_login_for(g) = [g EXCEPT !.at = "password"]
<1> DEFINE v == [method |-> "Password", salt |-> record.salt, hash |-> record.hash]
<1>1. g.ps = [c \in DOMAIN <<>> \cup {1} |-> IF c = 1 THEN [name |-> name, verifier |-> v] ELSE <<>>[c]]
  BY Zenon DEF enroll_password_record, Insert, PROFILE_BOUNDARY
<1>2. 1 \in DOMAIN g.ps /\ g.ps[1] = [name |-> name, verifier |-> v]
  BY <1>1, Zenon
<1>3. method_for(g.ps, 1) = "Password"
  BY <1>2 DEF method_for
<1> QED
  BY <1>3, Zenon DEF run_login_for, PROFILE_BOUNDARY

(* A key of the pad: an entry and a clear take no attempt, a wrong PIN     *)
(* takes one, and the last one locks out.                                  *)
LEMMA PressCounted ==
  ASSUME CountInv, gate.app = "lock", gate.at # "done", NEW key, gate' = press(key),
         misses' = IF key = "E" /\ gate'.result # "Unlocked" THEN misses + 1 ELSE misses
  PROVE  CountInv'
<1>1. /\ DOMAIN gate = GateFields /\ gate.result = "none" /\ gate.at \in {"Locked", "Wrong"}
      /\ gate.limit \in Nat /\ gate.left \in Nat /\ misses \in Nat
      /\ misses + gate.left = gate.limit /\ (gate.limit > 0 => gate.left > 0)
  BY Zenon DEF CountInv, GateTypes, StillCounting
<1>2. CASE key = "C"
  <2>1. gate' = [gate EXCEPT !.entered = <<>>] /\ misses' = misses
    BY <1>2, Zenon DEF press
  <2>2. /\ DOMAIN gate' = GateFields /\ gate'.app = "lock" /\ gate'.at = gate.at
        /\ gate'.limit = gate.limit /\ gate'.left = gate.left /\ gate'.result = "none"
    BY <1>1, <2>1, Zenon DEF GateFields
  <2> QED
    BY <1>1, <2>1, <2>2, Zenon DEF CountInv, GateTypes, StillCounting, AttemptsAreCounted
<1>3. CASE key # "C" /\ key # "E"
  <2>1. gate' = [gate EXCEPT !.entered = Append(@, key), !.at = "Locked"] /\ misses' = misses
    BY <1>3, Zenon DEF press
  <2>2. /\ DOMAIN gate' = GateFields /\ gate'.app = "lock" /\ gate'.at = "Locked"
        /\ gate'.limit = gate.limit /\ gate'.left = gate.left /\ gate'.result = "none"
    BY <1>1, <2>1, Zenon DEF GateFields
  <2> QED
    BY <1>1, <2>1, <2>2, Zenon DEF CountInv, GateTypes, StillCounting, AttemptsAreCounted
<1>4. CASE key = "E" /\ open_session(gate.ps, gate.boundary, ByPassword(gate.entered))
  <2>1. gate' = [gate EXCEPT !.entered = <<>>, !.at = "done", !.result = "Unlocked"]
    BY <1>4, Zenon DEF press
  <2>2. /\ DOMAIN gate' = GateFields /\ gate'.app = "lock" /\ gate'.at = "done"
        /\ gate'.limit = gate.limit /\ gate'.left = gate.left /\ gate'.result = "Unlocked"
    BY <1>1, <2>1, Zenon DEF GateFields
  <2>3. misses' = misses
    BY <2>2, Zenon
  <2> QED
    BY <2>2, <2>3, GateEnds, Zenon
<1>5. CASE key = "E" /\ ~open_session(gate.ps, gate.boundary, ByPassword(gate.entered))
  <2> DEFINE left == IF gate.left = 0 THEN 0 ELSE gate.left - 1
  <2>1. gate' = IF left = 0
                THEN [gate EXCEPT !.entered = <<>>, !.left = 0, !.at = "done", !.result = "LockedOut"]
                ELSE [gate EXCEPT !.entered = <<>>, !.left = left, !.at = "Wrong"]
    BY <1>5, Zenon DEF press
  <2>2. left \in Nat
    BY <1>1
  <2>3. CASE left = 0
    <3>1. /\ DOMAIN gate' = GateFields /\ gate'.app = "lock" /\ gate'.at = "done"
          /\ gate'.limit = gate.limit /\ gate'.left = 0 /\ gate'.result = "LockedOut"
      BY <1>1, <2>1, <2>3, Zenon DEF GateFields
    <3>2. misses' = misses + 1
      BY <1>5, <3>1, Zenon
    <3> QED
      BY <1>1, <2>3, <3>1, <3>2 DEF CountInv, GateTypes, StillCounting, AttemptsAreCounted
  <2>4. CASE left # 0
    <3>1. /\ DOMAIN gate' = GateFields /\ gate'.app = "lock" /\ gate'.at = "Wrong"
          /\ gate'.limit = gate.limit /\ gate'.left = left /\ gate'.result = "none"
      BY <1>1, <2>1, <2>4, Zenon DEF GateFields
    <3>2. misses' = misses + 1
      BY <1>5, <3>1, Zenon
    <3> QED
      BY <1>1, <2>2, <2>4, <3>1, <3>2 DEF CountInv, GateTypes, StillCounting, AttemptsAreCounted
  <2> QED
    BY <2>3, <2>4, Zenon
<1> QED
  BY <1>2, <1>3, <1>4, <1>5, Zenon

LEMMA CountInitially == SessionInit => CountInv
BY NoGateFields DEF SessionInit, CountInv, GateTypes, StillCounting, AttemptsAreCounted

(* Every call and every answer keeps the count.                            *)
LEMMA CountStep == CountInv /\ [SessionNext]_sessionVars => CountInv'
<1> SUFFICES ASSUME CountInv, [SessionNext]_sessionVars PROVE CountInv'
  OBVIOUS
<1>0. DOMAIN gate = GateFields
  BY Zenon DEF CountInv, GateTypes
<1>1. ASSUME NEW b, NEW name, NEW v, NEW secret, Enroll(b, name, v, secret)
      PROVE  CountInv'
  BY <1>1, CountKept, Zenon DEF Enroll
<1>2. ASSUME NEW b \in Boundaries, NEW cred \in Credentials, OpenSession(b, cred)
      PROVE  CountInv'
  <2>1. authenticate(profiles, b, cred) \in {"UnknownProfile", "Success", "BadSecret"}
    BY Zenon DEF authenticate
  <2>2. /\ gate' = [NoGate EXCEPT !.app = "call", !.boundary = b, !.limit = 1,
                                  !.result = authenticate(profiles, b, cred)]
        /\ misses' = 0
    BY <1>2, Zenon DEF OpenSession
  <2>3. /\ DOMAIN gate' = GateFields /\ gate'.app = "call" /\ gate'.at = "done" /\ gate'.limit = 1
        /\ gate'.left = 0 /\ gate'.result \in {"UnknownProfile", "Success", "BadSecret"}
    BY <2>1, <2>2, NoGateFields, Zenon DEF GateFields
  <2> QED
    BY <2>2, <2>3 DEF CountInv, GateTypes, StillCounting, AttemptsAreCounted
<1>3. ASSUME NEW max \in MaxAttempts, run_login(max)
      PROVE  CountInv'
  <2> DEFINE g == [NoGate EXCEPT !.app = "login", !.ps = profiles, !.limit = max, !.left = max,
                                 !.at = IF max = 0 THEN "done" ELSE "name",
                                 !.result = IF max = 0 THEN "Denied" ELSE "none"]
  <2>1. StartGate(g) /\ max \in Nat
    BY <1>3, SessionAssumption, Zenon DEF run_login
  <2>2. /\ DOMAIN g = GateFields /\ g.app = "login" /\ g.limit = max /\ g.left = max
        /\ g.at = IF max = 0 THEN "done" ELSE "name"
        /\ g.result = IF max = 0 THEN "Denied" ELSE "none"
    BY NoGateFields, Zenon DEF GateFields
  <2> HIDE DEF g
  <2> QED
    BY <2>1, <2>2, GateStarts
<1>4. ASSUME NEW name \in ProfileNames, LoginName(name)
      PROVE  CountInv'
  <2> DEFINE b == find_by_name(gate.ps, name)
             skip == b = 0 \/ method_for(gate.ps, b) = "PhysicalKeyDevice"
             h == [gate EXCEPT !.boundary = b]
  <2>1. /\ gate.at = "name"
        /\ gate' = (IF skip THEN NextAttempt(gate) ELSE run_login_for(h))
        /\ misses' = (IF skip THEN misses + 1 ELSE misses)
    BY <1>4, Zenon DEF LoginName
  <2>2. CASE skip
    BY <2>1, <2>2, AttemptUsed, Zenon
  <2>3. CASE ~skip
    <3>1. /\ DOMAIN h = GateFields /\ h.ps = gate.ps /\ h.boundary = b /\ h.app = gate.app
          /\ h.limit = gate.limit /\ h.left = gate.left /\ h.result = gate.result
      BY <1>0, Zenon DEF GateFields
    <3> HIDE DEF h
    <3>2. gate' = [h EXCEPT !.at = "password"] /\ misses' = misses
      BY <2>1, <2>3, <3>1, Zenon DEF run_login_for
    <3>3. /\ DOMAIN gate' = GateFields /\ gate'.app = gate.app /\ gate'.at = "password"
          /\ gate'.limit = gate.limit /\ gate'.left = gate.left /\ gate'.result = gate.result
      BY <3>1, <3>2, Zenon DEF GateFields
    <3> QED
      BY <2>1, <3>2, <3>3, Zenon DEF CountInv, GateTypes, StillCounting, AttemptsAreCounted
  <2> QED
    BY <2>2, <2>3, Zenon
<1>5. ASSUME NEW pw \in Passwords, LoginPassword(pw)
      PROVE  CountInv'
  <2> DEFINE ok == open_session(gate.ps, gate.boundary, ByPassword(trim_end(pw)))
  <2>1. /\ gate.at = "password"
        /\ gate' = (IF ok THEN [gate EXCEPT !.at = "done", !.result = "Granted"] ELSE NextAttempt(gate))
        /\ misses' = (IF ok THEN misses ELSE misses + 1)
    BY <1>5, Zenon DEF LoginPassword
  <2> HIDE DEF ok
  <2>2. CASE ok
    <3>1. /\ DOMAIN gate' = GateFields /\ gate'.app = gate.app /\ gate'.at = "done"
          /\ gate'.limit = gate.limit /\ gate'.left = gate.left /\ gate'.result = "Granted"
      BY <1>0, <2>1, <2>2, Zenon DEF GateFields
    <3> QED
      BY <2>1, <2>2, <3>1, GateEnds, Zenon
  <2>3. CASE ~ok
    BY <2>1, <2>3, AttemptUsed, Zenon
  <2> QED
    BY <2>2, <2>3, Zenon
<1>6. CASE LoginAborted
  <2>1. gate.at # "done" /\ gate' = [gate EXCEPT !.at = "done", !.result = "Aborted"] /\ misses' = misses
    BY <1>6, Zenon DEF LoginAborted
  <2>2. /\ DOMAIN gate' = GateFields /\ gate'.app = gate.app /\ gate'.at = "done"
        /\ gate'.limit = gate.limit /\ gate'.left = gate.left /\ gate'.result = "Aborted"
    BY <1>0, <2>1, Zenon DEF GateFields
  <2> QED
    BY <2>1, <2>2, GateEnds, Zenon
<1>7. ASSUME NEW name \in ProfileNames, NEW readable \in BOOLEAN, LoginApp(name, readable)
      PROVE  CountInv'
  <2> DEFINE ps == enroll_password_record(<<>>, PROFILE_BOUNDARY, name, records[name])
             h == [NoGate EXCEPT !.app = "capp", !.name = name, !.boundary = PROFILE_BOUNDARY,
                                 !.limit = MAX_ATTEMPTS, !.left = MAX_ATTEMPTS, !.ps = ps]
             g == [NoGate EXCEPT !.app = "capp", !.at = "create", !.name = name]
  <2>1. StartGate(run_login_for(h)) \/ StartGate(g)
    BY <1>7, Zenon DEF LoginApp
  <2>2. CASE StartGate(run_login_for(h))
    <3>1. /\ DOMAIN h = GateFields /\ h.boundary = PROFILE_BOUNDARY /\ h.ps = ps
          /\ h.app = "capp" /\ h.limit = 3 /\ h.left = 3 /\ h.result = "none"
      BY NoGateFields, Zenon DEF GateFields, MAX_ATTEMPTS
    <3> DEFINE k == [h EXCEPT !.at = "password"]
    <3> HIDE DEF h
    <3>2. run_login_for(h) = k
      BY <3>1, RecordGatePrompts
    <3>3. /\ DOMAIN k = GateFields /\ k.at = "password" /\ k.app = "capp" /\ k.limit = 3
          /\ k.left = 3 /\ k.result = "none"
      BY <3>1, Zenon DEF GateFields
    <3> HIDE DEF k
    <3> QED
      BY <2>2, <3>2, <3>3, GateStarts
  <2>3. CASE StartGate(g)
    <3>1. /\ DOMAIN g = GateFields /\ g.at = "create" /\ g.app = "capp" /\ g.limit = 0
          /\ g.left = 0 /\ g.result = "none"
      BY NoGateFields, Zenon DEF GateFields
    <3> HIDE DEF g
    <3> QED
      BY <2>3, <3>1, GateStarts
  <2> QED
    BY <2>1, <2>2, <2>3, Zenon
<1>8. ASSUME NEW pw1 \in Passwords, NEW pw2 \in Passwords, NEW salt \in Salts,
             NEW entropy \in BOOLEAN, NEW written \in BOOLEAN,
             create_user(pw1, pw2, salt, entropy, written)
      PROVE  CountInv'
  <2>1. PICK r \in {"Created", "Failed"} :
          gate.at # "done" /\ gate' = [gate EXCEPT !.at = "done", !.result = r] /\ misses' = misses
    BY <1>8, Zenon DEF create_user
  <2>2. /\ DOMAIN gate' = GateFields /\ gate'.app = gate.app /\ gate'.at = "done"
        /\ gate'.limit = gate.limit /\ gate'.left = gate.left /\ gate'.result = r
    BY <1>0, <2>1, Zenon DEF GateFields
  <2> QED
    BY <2>1, <2>2, GateEnds, Zenon
<1>9. ASSUME NEW b \in Boundaries, NEW max \in MaxAttempts, PinLock(b, max)
      PROVE  CountInv'
  <2> DEFINE g == [NoGate EXCEPT !.app = "lock", !.at = "Locked", !.ps = profiles,
                                 !.boundary = b, !.limit = max, !.left = max]
  <2>1. StartGate(g) /\ max \in Nat
    BY <1>9, SessionAssumption, Zenon DEF PinLock
  <2>2. /\ DOMAIN g = GateFields /\ g.app = "lock" /\ g.at = "Locked" /\ g.limit = max
        /\ g.left = max /\ g.result = "none"
    BY NoGateFields, Zenon DEF GateFields
  <2> HIDE DEF g
  <2> QED
    BY <2>1, <2>2, GateStarts, Zenon
<1>10. ASSUME NEW x, NEW y, on_gesture(x, y)
       PROVE  CountInv'
  <2> DEFINE key == button_at(x, y)
  <2>1. /\ gate.app = "lock" /\ gate.at # "done"
        /\ \/ UNCHANGED <<gate, misses>>
           \/ /\ gate' = press(key)
              /\ misses' = IF key = "E" /\ gate'.result # "Unlocked" THEN misses + 1 ELSE misses
    BY <1>10, Zenon DEF on_gesture
  <2> HIDE DEF key
  <2> QED
    BY <2>1, CountKept, PressCounted, Zenon
<1>11. CASE Leave
  <2>1. StartGate(NoGate)
    BY <1>11, Zenon DEF Leave
  <2> QED
    BY <2>1, NoGateFields, GateStarts
<1>12. CASE UNCHANGED sessionVars
  BY <1>12, CountKept, Zenon DEF sessionVars
<1> QED
  BY <1>1, <1>2, <1>3, <1>4, <1>5, <1>6, <1>7, <1>8, <1>9, <1>10, <1>11, <1>12, Zenon
  DEF SessionNext, enroll_password, enroll_key_device, enroll_password_and_key_device

(* A gate gives the attempts it was started with and no more, and turns    *)
(* nobody away before they are used up, for any limit, any profiles and    *)
(* any answers at either prompt or on the pad (run_login, run_login_for,   *)
(* press).                                                                 *)
THEOREM AttemptsAreCountedHolds == SessionSpec => []AttemptsAreCounted
<1>1. CountInv => AttemptsAreCounted
  BY Zenon DEF CountInv
<1> QED
  BY <1>1, CountInitially, CountStep, PTL DEF SessionSpec

-----------------------------------------------------------------------------
(* The gates: for whom a session opens                                     *)

\* What is on the pad, and what may stand in a password (the provers do not
\* know that a literal is a string).
PadKeys == {"0", "1", "2", "3", "4", "5", "6", "7", "8", "9", "C", "E"}
Text == STRING \cup PadKeys

\* A stored verifier is the one made from the secret that was enrolled.
Matches(v, secret) ==
  \/ \E salt \in Salts, pw \in Passwords : v = Password(salt, pw) /\ secret = ByPassword(pw)
  \/ \E key \in Keys : v = KeyDevice(key) /\ secret = [method |-> "PhysicalKeyDevice", key |-> key]
  \/ \E salt \in Salts, pw \in Passwords, key \in Keys :
       /\ v = Both(salt, pw, key)
       /\ secret = [method |-> "PasswordAndKeyDevice", password |-> pw, key |-> key]

\* The registry holds the last enrolment of each boundary and nothing else.
Registry ==
  /\ DOMAIN profiles \subseteq Boundaries /\ DOMAIN owed = Boundaries
  /\ \A b \in Boundaries : IF b \in DOMAIN profiles THEN Matches(profiles[b].verifier, owed[b])
                           ELSE owed[b] = NoSecret

\* The files hold the password each profile was created with.
Disk ==
  /\ DOMAIN records = DOMAIN owedDisk
  /\ \A n \in DOMAIN records :
       /\ owedDisk[n] \in Seq(Text)
       /\ \E salt \in Salts : records[n] = [salt |-> salt, hash |-> hash_password(salt, owedDisk[n])]

\* What a running gate asks the registry about.
Places ==
  /\ gate.app \in {"login", "lock"} => gate.ps = profiles
  /\ gate.app = "lock" => gate.boundary \in Boundaries /\ gate.entered = typed /\ typed \in Seq(Text)
  /\ gate.at = "name" => gate.app = "login"
  /\ gate.at = "password" /\ gate.app = "login" => gate.boundary \in Boundaries
  /\ gate.at = "password" /\ gate.app = "capp" =>
       /\ gate.name \in DOMAIN records /\ gate.boundary = PROFILE_BOUNDARY
       /\ gate.ps = enroll_password_record(<<>>, PROFILE_BOUNDARY, gate.name, records[gate.name])
  /\ gate.at = "create" => shown = NoSecret

\* The inductive invariant of OpensForTheEnrolled.
OpenInv == CountInv /\ Registry /\ Disk /\ Places /\ OpensForTheEnrolled

(* A set of numbers has a least one.                                       *)
LEMMA LeastNat ==
  ASSUME NEW T, T \subseteq Nat, T # {}
  PROVE  \E x \in T : \A y \in T : x <= y
<1> DEFINE R == {ss \in Nat \X Nat : ss[1] < ss[2]}
<1>1. IsWellFoundedOn(R, Nat)
  BY NatLessThanWellFounded, Zenon DEF OpToRel
<1>a. \A y, x \in Nat : y < x => <<y, x>> \in R
  OBVIOUS
<1> HIDE DEF R
<1>2. PICK x \in T : \A y \in T : ~(<<y, x>> \in R)
  BY <1>1, WFMin, Zenon
<1>3. \A y \in T : ~(y < x) /\ y \in Nat /\ x \in Nat
  BY <1>2, <1>a, Zenon
<1>4. \A y \in T : x <= y
  BY <1>3
<1> QED
  BY <1>4, Zenon

LEMMA PasswordsAreText == Passwords \subseteq Seq(Text)
BY SessionAssumption DEF Text

LEMMA TrimmedIsText ==
  ASSUME NEW pw \in Seq(Text)
  PROVE  trim_end(pw) \in Seq(Text)
<1> DEFINE ends == {n \in 0 .. Len(pw) : \A i \in n + 1 .. Len(pw) : pw[i] = Blank}
           k == CHOOSE n \in ends : \A m \in ends : n <= m
<1>1. Len(pw) \in ends /\ ends \subseteq Nat
  OBVIOUS
<1>2. \A n \in ends : n \in 0 .. Len(pw)
  OBVIOUS
<1>3. trim_end(pw) = SubSeq(pw, 1, k)
  BY Zenon DEF trim_end
<1> HIDE DEF ends
<1>4. \E n \in ends : \A m \in ends : n <= m
  BY <1>1, LeastNat, Zenon
<1>5. k \in ends
  BY <1>4, Zenon
<1>6. k \in 0 .. Len(pw)
  BY <1>2, <1>5, Zenon
<1> HIDE DEF k
<1> QED
  BY <1>3, <1>6

(* The registry is looked up by name: what is found is one of its numbers. *)
LEMMA FoundIsEnrolled ==
  ASSUME NEW ps, DOMAIN ps \subseteq Boundaries, NEW name, find_by_name(ps, name) # 0
  PROVE  find_by_name(ps, name) \in Boundaries
<1> DEFINE hits == {b \in DOMAIN ps : ps[b].name = name}
           k == CHOOSE b \in hits : \A c \in hits : b <= c
<1>1. hits # {} /\ find_by_name(ps, name) = k
  BY Zenon DEF find_by_name
<1>2. hits \subseteq Boundaries /\ Boundaries \subseteq Nat
  BY SessionAssumption, Zenon
<1> HIDE DEF hits
<1>3. k \in hits
  BY <1>1, <1>2, LeastNat, Zenon
<1> QED
  BY <1>1, <1>2, <1>3, Zenon

(* Two passwords under one salt have the same digest only if they are the  *)
(* same.                                                                   *)
LEMMA DigestsTellApart ==
  ASSUME NEW salt, NEW p \in Seq(Text), NEW q \in Seq(Text)
  PROVE  verify_password(salt, hash_password(salt, p), q) <=> p = q
<1> SUFFICES ASSUME hash_password(salt, p) = hash_password(salt, q) PROVE p = q
  BY Zenon DEF verify_password
<1>1. <<salt>> \o p = <<salt>> \o q
  BY Zenon DEF hash_password
<1> DEFINE S == Text \cup {salt}
<1>2. <<salt>> \in Seq(S) /\ p \in Seq(S) /\ q \in Seq(S)
  OBVIOUS
<1> HIDE DEF S
<1>3. Len(<<salt>> \o p) = 1 + Len(p) /\ Len(<<salt>> \o q) = 1 + Len(q)
  BY <1>2
<1>4. \A i \in 1 .. Len(p) : (<<salt>> \o p)[i + 1] = p[i]
  BY <1>2
<1>5. \A i \in 1 .. Len(q) : (<<salt>> \o q)[i + 1] = q[i]
  BY <1>2
<1>6. Len(p) = Len(q)
  BY <1>1, <1>3
<1>7. \A i \in 1 .. Len(p) : p[i] = q[i]
  BY <1>1, <1>4, <1>5, <1>6, Zenon
<1> QED
  BY <1>6, <1>7

(* A registry that holds the enrolments answers every credential as the    *)
(* enrolled secret decides: Accounts::authenticate.                        *)
LEMMA AnswersAsEnrolled ==
  ASSUME NEW v, NEW secret, Matches(v, secret), NEW ps, NEW b, b \in DOMAIN ps, ps[b].verifier = v,
         NEW cred,
         \/ \E pw \in Seq(Text) : cred = ByPassword(pw)
         \/ cred \in Credentials
  PROVE  authenticate(ps, b, cred) = "Success" <=> Entitled(secret, cred)
<1> DEFINE good == /\ cred.method = v.method
                   /\ v.method # "PhysicalKeyDevice" => verify_password(v.salt, v.hash, cred.password)
                   /\ v.method # "Password" =>
                        check_key_device(v.public_key, cred.challenge, cred.signature)
<1>1. authenticate(ps, b, cred) = "Success" <=> good
  BY Zenon DEF authenticate
<1>2. Passwords \subseteq Seq(Text)
  BY PasswordsAreText, Zenon
<1>3. /\ cred.method \in {"Password", "PhysicalKeyDevice", "PasswordAndKeyDevice"}
      /\ cred.method # "PhysicalKeyDevice" => cred.password \in Seq(Text)
  BY <1>2 DEF Credentials, ByPassword
<1>4. ASSUME NEW salt \in Salts, NEW pw \in Passwords,
             v = Password(salt, pw), secret = ByPassword(pw)
      PROVE  good <=> Entitled(secret, cred)
  <2>1. v.method = "Password" /\ v.salt = salt /\ v.hash = hash_password(salt, pw)
    BY <1>4 DEF Password
  <2>2. secret.method = "Password" /\ secret.password = pw /\ DOMAIN secret = {"method", "password"}
    BY <1>4, Zenon DEF ByPassword
  <2>3. cred.method = "Password" =>
          (verify_password(salt, hash_password(salt, pw), cred.password) <=> pw = cred.password)
    BY <1>2, <1>3, DigestsTellApart, Zenon
  <2> QED
    BY <2>1, <2>2, <2>3, Zenon DEF Entitled
<1>5. ASSUME NEW key \in Keys, v = KeyDevice(key),
             secret = [method |-> "PhysicalKeyDevice", key |-> key]
      PROVE  good <=> Entitled(secret, cred)
  <2>1. v.method = "PhysicalKeyDevice" /\ v.public_key = key
    BY <1>5 DEF KeyDevice
  <2>2. secret.method = "PhysicalKeyDevice" /\ secret.key = key /\ DOMAIN secret = {"method", "key"}
    BY <1>5, Zenon
  <2> QED
    BY <2>1, <2>2, Zenon DEF Entitled, check_key_device
<1>6. ASSUME NEW salt \in Salts, NEW pw \in Passwords, NEW key \in Keys, v = Both(salt, pw, key),
             secret = [method |-> "PasswordAndKeyDevice", password |-> pw, key |-> key]
      PROVE  good <=> Entitled(secret, cred)
  <2>1. /\ v.method = "PasswordAndKeyDevice" /\ v.salt = salt /\ v.public_key = key
        /\ v.hash = hash_password(salt, pw)
    BY <1>6 DEF Both
  <2>2. /\ secret.method = "PasswordAndKeyDevice" /\ secret.password = pw /\ secret.key = key
        /\ DOMAIN secret = {"method", "password", "key"}
    BY <1>6, Zenon
  <2>3. cred.method = "PasswordAndKeyDevice" =>
          (verify_password(salt, hash_password(salt, pw), cred.password) <=> pw = cred.password)
    BY <1>2, <1>3, DigestsTellApart, Zenon
  <2> QED
    BY <2>1, <2>2, <2>3, Zenon DEF Entitled, check_key_device
<1> HIDE DEF good
<1> QED
  BY <1>1, <1>4, <1>5, <1>6, Zenon DEF Matches

(* The same for the registry of the running program, enrolled or not.      *)
LEMMA RegistryAnswers ==
  ASSUME Registry, NEW b \in Boundaries, NEW cred,
         \/ \E pw \in Seq(Text) : cred = ByPassword(pw)
         \/ cred \in Credentials
  PROVE  authenticate(profiles, b, cred) = "Success" <=> Entitled(owed[b], cred)
<1>1. CASE b \in DOMAIN profiles
  BY <1>1, AnswersAsEnrolled, Zenon DEF Registry
<1>2. CASE b \notin DOMAIN profiles
  <2>1. owed[b] = NoSecret
    BY <1>2, Zenon DEF Registry
  <2>2. cred.method # "none"
    BY DEF Credentials, ByPassword
  <2>3. ~Entitled(owed[b], cred)
    BY <2>1, <2>2 DEF Entitled, NoSecret
  <2>4. authenticate(profiles, b, cred) = "UnknownProfile"
    BY <1>2, Zenon DEF authenticate
  <2> QED
    BY <2>3, <2>4, Zenon
<1> QED
  BY <1>1, <1>2, Zenon

(* A record written by one run and read back by another asks for the       *)
(* password it was written with.                                           *)
LEMMA RecordAnswers ==
  ASSUME Disk, NEW name \in DOMAIN records, NEW q \in Seq(Text)
  PROVE  open_session(enroll_password_record(<<>>, PROFILE_BOUNDARY, name, records[name]),
                      PROFILE_BOUNDARY, ByPassword(q))
           <=> owedDisk[name] = q
<1> DEFINE r == records[name]
           ps == enroll_password_record(<<>>, 1, name, r)
           v == [method |-> "Password", salt |-> r.salt, hash |-> r.hash]
<1>1. PICK salt \in Salts : r = [salt |-> salt, hash |-> hash_password(salt, owedDisk[name])]
  BY Zenon DEF Disk
<1>2. owedDisk[name] \in Seq(Text)
  BY Zenon DEF Disk
<1>3. v.method = "Password" /\ v.salt = salt /\ v.hash = hash_password(salt, owedDisk[name])
  BY <1>1
<1>4. ps = [c \in DOMAIN <<>> \cup {1} |-> IF c = 1 THEN [name |-> name, verifier |-> v] ELSE <<>>[c]]
  BY Zenon DEF enroll_password_record, Insert
<1>5. 1 \in DOMAIN ps /\ ps[1].verifier = v
  BY <1>4
<1>6. ByPassword(q).method = "Password" /\ ByPassword(q).password = q
  BY Zenon DEF ByPassword
<1> HIDE DEF ps, v
<1>7. open_session(ps, 1, ByPassword(q)) <=> verify_password(salt, hash_password(salt, owedDisk[name]), q)
  BY <1>3, <1>5, <1>6, Zenon DEF open_session, authenticate
<1>8. PROFILE_BOUNDARY = 1
  BY Zenon DEF PROFILE_BOUNDARY
<1> QED
  BY <1>2, <1>7, <1>8, DigestsTellApart, Zenon DEF ps

(* A tap is the key that is drawn under it: button_at and render agree on  *)
(* every cell of the pad.                                                  *)
LEMMA PadAsDrawn ==
  ASSUME NEW x \in Nat, NEW y \in Nat, button_at(x, y) # "none"
  PROVE  button_at(x, y) = LabelAt(x, y) /\ LabelAt(x, y) \in PadKeys
<1> DEFINE row == y - 2
           col == x \div 4
<1>1. row \in 0 .. 3 /\ col \in 0 .. 2
  BY DEF button_at, KEYPAD_TOP, BUTTON_WIDTH
<1>2. /\ button_at(x, y) = IF row < 3 THEN Digits[row * 3 + col + 1] ELSE <<"C", "0", "E">>[col + 1]
      /\ LabelAt(x, y) = Labels[row + 1][col + 1]
  BY <1>1, Zenon DEF button_at, LabelAt, KEYPAD_TOP, BUTTON_WIDTH
<1> HIDE DEF row, col
<1>3. row = 0 \/ row = 1 \/ row = 2 \/ row = 3
  BY <1>1
<1>4. col = 0 \/ col = 1 \/ col = 2
  BY <1>1
<1>d. /\ Digits[1] = "1" /\ Digits[2] = "2" /\ Digits[3] = "3"
      /\ Digits[4] = "4" /\ Digits[5] = "5" /\ Digits[6] = "6"
      /\ Digits[7] = "7" /\ Digits[8] = "8" /\ Digits[9] = "9"
  BY DEF Digits
<1>l. /\ Labels[1] = <<"1", "2", "3">> /\ Labels[2] = <<"4", "5", "6">>
      /\ Labels[3] = <<"7", "8", "9">> /\ Labels[4] = <<"C", "0", "E">>
  BY Zenon DEF Labels
<1>5. CASE row = 0
  <2>1. Labels[row + 1] = Labels[1]
    BY <1>5
  <2>2. CASE col = 0
    BY <1>2, <1>d, <1>l, <1>5, <2>1, <2>2 DEF PadKeys
  <2>3. CASE col = 1
    BY <1>2, <1>d, <1>l, <1>5, <2>1, <2>3 DEF PadKeys
  <2>4. CASE col = 2
    BY <1>2, <1>d, <1>l, <1>5, <2>1, <2>4 DEF PadKeys
  <2> QED
    BY <1>4, <2>2, <2>3, <2>4, Zenon
<1>6. CASE row = 1
  <2>1. Labels[row + 1] = Labels[2]
    BY <1>6
  <2>2. CASE col = 0
    BY <1>2, <1>d, <1>l, <1>6, <2>1, <2>2 DEF PadKeys
  <2>3. CASE col = 1
    BY <1>2, <1>d, <1>l, <1>6, <2>1, <2>3 DEF PadKeys
  <2>4. CASE col = 2
    BY <1>2, <1>d, <1>l, <1>6, <2>1, <2>4 DEF PadKeys
  <2> QED
    BY <1>4, <2>2, <2>3, <2>4, Zenon
<1>7. CASE row = 2
  <2>1. Labels[row + 1] = Labels[3]
    BY <1>7
  <2>2. CASE col = 0
    BY <1>2, <1>d, <1>l, <1>7, <2>1, <2>2 DEF PadKeys
  <2>3. CASE col = 1
    BY <1>2, <1>d, <1>l, <1>7, <2>1, <2>3 DEF PadKeys
  <2>4. CASE col = 2
    BY <1>2, <1>d, <1>l, <1>7, <2>1, <2>4 DEF PadKeys
  <2> QED
    BY <1>4, <2>2, <2>3, <2>4, Zenon
<1>8. CASE row = 3
  <2>1. Labels[row + 1] = Labels[4]
    BY <1>8
  <2>2. CASE col = 0
    BY <1>2, <1>d, <1>l, <1>8, <2>1, <2>2 DEF PadKeys
  <2>3. CASE col = 1
    BY <1>2, <1>d, <1>l, <1>8, <2>1, <2>3 DEF PadKeys
  <2>4. CASE col = 2
    BY <1>2, <1>d, <1>l, <1>8, <2>1, <2>4 DEF PadKeys
  <2> QED
    BY <1>4, <2>2, <2>3, <2>4, Zenon
<1> QED
  BY <1>3, <1>5, <1>6, <1>7, <1>8, Zenon

LEMMA OpenInitially == SessionInit => OpenInv
<1> SUFFICES ASSUME SessionInit PROVE OpenInv
  OBVIOUS
<1>1. DOMAIN profiles = {} /\ DOMAIN records = {} /\ DOMAIN owedDisk = {}
  BY DEF SessionInit
<1>2. Registry
  BY <1>1, Zenon DEF SessionInit, Registry
<1>3. Disk
  BY <1>1, Zenon DEF SessionInit, Disk
<1>4. Places
  BY NoGateFields, Zenon DEF SessionInit, Places
<1> QED
  BY <1>2, <1>3, <1>4, CountInitially, Zenon DEF OpenInv, OpensForTheEnrolled, SessionInit

LEMMA RegistryKept ==
  ASSUME Registry, UNCHANGED <<profiles, owed>>
  PROVE  Registry'
BY Zenon DEF Registry

LEMMA DiskKept ==
  ASSUME Disk, UNCHANGED <<records, owedDisk>>
  PROVE  Disk'
BY Zenon DEF Disk

(* Nothing was presented, so there is nothing to answer for.               *)
LEMMA NothingShown ==
  ASSUME shown' = NoSecret
  PROVE  OpensForTheEnrolled'
BY Zenon DEF OpensForTheEnrolled

(* A round of the prompts keeps everything the gate asks about.            *)
LEMMA NextAttemptKeeps ==
  ASSUME DOMAIN gate = GateFields, gate.result = "none"
  PROVE  LET g == NextAttempt(gate) IN
         /\ DOMAIN g = GateFields /\ g.app = gate.app /\ g.ps = gate.ps /\ g.boundary = gate.boundary
         /\ g.name = gate.name /\ g.entered = gate.entered /\ g.at \in {gate.at, "done"}
         /\ g.result \in {"none", "Denied"}
BY Zenon DEF NextAttempt, GateFields

(* An enrolment replaces the boundary's earlier one, verifier and secret   *)
(* together.                                                               *)
LEMMA EnrollKeeps ==
  ASSUME OpenInv, NEW b \in Boundaries, NEW name, NEW v, NEW secret, Matches(v, secret),
         Enroll(b, name, v, secret)
  PROVE  Registry' /\ Disk' /\ Places' /\ OpensForTheEnrolled'
<1>0. Registry /\ Disk
  BY Zenon DEF OpenInv
<1>1. /\ gate.app = "none" /\ gate.at = "done" /\ gate' = gate /\ shown' = NoSecret
      /\ UNCHANGED <<records, owedDisk>>
      /\ profiles' = Insert(profiles, b, name, v) /\ owed' = [owed EXCEPT ![b] = secret]
  BY Zenon DEF Enroll
<1> DEFINE p == [name |-> name, verifier |-> v]
<1>2. p.verifier = v
  OBVIOUS
<1>3. profiles' = [c \in DOMAIN profiles \cup {b} |-> IF c = b THEN p ELSE profiles[c]]
  BY <1>1, Zenon DEF Insert
<1> HIDE DEF p
<1>4. DOMAIN profiles' \subseteq Boundaries /\ DOMAIN owed' = Boundaries
  BY <1>0, <1>1, <1>3, Zenon DEF Registry
<1>5. ASSUME NEW c \in Boundaries
      PROVE  IF c \in DOMAIN profiles' THEN Matches(profiles'[c].verifier, owed'[c])
             ELSE owed'[c] = NoSecret
  <2>1. CASE c = b
    <3>1. profiles'[c] = p /\ owed'[c] = secret /\ c \in DOMAIN profiles'
      BY <1>0, <1>1, <1>3, <2>1, Zenon DEF Registry
    <3> QED
      BY <1>2, <3>1, Zenon
  <2>2. CASE c # b
    <3>1. /\ c \in DOMAIN profiles' <=> c \in DOMAIN profiles
          /\ c \in DOMAIN profiles => profiles'[c] = profiles[c]
          /\ owed'[c] = owed[c]
      BY <1>0, <1>1, <1>3, <2>2, Zenon DEF Registry
    <3>2. IF c \in DOMAIN profiles THEN Matches(profiles[c].verifier, owed[c]) ELSE owed[c] = NoSecret
      BY <1>0, Zenon DEF Registry
    <3> QED
      BY <3>1, <3>2, Zenon
  <2> QED
    BY <2>1, <2>2, Zenon
<1>6. Registry'
  BY <1>4, <1>5, Zenon DEF Registry, Matches
<1> QED
  BY <1>0, <1>1, <1>6, DiskKept, NothingShown, Zenon DEF Places

(* A password typed at the prompt is judged by the enrolment: of the       *)
(* registry for the shared gate, of the file for the ring-3 program.       *)
LEMMA PromptJudges ==
  ASSUME OpenInv, NEW pw \in Passwords, LoginPassword(pw)
  PROVE  Places' /\ OpensForTheEnrolled'
<1>0. CountInv /\ Registry /\ Disk /\ Places
  BY Zenon DEF OpenInv
<1>1. DOMAIN gate = GateFields
  BY <1>0, Zenon DEF CountInv, GateTypes
<1> DEFINE q == trim_end(pw)
           ok == open_session(gate.ps, gate.boundary, ByPassword(q))
<1>2. /\ gate.at = "password" /\ shown' = ByPassword(pw)
      /\ gate' = (IF ok THEN [gate EXCEPT !.at = "done", !.result = "Granted"] ELSE NextAttempt(gate))
      /\ UNCHANGED <<profiles, records, owed, owedDisk, typed>>
  BY Zenon DEF LoginPassword
<1>3. gate.app \in {"login", "capp"} /\ gate.result = "none"
  BY <1>0, <1>2, Zenon DEF CountInv, StillCounting
<1>4. q \in Seq(Text)
  BY PasswordsAreText, TrimmedIsText, Zenon
<1>5. shown'.password = pw
  BY <1>2, Zenon DEF ByPassword
<1> HIDE DEF q, ok
<1>6. /\ gate'.app = gate.app /\ gate'.ps = gate.ps /\ gate'.boundary = gate.boundary
      /\ gate'.name = gate.name /\ gate'.at \in {"password", "done"}
      /\ (gate'.result = "Granted") <=> ok
  <2>1. CASE ok
    BY <1>1, <1>2, <2>1, Zenon DEF GateFields
  <2>2. CASE ~ok
    BY <1>1, <1>2, <1>3, <2>2, NextAttemptKeeps, Zenon
  <2> QED
    BY <2>1, <2>2, Zenon
<1>7. Places'
  BY <1>0, <1>2, <1>3, <1>6, Zenon DEF Places
<1>8. CASE gate.app = "login"
  <2>1. gate.ps = profiles /\ gate.boundary \in Boundaries
    BY <1>0, <1>2, <1>8, Zenon DEF Places
  <2>2. ok <=> Entitled(owed[gate.boundary], ByPassword(q))
    BY <1>0, <1>4, <2>1, RegistryAnswers, Zenon DEF ok, open_session
  <2>3. (gate'.result = "Granted") <=> Entitled(owed'[gate'.boundary], ByPassword(trim_end(shown'.password)))
    BY <1>2, <1>5, <1>6, <2>2, Zenon DEF q
  <2> QED
    BY <1>6, <1>7, <1>8, <2>3, Zenon DEF OpensForTheEnrolled
<1>9. CASE gate.app = "capp"
  <2>1. /\ gate.name \in DOMAIN records /\ gate.boundary = PROFILE_BOUNDARY
        /\ gate.ps = enroll_password_record(<<>>, PROFILE_BOUNDARY, gate.name, records[gate.name])
    BY <1>0, <1>2, <1>9, Zenon DEF Places
  <2>2. ok <=> owedDisk[gate.name] = q
    BY <1>0, <1>4, <2>1, RecordAnswers DEF ok
  <2>3. (gate'.result = "Granted") <=> owedDisk'[gate'.name] = trim_end(shown'.password)
    BY <1>2, <1>5, <1>6, <2>2, Zenon DEF q
  <2> QED
    BY <1>6, <1>7, <1>9, <2>3, Zenon DEF OpensForTheEnrolled
<1> QED
  BY <1>3, <1>8, <1>9, Zenon

(* A tap on the pad enters what is drawn, and E is judged by what was      *)
(* typed since the last clear.                                             *)
LEMMA PadJudges ==
  ASSUME OpenInv, NEW x \in Nat, NEW y \in Nat, on_gesture(x, y)
  PROVE  Places' /\ OpensForTheEnrolled'
<1>0. CountInv /\ Registry /\ Places /\ OpensForTheEnrolled
  BY Zenon DEF OpenInv
<1>1. DOMAIN gate = GateFields
  BY <1>0, Zenon DEF CountInv, GateTypes
<1> DEFINE key == button_at(x, y)
<1>2. /\ gate.app = "lock" /\ gate.at # "done" /\ UNCHANGED <<profiles, records, owed, owedDisk>>
      /\ IF key = "none" THEN UNCHANGED <<gate, shown, typed, misses>>
         ELSE /\ gate' = press(key)
              /\ shown' = IF LabelAt(x, y) = "E" THEN ByPassword(typed) ELSE NoSecret
              /\ typed' = IF LabelAt(x, y) \in {"C", "E"} THEN <<>> ELSE Append(typed, LabelAt(x, y))
  BY Zenon DEF on_gesture
<1>3. /\ gate.ps = profiles /\ gate.boundary \in Boundaries /\ gate.entered = typed
      /\ typed \in Seq(Text)
  BY <1>0, <1>2, Zenon DEF Places
<1>4. gate.result = "none" /\ gate.at \in {"Locked", "Wrong"}
  BY <1>0, <1>2, Zenon DEF CountInv, StillCounting
<1>5. key # "none" => key = LabelAt(x, y) /\ key \in PadKeys
  BY PadAsDrawn, Zenon
<1> HIDE DEF key
<1>6. CASE key = "none"
  BY <1>0, <1>2, <1>6, Zenon DEF Places, OpensForTheEnrolled
<1>7. CASE key = "C"
  <2>1. gate' = [gate EXCEPT !.entered = <<>>] /\ typed' = <<>> /\ shown' = NoSecret
    BY <1>2, <1>5, <1>7, Zenon DEF press
  <2>2. /\ gate'.app = "lock" /\ gate'.ps = gate.ps /\ gate'.boundary = gate.boundary
        /\ gate'.entered = <<>> /\ gate'.at = gate.at
    BY <1>1, <1>2, <2>1, Zenon DEF GateFields
  <2> QED
    BY <1>2, <1>3, <1>4, <2>1, <2>2, NothingShown DEF Places
<1>8. CASE key \notin {"none", "C", "E"}
  <2>1. /\ gate' = [gate EXCEPT !.entered = Append(@, key), !.at = "Locked"]
        /\ typed' = Append(typed, key) /\ shown' = NoSecret
    BY <1>2, <1>5, <1>8, Zenon DEF press
  <2>2. /\ gate'.app = "lock" /\ gate'.ps = gate.ps /\ gate'.boundary = gate.boundary
        /\ gate'.entered = Append(gate.entered, key) /\ gate'.at = "Locked"
    BY <1>1, <1>2, <2>1, Zenon DEF GateFields
  <2>3. typed' \in Seq(Text)
    BY <1>3, <1>5, <1>8, <2>1 DEF Text
  <2> QED
    BY <1>2, <1>3, <2>1, <2>2, <2>3, NothingShown, Zenon DEF Places
<1>9. CASE key = "E"
  <2> DEFINE ok == open_session(gate.ps, gate.boundary, ByPassword(gate.entered))
  <2>1. gate' = press("E") /\ typed' = <<>> /\ shown' = ByPassword(typed)
    BY <1>2, <1>5, <1>9, Zenon
  <2>2. ok <=> Entitled(owed[gate.boundary], ByPassword(typed))
    BY <1>0, <1>3, RegistryAnswers, Zenon DEF open_session
  <2>3. /\ gate'.app = "lock" /\ gate'.ps = gate.ps /\ gate'.boundary = gate.boundary
        /\ gate'.entered = <<>> /\ gate'.at \in {"done", "Wrong"}
        /\ (gate'.result = "Unlocked") <=> ok
    <3>1. CASE ok
      <4>1. gate' = [gate EXCEPT !.entered = <<>>, !.at = "done", !.result = "Unlocked"]
        BY <2>1, <3>1, Zenon DEF press
      <4> QED
        BY <1>1, <1>2, <3>1, <4>1, Zenon DEF GateFields
    <3>2. CASE ~ok
      <4> DEFINE left == IF gate.left = 0 THEN 0 ELSE gate.left - 1
      <4>1. \/ gate' = [gate EXCEPT !.entered = <<>>, !.left = 0, !.at = "done", !.result = "LockedOut"]
            \/ gate' = [gate EXCEPT !.entered = <<>>, !.left = left, !.at = "Wrong"]
        BY <2>1, <3>2, Zenon DEF press
      <4> HIDE DEF ok, left
      <4>2. CASE gate' = [gate EXCEPT !.entered = <<>>, !.left = 0, !.at = "done", !.result = "LockedOut"]
        BY <1>1, <1>2, <3>2, <4>2, Zenon DEF GateFields
      <4>3. CASE gate' = [gate EXCEPT !.entered = <<>>, !.left = left, !.at = "Wrong"]
        BY <1>1, <1>2, <1>4, <3>2, <4>3, Zenon DEF GateFields
      <4> QED
        BY <4>1, <4>2, <4>3, Zenon
    <3> QED
      BY <3>1, <3>2, Zenon
  <2> HIDE DEF ok
  <2>4. Places'
    BY <1>2, <1>3, <2>1, <2>3 DEF Places
  <2>5. (gate'.result = "Unlocked") <=> Entitled(owed'[gate'.boundary], shown')
    BY <1>2, <2>1, <2>2, <2>3, Zenon
  <2> QED
    BY <2>3, <2>4, <2>5, Zenon DEF OpensForTheEnrolled
<1> QED
  BY <1>6, <1>7, <1>8, <1>9, Zenon

(* A profile written to disk is the one whose password was typed twice.    *)
LEMMA CreatedIsOnDisk ==
  ASSUME OpenInv, NEW pw1 \in Passwords, NEW pw2 \in Passwords, NEW salt \in Salts,
         NEW entropy \in BOOLEAN, NEW written \in BOOLEAN,
         create_user(pw1, pw2, salt, entropy, written)
  PROVE  Disk' /\ Places' /\ OpensForTheEnrolled'
<1>0. CountInv /\ Disk /\ Places
  BY Zenon DEF OpenInv
<1> DEFINE made == pw1 = pw2 /\ pw1 # <<>> /\ entropy /\ written
           acc == Insert(<<>>, PROFILE_BOUNDARY, gate.name, Password(salt, pw1))
           r == password_record_for(acc, PROFILE_BOUNDARY)
<1>1. /\ gate.at = "create" /\ shown' = shown
      /\ gate' = [gate EXCEPT !.at = "done", !.result = IF made THEN "Created" ELSE "Failed"]
      /\ IF made
         THEN /\ records' = [n \in DOMAIN records \cup {gate.name} |->
                              IF n = gate.name THEN r ELSE records[n]]
              /\ owedDisk' = [n \in DOMAIN owedDisk \cup {gate.name} |->
                               IF n = gate.name THEN pw1 ELSE owedDisk[n]]
         ELSE UNCHANGED <<records, owedDisk>>
  BY Zenon DEF create_user
<1>2. r = [salt |-> salt, hash |-> hash_password(salt, pw1)]
  <2> DEFINE v == Password(salt, pw1)
  <2>1. acc = [c \in DOMAIN <<>> \cup {1} |-> IF c = 1 THEN [name |-> gate.name, verifier |-> v]
                                              ELSE <<>>[c]]
    BY Zenon DEF Insert, PROFILE_BOUNDARY
  <2>2. acc[1].verifier = v
    BY <2>1
  <2>3. v.salt = salt /\ v.hash = hash_password(salt, pw1)
    BY Zenon DEF Password
  <2> QED
    BY <2>2, <2>3, Zenon DEF password_record_for, PROFILE_BOUNDARY
<1>3. gate.app = "capp" /\ shown = NoSecret /\ DOMAIN gate = GateFields
  BY <1>0, <1>1, Zenon DEF CountInv, StillCounting, GateTypes, Places
<1>4. gate'.app = "capp" /\ gate'.at = "done"
  BY <1>1, <1>3, Zenon DEF GateFields
<1>5. pw1 \in Seq(Text)
  BY PasswordsAreText, Zenon
<1> HIDE DEF made, r
<1>6. CASE made
  <2>1. DOMAIN records' = DOMAIN owedDisk'
    BY <1>0, <1>1, <1>6, Zenon DEF Disk
  <2>2. ASSUME NEW n \in DOMAIN records'
        PROVE  /\ owedDisk'[n] \in Seq(Text)
               /\ \E s \in Salts : records'[n] = [salt |-> s, hash |-> hash_password(s, owedDisk'[n])]
    <3>1. CASE n = gate.name
      <4>1. records'[n] = r /\ owedDisk'[n] = pw1
        BY <1>1, <1>6, <2>1, <3>1, Zenon
      <4> QED
        BY <1>2, <1>5, <4>1, Zenon
    <3>2. CASE n # gate.name
      <4>1. n \in DOMAIN records /\ records'[n] = records[n] /\ owedDisk'[n] = owedDisk[n]
        BY <1>0, <1>1, <1>6, <2>1, <3>2, Zenon DEF Disk
      <4> QED
        BY <1>0, <4>1, Zenon DEF Disk
    <3> QED
      BY <3>1, <3>2, Zenon
  <2>3. Disk'
    BY <2>1, <2>2, Zenon DEF Disk, hash_password
  <2> QED
    BY <1>1, <1>3, <1>4, <2>3, NothingShown, Zenon DEF Places
<1>7. CASE ~made
  <2>1. Disk'
    BY <1>0, <1>1, <1>7, DiskKept, Zenon
  <2> QED
    BY <1>1, <1>3, <1>4, <2>1, NothingShown, Zenon DEF Places
<1> QED
  BY <1>6, <1>7, Zenon

(* A gate that starts asks the registry or the file as they now are.       *)
LEMMA GateStartsRight ==
  ASSUME NEW g, StartGate(g), g.at # "name" \/ g.app = "login",
         g.app \in {"login", "lock"} => g.ps = profiles',
         g.app = "lock" => g.boundary \in Boundaries /\ g.entered = <<>>,
         g.at = "password" => /\ g.app = "capp" /\ g.name \in DOMAIN records'
                              /\ g.boundary = PROFILE_BOUNDARY
                              /\ g.ps = enroll_password_record(<<>>, PROFILE_BOUNDARY, g.name,
                                                               records'[g.name])
  PROVE  Places' /\ OpensForTheEnrolled'
<1>1. gate' = g /\ typed' = <<>> /\ shown' = NoSecret
  BY Zenon DEF StartGate
<1> QED
  BY <1>1, NothingShown DEF Places

(* Every call and every answer keeps what the gates answer from.           *)
LEMMA OpenStep == OpenInv /\ [SessionNext]_sessionVars => OpenInv'
<1> SUFFICES ASSUME OpenInv, [SessionNext]_sessionVars PROVE OpenInv'
  OBVIOUS
<1> DEFINE Rest == Registry' /\ Disk' /\ Places' /\ OpensForTheEnrolled'
<1>0. CountInv /\ Registry /\ Disk /\ Places /\ OpensForTheEnrolled
  BY Zenon DEF OpenInv
<1>a. CountInv'
  BY <1>0, CountStep, Zenon
<1>b. DOMAIN gate = GateFields
  BY <1>0, Zenon DEF CountInv, GateTypes
<1>c. UNCHANGED <<profiles, records, owed, owedDisk>> => Registry' /\ Disk'
  BY <1>0, RegistryKept, DiskKept, Zenon
<1>1. ASSUME NEW b \in Boundaries, NEW name \in ProfileNames, NEW salt \in Salts, NEW pw \in Passwords,
             enroll_password(b, name, salt, pw)
      PROVE  Rest
  <2>1. Matches(Password(salt, pw), ByPassword(pw))
    BY Zenon DEF Matches
  <2> QED
    BY <1>1, <2>1, EnrollKeeps, Zenon DEF enroll_password
<1>2. ASSUME NEW b \in Boundaries, NEW name \in ProfileNames, NEW key \in Keys,
             enroll_key_device(b, name, key)
      PROVE  Rest
  <2>1. Matches(KeyDevice(key), [method |-> "PhysicalKeyDevice", key |-> key])
    BY Zenon DEF Matches
  <2> QED
    BY <1>2, <2>1, EnrollKeeps, Zenon DEF enroll_key_device
<1>3. ASSUME NEW b \in Boundaries, NEW name \in ProfileNames, NEW salt \in Salts, NEW pw \in Passwords,
             NEW key \in Keys, enroll_password_and_key_device(b, name, salt, pw, key)
      PROVE  Rest
  <2>1. Matches(Both(salt, pw, key), [method |-> "PasswordAndKeyDevice", password |-> pw, key |-> key])
    BY Zenon DEF Matches
  <2> QED
    BY <1>3, <2>1, EnrollKeeps, Zenon DEF enroll_password_and_key_device
<1>4. ASSUME NEW b \in Boundaries, NEW cred \in Credentials, OpenSession(b, cred)
      PROVE  Rest
  <2>1. /\ UNCHANGED <<profiles, records, owed, owedDisk>> /\ shown' = cred
        /\ gate' = [NoGate EXCEPT !.app = "call", !.boundary = b, !.limit = 1,
                                  !.result = authenticate(profiles, b, cred)]
    BY <1>4, Zenon DEF OpenSession
  <2>2. /\ gate'.app = "call" /\ gate'.at = "done" /\ gate'.boundary = b
        /\ gate'.result = authenticate(profiles, b, cred)
    BY <2>1, NoGateFields, Zenon DEF GateFields
  <2>3. (gate'.result = "Success") <=> Entitled(owed'[gate'.boundary], shown')
    BY <1>0, <2>1, <2>2, RegistryAnswers, Zenon
  <2>4. OpensForTheEnrolled'
    BY <2>2, <2>3, Zenon DEF OpensForTheEnrolled
  <2>5. Places'
    BY <2>2, Zenon DEF Places
  <2> QED
    BY <1>c, <2>1, <2>4, <2>5, Zenon
<1>5. ASSUME NEW max \in MaxAttempts, run_login(max)
      PROVE  Rest
  <2> DEFINE g == [NoGate EXCEPT !.app = "login", !.ps = profiles, !.limit = max, !.left = max,
                                 !.at = IF max = 0 THEN "done" ELSE "name",
                                 !.result = IF max = 0 THEN "Denied" ELSE "none"]
  <2>1. StartGate(g) /\ UNCHANGED <<profiles, records, owed, owedDisk>>
    BY <1>5, Zenon DEF run_login
  <2>2. g.app = "login" /\ g.ps = profiles /\ g.at \in {"done", "name"}
    BY NoGateFields, Zenon DEF GateFields
  <2> HIDE DEF g
  <2> QED
    BY <1>c, <2>1, <2>2, GateStartsRight, Zenon
<1>6. ASSUME NEW name \in ProfileNames, LoginName(name)
      PROVE  Rest
  <2> DEFINE b == find_by_name(gate.ps, name)
             skip == b = 0 \/ method_for(gate.ps, b) = "PhysicalKeyDevice"
             h == [gate EXCEPT !.boundary = b]
  <2>1. /\ gate.at = "name" /\ shown' = NoSecret /\ UNCHANGED <<profiles, records, owed, owedDisk, typed>>
        /\ gate' = (IF skip THEN NextAttempt(gate) ELSE run_login_for(h))
    BY <1>6, Zenon DEF LoginName
  <2>2. gate.app = "login" /\ gate.ps = profiles /\ gate.result = "none"
    BY <1>0, <2>1, Zenon DEF Places, CountInv, StillCounting
  <2>3. CASE skip
    <3>0. gate' = NextAttempt(gate)
      BY <2>1, <2>3, Zenon
    <3> HIDE DEF skip
    <3>1. gate'.app = "login" /\ gate'.ps = profiles /\ gate'.at \in {"name", "done"}
      BY <1>b, <2>1, <2>2, <3>0, NextAttemptKeeps, Zenon
    <3>2. Places' /\ OpensForTheEnrolled'
      BY <2>1, <3>1, NothingShown, Zenon DEF Places
    <3> QED
      BY <1>c, <2>1, <3>2, Zenon
  <2>4. CASE ~skip
    <3>1. /\ DOMAIN h = GateFields /\ h.ps = profiles /\ h.boundary = b /\ h.app = "login"
      BY <1>b, <2>2, Zenon DEF GateFields
    <3>2. b \in Boundaries
      BY <1>0, <2>2, <2>4, FoundIsEnrolled, Zenon DEF Registry
    <3> HIDE DEF h, b
    <3>3. gate' = [h EXCEPT !.at = "password"]
      BY <2>1, <2>2, <2>4, <3>1, Zenon DEF run_login_for
    <3>4. gate'.app = "login" /\ gate'.at = "password" /\ gate'.ps = profiles /\ gate'.boundary = b
      BY <3>1, <3>3, Zenon DEF GateFields
    <3> QED
      BY <1>c, <2>1, <3>2, <3>4, NothingShown, Zenon DEF Places
  <2> QED
    BY <2>3, <2>4, Zenon
<1>7. ASSUME NEW pw \in Passwords, LoginPassword(pw)
      PROVE  Rest
  <2>1. UNCHANGED <<profiles, records, owed, owedDisk>>
    BY <1>7, Zenon DEF LoginPassword
  <2> QED
    BY <1>7, <1>c, <2>1, PromptJudges, Zenon
<1>8. ASSUME LoginAborted PROVE Rest
  <2>1. /\ gate.app = "login" /\ gate' = [gate EXCEPT !.at = "done", !.result = "Aborted"]
        /\ shown' = NoSecret /\ UNCHANGED <<profiles, records, owed, owedDisk>>
    BY <1>8, Zenon DEF LoginAborted
  <2>2. gate'.app = "login" /\ gate'.at = "done" /\ gate'.ps = gate.ps
    BY <1>b, <2>1, Zenon DEF GateFields
  <2> QED
    BY <1>0, <1>c, <2>1, <2>2, NothingShown, Zenon DEF Places
<1>9. ASSUME NEW name \in ProfileNames, NEW readable \in BOOLEAN, LoginApp(name, readable)
      PROVE  Rest
  <2> DEFINE ps == enroll_password_record(<<>>, PROFILE_BOUNDARY, name, records[name])
             h == [NoGate EXCEPT !.app = "capp", !.name = name, !.boundary = PROFILE_BOUNDARY,
                                 !.limit = MAX_ATTEMPTS, !.left = MAX_ATTEMPTS, !.ps = ps]
             g == [NoGate EXCEPT !.app = "capp", !.at = "create", !.name = name]
  <2>1. /\ UNCHANGED <<profiles, records, owed, owedDisk>>
        /\ \/ StartGate(run_login_for(h)) /\ name \in DOMAIN records
           \/ StartGate(g)
    BY <1>9, Zenon DEF LoginApp, load_record
  <2>2. CASE StartGate(run_login_for(h)) /\ name \in DOMAIN records
    <3>1. /\ DOMAIN h = GateFields /\ h.boundary = PROFILE_BOUNDARY /\ h.ps = ps
          /\ h.app = "capp" /\ h.name = name
      BY NoGateFields, Zenon DEF GateFields
    <3> DEFINE k == [h EXCEPT !.at = "password"]
    <3> HIDE DEF h
    <3>2. run_login_for(h) = k
      BY <3>1, RecordGatePrompts, Zenon
    <3>3. /\ k.at = "password" /\ k.app = "capp" /\ k.name = name /\ k.boundary = PROFILE_BOUNDARY
          /\ k.ps = ps
      BY <3>1, Zenon DEF GateFields
    <3> HIDE DEF k
    <3> QED
      BY <1>c, <2>1, <2>2, <3>2, <3>3, GateStartsRight, Zenon
  <2>3. CASE StartGate(g)
    <3>1. g.at = "create" /\ g.app = "capp"
      BY NoGateFields, Zenon DEF GateFields
    <3> HIDE DEF g
    <3> QED
      BY <1>c, <2>1, <2>3, <3>1, GateStartsRight, Zenon
  <2> QED
    BY <2>1, <2>2, <2>3, Zenon
<1>10. ASSUME NEW pw1 \in Passwords, NEW pw2 \in Passwords, NEW salt \in Salts,
              NEW entropy \in BOOLEAN, NEW written \in BOOLEAN,
              create_user(pw1, pw2, salt, entropy, written)
       PROVE  Rest
  <2>1. UNCHANGED <<profiles, owed>>
    BY <1>10, Zenon DEF create_user
  <2> QED
    BY <1>0, <1>10, <2>1, RegistryKept, CreatedIsOnDisk, Zenon
<1>11. ASSUME NEW b \in Boundaries, NEW max \in MaxAttempts, PinLock(b, max)
       PROVE  Rest
  <2> DEFINE g == [NoGate EXCEPT !.app = "lock", !.at = "Locked", !.ps = profiles,
                                 !.boundary = b, !.limit = max, !.left = max]
  <2>1. StartGate(g) /\ UNCHANGED <<profiles, records, owed, owedDisk>>
    BY <1>11, Zenon DEF PinLock
  <2>2. g.app = "lock" /\ g.at = "Locked" /\ g.ps = profiles /\ g.boundary = b /\ g.entered = <<>>
    BY Zenon DEF NoGate
  <2> HIDE DEF g
  <2> QED
    BY <1>c, <2>1, <2>2, GateStartsRight, Zenon
<1>12. ASSUME NEW t \in Taps, on_gesture(t[1], t[2])
       PROVE  Rest
  <2>1. UNCHANGED <<profiles, records, owed, owedDisk>>
    BY <1>12, Zenon DEF on_gesture
  <2>2. t[1] \in Nat /\ t[2] \in Nat
    BY DEF Taps
  <2> QED
    BY <1>12, <1>c, <2>1, <2>2, PadJudges, Zenon
<1>13. ASSUME Leave PROVE Rest
  <2>1. StartGate(NoGate) /\ UNCHANGED <<profiles, records, owed, owedDisk>>
    BY <1>13, Zenon DEF Leave
  <2> QED
    BY <1>c, <2>1, NoGateFields, GateStartsRight, Zenon
<1>14. ASSUME UNCHANGED sessionVars PROVE Rest
  BY <1>0, <1>14, <1>c, Zenon DEF sessionVars, Places, OpensForTheEnrolled
<1>15. Rest
  BY <1>1, <1>2, <1>3, <1>4, <1>5, <1>6, <1>7, <1>8, <1>9, <1>10, <1>11, <1>12, <1>13, <1>14, Zenon
  DEF SessionNext
<1> QED
  BY <1>15, <1>a, Zenon DEF OpenInv

(* A session opens exactly for the credential that was last enrolled, at   *)
(* the direct call, at the prompts, from the file and on the pad, for any  *)
(* registry, passwords, keys and limits (authenticate, run_login_for,      *)
(* create_user, press).                                                    *)
THEOREM OpensForTheEnrolledHolds == SessionSpec => []OpensForTheEnrolled
<1>1. OpenInv => OpensForTheEnrolled
  BY Zenon DEF OpenInv
<1> QED
  BY <1>1, OpenInitially, OpenStep, PTL DEF SessionSpec
==============================================================================
