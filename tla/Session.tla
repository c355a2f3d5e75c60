------------------------------ MODULE Session ------------------------------
(***************************************************************************)
(* Who may open a session: the profile registry (accounts/src/lib.rs), the *)
(* shared login gate (login/src/lib.rs), the ring-3 login program that     *)
(* keeps its profiles on disk (kernel-image/apps/login-rs/src/main.rs) and *)
(* the PIN pad of the lock screen (applications/lockscreen/src/lib.rs).    *)
(*                                                                         *)
(* A password is a sequence of characters; Blank is the only whitespace.   *)
(* A digest is the hashed bytes themselves: salts have one fixed length,   *)
(* so salt and password are told apart as in the code.                     *)
(***************************************************************************)
EXTENDS Integers, Sequences, FiniteSets

CONSTANTS ProfileNames,   \* profile names
          Boundaries,     \* boundary numbers of the host registry
          Passwords,      \* what may be typed at a password prompt
          Keys,           \* key-device key pairs
          Salts,
          MaxAttempts,    \* the limits a login or a lock is started with
          MaxEnrolled     \* bound: enrolments before a gate is started

ASSUME SessionAssumption ==
  /\ Boundaries \subseteq Nat \ {0} /\ MaxAttempts \subseteq Nat
  /\ Passwords \subseteq Seq(STRING)

VARIABLES profiles,   \* Accounts::profiles of the running program
          records,    \* /etc/passwd.d of the ring-3 program
          gate,       \* the gate that is running
          owed,       \* history: what each boundary was last enrolled with
          owedDisk,   \* history: the password each profile was created with
          shown,      \* history: the credential the last step presented
          typed,      \* history: the labels under the taps since the last clear
          misses      \* history: attempts this gate has used up

sessionVars == <<profiles, records, gate, owed, owedDisk, shown, typed, misses>>

Blank == " "
PROFILE_BOUNDARY == 1
MAX_ATTEMPTS == 3
KEYPAD_TOP == 2
BUTTON_WIDTH == 4

NoGate == [app |-> "none", at |-> "done", ps |-> <<>>, boundary |-> 0, limit |-> 0,
           left |-> 0, name |-> "", entered |-> <<>>, result |-> "none"]
NoSecret == [method |-> "none"]

-----------------------------------------------------------------------------
(* accounts and credential                                                 *)

hash_password(salt, password) == [sha |-> <<salt>> \o password]

verify_password(salt, stored, password) == stored = hash_password(salt, password)

Password(salt, password) ==
  [method |-> "Password", salt |-> salt, hash |-> hash_password(salt, password)]
KeyDevice(key) == [method |-> "PhysicalKeyDevice", public_key |-> key]
Both(salt, password, key) ==
  [method |-> "PasswordAndKeyDevice", salt |-> salt, public_key |-> key,
   hash |-> hash_password(salt, password)]

\* A later enrolment of a boundary replaces the earlier one.
Insert(ps, b, name, verifier) ==
  [c \in DOMAIN ps \cup {b} |-> IF c = b THEN [name |-> name, verifier |-> verifier] ELSE ps[c]]

\* The registry is walked in the order of the boundary numbers.
find_by_name(ps, name) ==
  LET hits == {b \in DOMAIN ps : ps[b].name = name} IN
  IF hits = {} THEN 0 ELSE CHOOSE b \in hits : \A c \in hits : b <= c

method_for(ps, b) == IF b \in DOMAIN ps THEN ps[b].verifier.method ELSE "none"

\* External: a signature verifies against the key that made it, over the same challenge.
check_key_device(key, challenge, signature) == signature = [by |-> key, over |-> challenge]

authenticate_EitherFactor(ps, b, cred) ==
  IF b \notin DOMAIN ps THEN "UnknownProfile"
  ELSE LET v == ps[b].verifier
           good == CASE cred.method = "Password" /\ v.method # "PhysicalKeyDevice" ->
                          verify_password(v.salt, v.hash, cred.password)
                     [] cred.method # v.method -> FALSE
                     [] OTHER -> check_key_device(v.public_key, cred.challenge, cred.signature)
       IN  IF good THEN "Success" ELSE "BadSecret"

authenticate(ps, b, cred) ==
  IF b \notin DOMAIN ps THEN "UnknownProfile"
  ELSE LET v == ps[b].verifier
           good ==
             /\ cred.method = v.method
             /\ v.method # "PhysicalKeyDevice" => verify_password(v.salt, v.hash, cred.password)
             /\ v.method # "Password" =>
                  check_key_device(v.public_key, cred.challenge, cred.signature)
       IN  IF good THEN "Success" ELSE "BadSecret"

open_session(ps, b, cred) == authenticate(ps, b, cred) = "Success"

ByPassword(password) == [method |-> "Password", password |-> password]

\* The record a password profile is stored as; a key-device profile has none.
password_record_for(ps, b) == [salt |-> ps[b].verifier.salt, hash |-> ps[b].verifier.hash]
enroll_password_record(ps, b, name, record) ==
  Insert(ps, b, name, [method |-> "Password", salt |-> record.salt, hash |-> record.hash])

-----------------------------------------------------------------------------
SessionInit ==
  /\ profiles = <<>> /\ records = <<>> /\ gate = NoGate
  /\ owed = [b \in Boundaries |-> NoSecret] /\ owedDisk = <<>>
  /\ shown = NoSecret /\ typed = <<>> /\ misses = 0

Enroll(b, name, verifier, secret) ==
  /\ gate.at = "done" /\ gate.app = "none"
  /\ Cardinality(DOMAIN profiles \ {b}) < MaxEnrolled
  /\ profiles' = Insert(profiles, b, name, verifier)
  /\ owed' = [owed EXCEPT ![b] = secret]
  /\ shown' = NoSecret
  /\ UNCHANGED <<records, gate, owedDisk, typed, misses>>

enroll_password(b, name, salt, pw) ==
  Enroll(b, name, Password(salt, pw), ByPassword(pw))

enroll_key_device(b, name, key) ==
  Enroll(b, name, KeyDevice(key), [method |-> "PhysicalKeyDevice", key |-> key])

enroll_password_and_key_device(b, name, salt, pw, key) ==
  Enroll(b, name, Both(salt, pw, key),
         [method |-> "PasswordAndKeyDevice", password |-> pw, key |-> key])

\* A direct call of open_session, with any of the three kinds of credential.
OpenSession(b, cred) ==
  /\ gate.at = "done" /\ gate.app = "none"
  /\ shown' = cred
  /\ gate' = [NoGate EXCEPT !.app = "call", !.boundary = b, !.limit = 1,
                            !.result = authenticate(profiles, b, cred)]
  /\ misses' = 0 /\ typed' = <<>>
  /\ UNCHANGED <<profiles, records, owed, owedDisk>>

-----------------------------------------------------------------------------
(* run_login and run_login_for                                             *)

trim_end(text) ==
  LET ends == {n \in 0 .. Len(text) : \A i \in n + 1 .. Len(text) : text[i] = Blank}
  IN  SubSeq(text, 1, CHOOSE n \in ends : \A m \in ends : n <= m)

\* The next round of either loop: `remaining` counts down and ends in Denied.
NextAttempt(g) ==
  IF g.left > 1 THEN [g EXCEPT !.left = @ - 1]
  ELSE [g EXCEPT !.left = 0, !.at = "done", !.result = "Denied"]

\* The per-profile gate turns a key-device profile away before any prompt.
run_login_for(g) ==
  IF method_for(g.ps, g.boundary) = "PhysicalKeyDevice"
  THEN [g EXCEPT !.at = "done", !.result = "Denied"]
  ELSE [g EXCEPT !.at = "password"]

StartGate(g) == gate' = g /\ misses' = 0 /\ typed' = <<>> /\ shown' = NoSecret

run_login(max) ==
  /\ gate.app = "none"
  /\ StartGate([NoGate EXCEPT !.app = "login", !.ps = profiles, !.limit = max, !.left = max,
                          !.at = IF max = 0 THEN "done" ELSE "name",
                          !.result = IF max = 0 THEN "Denied" ELSE "none"])
  /\ UNCHANGED <<profiles, records, owed, owedDisk>>

\* An unknown name, or one that needs a key device, uses the attempt up.
LoginName_FullRetry(name) ==
  LET b == find_by_name(gate.ps, name)
      skip == b = 0 \/ method_for(gate.ps, b) = "PhysicalKeyDevice" IN
  /\ gate.at = "name"
  /\ gate' = IF skip THEN NextAttempt(gate)
             ELSE run_login_for([gate EXCEPT !.boundary = b, !.left = gate.limit])
  /\ misses' = IF skip THEN misses + 1 ELSE misses
  /\ shown' = NoSecret
  /\ UNCHANGED <<profiles, records, owed, owedDisk, typed>>

LoginName(name) ==
  LET b == find_by_name(gate.ps, name)
      skip == b = 0 \/ method_for(gate.ps, b) = "PhysicalKeyDevice" IN
  /\ gate.at = "name"
  /\ gate' = IF skip THEN NextAttempt(gate)
             ELSE run_login_for([gate EXCEPT !.boundary = b])
  /\ misses' = IF skip THEN misses + 1 ELSE misses
  /\ shown' = NoSecret
  /\ UNCHANGED <<profiles, records, owed, owedDisk, typed>>

LoginPassword(pw) ==
  LET ok == open_session(gate.ps, gate.boundary, ByPassword(trim_end(pw))) IN
  /\ gate.at = "password"
  /\ gate' = IF ok THEN [gate EXCEPT !.at = "done", !.result = "Granted"]
             ELSE NextAttempt(gate)
  /\ misses' = IF ok THEN misses ELSE misses + 1
  /\ shown' = ByPassword(pw)
  /\ UNCHANGED <<profiles, records, owed, owedDisk, typed>>

\* The console reached its end of input.
LoginAborted ==
  /\ gate.app = "login" /\ gate.at \in {"name", "password"}
  /\ gate' = [gate EXCEPT !.at = "done", !.result = "Aborted"]
  /\ shown' = NoSecret
  /\ UNCHANGED <<profiles, records, owed, owedDisk, typed, misses>>

-----------------------------------------------------------------------------
(* The ring-3 login program                                                *)

\* The file is read whole or not at all: a missing file, a device error and a
\* short record all come out as None.
load_record(name, readable) == name \in DOMAIN records /\ readable

LoginApp(name, readable) ==
  /\ gate.app = "none"
  /\ IF load_record(name, readable)
     THEN StartGate(run_login_for(
            [NoGate EXCEPT !.app = "capp", !.name = name, !.boundary = PROFILE_BOUNDARY,
                           !.limit = MAX_ATTEMPTS, !.left = MAX_ATTEMPTS,
                           !.ps = enroll_password_record(<<>>, PROFILE_BOUNDARY, name,
                                                         records[name])]))
     ELSE StartGate([NoGate EXCEPT !.app = "capp", !.at = "create", !.name = name])
  /\ UNCHANGED <<profiles, records, owed, owedDisk>>

\* `entropy` and `written` are the outcomes of the two system calls.
create_user(pw1, pw2, salt, entropy, written) ==
  LET made == pw1 = pw2 /\ pw1 # <<>> /\ entropy /\ written
      acc  == Insert(<<>>, PROFILE_BOUNDARY, gate.name, Password(salt, pw1)) IN
  /\ gate.at = "create"
  /\ gate' = [gate EXCEPT !.at = "done", !.result = IF made THEN "Created" ELSE "Failed"]
  /\ IF made
     THEN /\ records' = [n \in DOMAIN records \cup {gate.name} |->
                          IF n = gate.name THEN password_record_for(acc, PROFILE_BOUNDARY)
                          ELSE records[n]]
          /\ owedDisk' = [n \in DOMAIN owedDisk \cup {gate.name} |->
                           IF n = gate.name THEN pw1 ELSE owedDisk[n]]
     ELSE UNCHANGED <<records, owedDisk>>
  /\ UNCHANGED <<profiles, owed, shown, typed, misses>>

-----------------------------------------------------------------------------
(* The PIN pad                                                             *)

Labels == <<<<"1", "2", "3">>, <<"4", "5", "6">>, <<"7", "8", "9">>, <<"C", "0", "E">>>>
Digits == [i \in 0 .. 9 |-> <<"0", "1", "2", "3", "4", "5", "6", "7", "8", "9">>[i + 1]]

\* What render draws in the button that covers a cell.
LabelAt(x, y) == Labels[y - KEYPAD_TOP + 1][x \div BUTTON_WIDTH + 1]

button_at(x, y) ==
  LET row == y - KEYPAD_TOP  col == x \div BUTTON_WIDTH IN
  IF y < KEYPAD_TOP \/ row > 3 \/ col > 2 THEN "none"
  ELSE IF row < 3 THEN Digits[row * 3 + col + 1]
  ELSE <<"C", "0", "E">>[col + 1]

PinLock(b, max) ==
  /\ gate.app = "none"
  /\ StartGate([NoGate EXCEPT !.app = "lock", !.at = "Locked", !.ps = profiles,
                          !.boundary = b, !.limit = max, !.left = max])
  /\ UNCHANGED <<profiles, records, owed, owedDisk>>

\* The loop leaves the application when press answers true.
press(key) ==
  CASE key = "C" -> [gate EXCEPT !.entered = <<>>]
    [] key = "E" ->
         IF open_session(gate.ps, gate.boundary, ByPassword(gate.entered))
         THEN [gate EXCEPT !.entered = <<>>, !.at = "done", !.result = "Unlocked"]
         ELSE LET left == IF gate.left = 0 THEN 0 ELSE gate.left - 1 IN
              IF left = 0
              THEN [gate EXCEPT !.entered = <<>>, !.left = 0, !.at = "done", !.result = "LockedOut"]
              ELSE [gate EXCEPT !.entered = <<>>, !.left = left, !.at = "Wrong"]
    [] OTHER -> [gate EXCEPT !.entered = Append(@, key), !.at = "Locked"]

on_gesture(x, y) ==
  LET key == button_at(x, y) IN
  /\ gate.app = "lock" /\ gate.at # "done"
  /\ IF key = "none" THEN UNCHANGED <<gate, shown, typed, misses>>
     ELSE /\ gate' = press(key)
          /\ shown' = IF LabelAt(x, y) = "E" THEN ByPassword(typed) ELSE NoSecret
          /\ typed' = IF LabelAt(x, y) \in {"C", "E"} THEN <<>> ELSE Append(typed, LabelAt(x, y))
          /\ misses' = IF key = "E" /\ gate'.result # "Unlocked" THEN misses + 1 ELSE misses
  /\ UNCHANGED <<profiles, records, owed, owedDisk>>

\* The program that ran the gate has its answer and ends.
Leave ==
  /\ gate.at = "done" /\ gate.app # "none"
  /\ StartGate(NoGate)
  /\ UNCHANGED <<profiles, records, owed, owedDisk>>

-----------------------------------------------------------------------------
Credentials ==
  {ByPassword(pw) : pw \in Passwords}
  \cup [method : {"PhysicalKeyDevice"}, challenge : {"c"}, signature : [by : Keys, over : {"c", "d"}]]
  \cup [method : {"PasswordAndKeyDevice"}, password : Passwords,
        challenge : {"c"}, signature : [by : Keys, over : {"c", "d"}]]

\* Taps reach every button and the cells around the pad.
Taps == {<<x, y>> : x \in {0, 5, 11, 12}, y \in {0, 2, 3, 5, 6}}

SessionNext ==
  \/ \E b \in Boundaries, name \in ProfileNames, salt \in Salts, pw \in Passwords :
       enroll_password(b, name, salt, pw)
  \/ \E b \in Boundaries, name \in ProfileNames, key \in Keys : enroll_key_device(b, name, key)
  \/ \E b \in Boundaries, name \in ProfileNames, salt \in Salts, pw \in Passwords, key \in Keys :
       enroll_password_and_key_device(b, name, salt, pw, key)
  \/ \E b \in Boundaries, cred \in Credentials : OpenSession(b, cred)
  \/ \E max \in MaxAttempts : run_login(max)
  \/ \E name \in ProfileNames : LoginName(name)
  \/ \E pw \in Passwords : LoginPassword(pw)
  \/ LoginAborted
  \/ \E name \in ProfileNames, readable \in BOOLEAN : LoginApp(name, readable)
  \/ \E pw1, pw2 \in Passwords, salt \in Salts, entropy, written \in BOOLEAN :
       create_user(pw1, pw2, salt, entropy, written)
  \/ \E b \in Boundaries, max \in MaxAttempts : PinLock(b, max)
  \/ \E t \in Taps : on_gesture(t[1], t[2])
  \/ Leave

SessionSpec == SessionInit /\ [][SessionNext]_sessionVars

-----------------------------------------------------------------------------
(* Properties                                                              *)

\* The credential is the one the profile was enrolled with, every factor of it.
Entitled(secret, cred) ==
  /\ cred.method = secret.method
  /\ "password" \in DOMAIN secret => cred.password = secret.password
  /\ "key" \in DOMAIN secret => cred.signature = [by |-> secret.key, over |-> cred.challenge]

\* The three gates and the direct call agree on one rule.  A session opens
\* exactly for the credential that the last enrolment of the boundary named
\* (both factors where both were enrolled), through a replaced profile, a
\* record written to disk and read back by another run, and digits typed on
\* the pad as render draws it.  The login gate strips trailing whitespace.
OpensForTheEnrolled ==
  shown # NoSecret =>
    CASE gate.app = "call" ->
           (gate.result = "Success") <=> Entitled(owed[gate.boundary], shown)
      [] gate.app = "login" ->
           (gate.result = "Granted")
             <=> Entitled(owed[gate.boundary], ByPassword(trim_end(shown.password)))
      [] gate.app = "capp" ->
           (gate.result = "Granted") <=> owedDisk[gate.name] = trim_end(shown.password)
      [] gate.app = "lock" ->
           (gate.result = "Unlocked") <=> Entitled(owed[gate.boundary], shown)

\* A gate never gives more attempts than it was started with, whichever of its
\* two prompts they are spent at, and never turns the user away with attempts
\* left.  (A lock started with none still takes the first wrong PIN.)
AttemptsAreCounted ==
  LET most == IF gate.app = "lock" /\ gate.limit = 0 THEN 1 ELSE gate.limit IN
  /\ misses <= most
  /\ gate.result \in {"Denied", "LockedOut"} => misses = most
=============================================================================
