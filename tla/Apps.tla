-------------------------------- MODULE Apps --------------------------------
(***************************************************************************)
(* The file-keeping applications and the volume under them: the shell, the *)
(* editor, the key-value store, the package manager, the app store Trove,  *)
(* contacts and the calendar, on either of the two file systems they are   *)
(* written for.  "sdk" is the flat map of cibos-sdk/src/fs.rs with the     *)
(* Live and Persistent volumes of storage/src/lib.rs; "ring3" is the       *)
(* kernel's directory tree seen through the system calls, with the shell   *)
(* program of kernel-image/apps/shell-rs.                                  *)
(*                                                                         *)
(* A path is the sequence of its names.  File contents are sequences of    *)
(* numbers, NL being the line feed.  A digest is the hashed contents.      *)
(***************************************************************************)
EXTENDS Integers, Sequences, FiniteSets, SequencesExt

CONSTANTS Packages,    \* the catalogue: [name, version, contents, declared]
          UserPaths,   \* paths the user types
          UserData,    \* texts the user types, without line feeds
          Dates, Names,
          Room,        \* bound: files and directories of a kernel file system
          MaxLines     \* bound: lines of the editor, events of a date

\* The user leaves the installed files to the installers.
ASSUME UserPathsAssumption == \A p \in UserPaths : p[1] # "apps"

VARIABLES back,     \* which of the two file systems this machine has
          power,    \* "off" or "on"
          mode,     \* PersistenceMode of the running volume
          app,      \* the application in use beside the shell
          files, dirs,
          image,    \* the persistence partition
          buffer,   \* the editor's lines
          kv,       \* the key-value store
          said,     \* what the last command reported
          saved,    \* history: the files of the last commit of a Persistent volume
          texts     \* history: the lines last stored under a path by an app

appVars == <<back, power, mode, app, files, dirs, image, buffer, kv, said, saved, texts>>

NL == 10
Apps_ == {"store", "editor", "kv", "contacts", "calendar"}
Said(what, name) == [what |-> what, name |-> name]
Quiet == Said("", "")

-----------------------------------------------------------------------------
(* The two file systems                                                    *)

Put(fs, p, d) == [q \in DOMAIN fs \cup {p} |-> IF q = p THEN d ELSE fs[q]]
Drop(fs, p) == [q \in DOMAIN fs \ {p} |-> fs[q]]

\* A name with whitespace or a quote in it stands for itself: " ".
is_valid_path(p) == p # <<>> /\ " " \notin {p[i] : i \in DOMAIN p}

\* External on "ring3": the contract of the kernel's file system (module Fs).
CanWrite(fs, ds, p) ==
  IF back = "sdk" THEN is_valid_path(p)
  ELSE /\ Front(p) \in ds /\ p \notin ds
       /\ p \in DOMAIN fs \/ Cardinality(DOMAIN fs \cup ds) < Room

write(fs, ds, p, d) == IF CanWrite(fs, ds, p) THEN Put(fs, p, d) ELSE fs

\* A no-op that succeeds on the flat map.
make_dir(fs, ds, p) ==
  IF /\ back = "ring3" /\ Front(p) \in ds /\ p \notin ds \cup DOMAIN fs
     /\ Cardinality(DOMAIN fs \cup ds) < Room
  THEN ds \cup {p} ELSE ds

exists(p) == p \in DOMAIN files \cup dirs

\* The immediate children of a directory, each once.
list(dir) ==
  {q[Len(dir) + 1] : q \in {r \in DOMAIN files \cup dirs :
                              Len(r) > Len(dir) /\ SubSeq(r, 1, Len(dir)) = dir}}

-----------------------------------------------------------------------------
(* The partition image: length-prefixed records, one after the other       *)

Num(n) == [n |-> n]
Value(cell) == IF "n" \in DOMAIN cell THEN cell.n ELSE 99

Record(p, d) == <<Num(Len(p))>> \o [i \in DOMAIN p |-> [s |-> p[i]]]
                \o <<Num(Len(d))>> \o [i \in DOMAIN d |-> Num(d[i])]

serialize_entries(fs) ==
  LET ps == SetToSeq(DOMAIN fs) IN FlattenSeq([k \in DOMAIN ps |-> Record(ps[k], fs[ps[k]])])

\* Reading stops at the first record that does not fit.
RecordAt_NeedsData(blob, i) ==
  LET plen == Value(blob[i])
      dlen == Value(blob[i + plen + 1]) IN
  IF plen = 0 \/ i + plen + 1 >= Len(blob) THEN <<>>
  ELSE IF i + plen + 1 + dlen > Len(blob) THEN <<>>
  ELSE <<[k \in 1 .. plen |-> blob[i + k].s],
         [k \in 1 .. dlen |-> Value(blob[i + plen + 1 + k])]>>

RecordAt(blob, i) ==
  LET plen == Value(blob[i])
      dlen == Value(blob[i + plen + 1]) IN
  IF plen = 0 \/ i + plen + 1 > Len(blob) THEN <<>>
  ELSE IF i + plen + 1 + dlen > Len(blob) THEN <<>>
  ELSE <<[k \in 1 .. plen |-> blob[i + k].s],
         [k \in 1 .. dlen |-> Value(blob[i + plen + 1 + k])]>>

deserialize_entries(blob) ==
  LET read[i \in 1 .. Len(blob) + 1] ==
        IF i > Len(blob) THEN <<>>
        ELSE LET r == RecordAt(blob, i) IN
             IF r = <<>> THEN <<>>
             ELSE <<r>> \o read[i + Len(r[1]) + Len(r[2]) + 2]
  IN  read[1]

Restored(blob) ==
  FoldSeq(LAMBDA r, fs : IF is_valid_path(r[1]) THEN Put(fs, r[1], r[2]) ELSE fs,
          <<>>, deserialize_entries(blob))

-----------------------------------------------------------------------------
(* Sessions                                                                *)

Welcome == CHOOSE p \in Packages : p.contents = p.declared

AppsInit ==
  /\ back \in {"sdk", "ring3"}
  /\ power = "off" /\ mode = "Live" /\ app = "store"
  /\ files = IF back = "sdk" THEN <<>>
             ELSE [p \in {<<"repo", Welcome.name>>} |-> Welcome.contents]
  /\ dirs = IF back = "sdk" THEN {} ELSE {<<>>, <<"apps">>, <<"repo">>}
  /\ image = <<>> /\ saved = <<>> /\ buffer = <<>> /\ kv = <<>>
  /\ said = Quiet /\ texts = <<>>

\* A new run: the volume is loaded, and every program starts empty.
boot(m, a) ==
  /\ power = "off" /\ power' = "on"
  /\ back = "ring3" => m = "Persistent" /\ a \in {"store", "editor", "kv"}
  /\ mode' = m /\ app' = a
  /\ files' = IF back = "ring3" THEN files
              ELSE IF m = "Persistent" THEN Restored(image) ELSE <<>>
  /\ buffer' = <<>> /\ kv' = <<>> /\ said' = Said("booted", "")
  /\ texts' = <<>>
  /\ UNCHANGED <<back, dirs, image, saved>>

\* Only a Persistent volume kept its reference to the partition.
Committed(m, fs, img) == IF m = "Persistent" THEN serialize_entries(fs) ELSE img

sync ==
  /\ power = "on" /\ back = "sdk"
  /\ image' = Committed(mode, files, image)
  /\ saved' = IF mode = "Persistent" THEN files ELSE saved
  /\ said' = Quiet
  /\ UNCHANGED <<back, power, mode, app, files, dirs, buffer, kv, texts>>

\* shutdown commits, then overwrites and deletes every file of the map.
shutdown ==
  /\ power = "on" /\ back = "sdk" /\ power' = "off"
  /\ image' = Committed(mode, files, image)
  /\ saved' = IF mode = "Persistent" THEN files ELSE saved
  /\ files' = <<>>
  /\ said' = Quiet
  /\ buffer' = <<>> /\ kv' = <<>> /\ texts' = <<>>
  /\ UNCHANGED <<back, mode, app, dirs>>

\* Power is lost, or the ring-3 shell leaves: memory goes, media stay.
Stop ==
  /\ power = "on" /\ power' = "off"
  /\ files' = IF back = "sdk" THEN <<>> ELSE files
  /\ said' = Quiet
  /\ buffer' = <<>> /\ kv' = <<>> /\ texts' = <<>>
  /\ UNCHANGED <<back, mode, app, dirs, image, saved>>

-----------------------------------------------------------------------------
(* Commands                                                                *)

\* What every command leaves alone.
InApp(a) == power = "on" /\ app = a /\ UNCHANGED <<back, power, mode, app, image, saved>>
FilesOnly == UNCHANGED <<dirs, buffer, kv>>
MemoryOnly == UNCHANGED <<files, dirs, texts>>

\* shell: write <path> <text...>
shell_write(p, d) ==
  /\ power = "on"
  /\ files' = write(files, dirs, p, d)
  /\ said' = Quiet
  /\ texts' = Drop(texts, p)
  /\ UNCHANGED <<back, power, mode, app, image, saved>> /\ FilesOnly

\* shell: rm <path>
shell_rm(p) ==
  /\ power = "on"
  /\ files' = Drop(files, p)
  /\ said' = Quiet
  /\ texts' = Drop(texts, p)
  /\ UNCHANGED <<back, power, mode, app, image, saved>> /\ FilesOnly

\* The shell's other commands read, or run a registered program.
dispatch(p) == shell_rm(p) \/ \E d \in UserData : shell_write(p, d)

verify(pkg) == pkg.contents = pkg.declared

\* The package manager of the host: verify and install check the catalogue's
\* own bytes and report; nothing is written.
catalog_command(pkg) ==
  /\ InApp("store") /\ back = "sdk"
  /\ said' = Said(IF verify(pkg) THEN "verified" ELSE "refused", pkg.name)
  /\ UNCHANGED <<files, texts>> /\ FilesOnly

\* pkg install <name>: the repository's bytes are verified before any write.
install_from_repo_Unverified(pkg) ==
  LET from == <<"repo", pkg.name>>  dest == <<"apps", pkg.name>>
      good == from \in DOMAIN files IN
  /\ InApp("store")
  /\ files' = IF good THEN write(files, dirs, dest, files[from]) ELSE files
  /\ said' = Said(IF from \notin DOMAIN files THEN "NotInRepo"
                  ELSE IF CanWrite(files, dirs, dest) THEN "Installed" ELSE "WriteFailed", "")
  /\ UNCHANGED texts /\ FilesOnly

install_from_repo(pkg) ==
  LET from == <<"repo", pkg.name>>  dest == <<"apps", pkg.name>>
      good == from \in DOMAIN files /\ files[from] = pkg.declared
      done == good /\ CanWrite(files, dirs, dest) IN
  /\ InApp("store")
  /\ files' = IF good THEN write(files, dirs, dest, files[from]) ELSE files
  /\ said' = Said(IF from \notin DOMAIN files THEN "NotInRepo"
                  ELSE IF ~good THEN "IntegrityFailed"
                  ELSE IF done THEN "Installed" ELSE "WriteFailed", "")
  /\ UNCHANGED texts /\ FilesOnly

meta_key(name) == <<"apps", name, "meta">>
bin_key(name) == <<"apps", name, "bin">>
is_installed(name) == exists(meta_key(name))

\* Every name under /apps, whatever put it there.
installed == list(<<"apps">>)

\* store install <name>: the answers of mkdir and write are dropped.
install(pkg) ==
  LET stop == is_installed(pkg.name) \/ ~verify(pkg)
      ds == make_dir(files, make_dir(files, dirs, <<"apps">>), <<"apps", pkg.name>>)
      fs == write(files, ds, bin_key(pkg.name), pkg.contents) IN
  /\ InApp("store")
  /\ dirs' = IF stop THEN dirs ELSE ds
  /\ files' = IF stop THEN files ELSE write(fs, ds, meta_key(pkg.name), pkg.version)
  /\ said' = IF is_installed(pkg.name) THEN Said("AlreadyInstalled", "")
             ELSE IF stop THEN Said("VerificationFailed", "")
             ELSE Said("store installed", pkg.name)
  /\ UNCHANGED <<buffer, kv, texts>>

\* store remove <name>: the two files go, a directory stays.
remove(name) ==
  /\ InApp("store")
  /\ files' = Drop(Drop(files, bin_key(name)), meta_key(name))
  /\ said' = Said(IF is_installed(name) THEN "removed" ELSE "not installed", "")
  /\ UNCHANGED texts /\ FilesOnly

\* The store's other commands read the catalogue and the files.
store_command(pkg) == install(pkg) \/ remove(pkg.name)

-----------------------------------------------------------------------------
(* The editor, the key-value store, contacts and the calendar              *)

Edited(lines) ==
  InApp("editor") /\ buffer' = lines /\ said' = Quiet /\ UNCHANGED kv /\ MemoryOnly

edit_append(line) == Len(buffer) < MaxLines /\ Edited(Append(buffer, line))

\* Line numbers are from one; insert may also go after the last line.
edit_insert(n, line) ==
  /\ Len(buffer) < MaxLines
  /\ Edited(IF n = 0 \/ n > Len(buffer) + 1 THEN buffer ELSE InsertAt(buffer, n, line))

edit_delete(n) == Edited(IF n = 0 \/ n > Len(buffer) THEN buffer ELSE RemoveAt(buffer, n))

edit_clear == Edited(<<>>)

\* join("\n") and split('\n'), an empty text being no line at all.
join(lines) == FlattenSeq([k \in DOMAIN lines |-> IF k = 1 THEN lines[k] ELSE <<NL>> \o lines[k]])

lines_of(text) ==
  LET cuts == {0, Len(text) + 1} \cup {i \in DOMAIN text : text[i] = NL}
      After(i) == CHOOSE j \in cuts : j > i /\ \A k \in cuts : k > i => j <= k
      starts == SetToSortSeq(cuts \ {Len(text) + 1}, <)
  IN  IF text = <<>> THEN <<>>
      ELSE [k \in DOMAIN starts |-> SubSeq(text, starts[k] + 1, After(starts[k]) - 1)]

\* The storage commands exist only where the host links the editor.
edit_save(p) ==
  /\ InApp("editor") /\ back = "sdk"
  /\ files' = write(files, dirs, p, join(buffer))
  /\ said' = Quiet
  /\ texts' = IF CanWrite(files, dirs, p) THEN Put(texts, p, buffer) ELSE texts
  /\ FilesOnly

edit_load(p) ==
  /\ InApp("editor") /\ back = "sdk"
  /\ buffer' = IF p \in DOMAIN files THEN lines_of(files[p]) ELSE buffer
  /\ said' = IF p \in DOMAIN files THEN [what |-> "loaded", path |-> p] ELSE Quiet
  /\ UNCHANGED kv /\ MemoryOnly

\* set without a value is refused; the words of a value are joined by one blank.
kv_set(k, v) ==
  InApp("kv") /\ kv' = (IF v = <<>> THEN kv ELSE Put(kv, k, v)) /\ said' = Quiet
  /\ UNCHANGED buffer /\ MemoryOnly
kv_del(k) == InApp("kv") /\ kv' = Drop(kv, k) /\ said' = Quiet /\ UNCHANGED buffer /\ MemoryOnly
kv_clear == InApp("kv") /\ kv' = <<>> /\ said' = Quiet /\ UNCHANGED buffer /\ MemoryOnly

contacts_add(name, d) ==
  /\ InApp("contacts")
  /\ files' = IF name = " " THEN files ELSE write(files, dirs, <<"contacts", name>>, d)
  /\ said' = Quiet /\ UNCHANGED texts /\ FilesOnly

contacts_remove(name) ==
  /\ InApp("contacts")
  /\ files' = Drop(files, <<"contacts", name>>)
  /\ said' = Quiet /\ UNCHANGED texts /\ FilesOnly

events(date) ==
  LET p == <<"calendar", date>> IN IF p \in DOMAIN files THEN lines_of(files[p]) ELSE <<>>

\* The events of a date are read, extended and written back as one text.
add_event(date, e) ==
  LET p == <<"calendar", date>>
      told == IF p \in DOMAIN texts THEN texts[p] ELSE events(date) IN
  /\ InApp("calendar") /\ Len(told) < MaxLines
  /\ files' = write(files, dirs, p, join(Append(events(date), e)))
  /\ texts' = Put(texts, p, Append(told, e))
  /\ said' = Quiet /\ FilesOnly

clear_date(date) ==
  LET p == <<"calendar", date>> IN
  /\ InApp("calendar")
  /\ files' = Drop(files, p) /\ texts' = Drop(texts, p)
  /\ said' = Quiet /\ FilesOnly

-----------------------------------------------------------------------------
AppsNext ==
  \/ \E m \in {"Live", "Persistent"}, a \in Apps_ : boot(m, a)
  \/ sync \/ shutdown \/ Stop
  \/ \E p \in UserPaths : dispatch(p) \/ edit_save(p) \/ edit_load(p)
  \/ \E pkg \in Packages : catalog_command(pkg) \/ install_from_repo(pkg) \/ store_command(pkg)
  \/ \E line \in UserData : edit_append(line) \/ \E n \in 0 .. MaxLines : edit_insert(n, line)
  \/ \E n \in 0 .. MaxLines : edit_delete(n)
  \/ edit_clear
  \/ \E k \in Names : kv_del(k) \/ \E v \in UserData : kv_set(k, v)
  \/ kv_clear
  \/ \E n \in Names : contacts_remove(n) \/ \E d \in UserData : contacts_add(n, d)
  \/ \E t \in Dates : clear_date(t) \/ \E e \in UserData : add_event(t, e)

AppsSpec == AppsInit /\ [][AppsNext]_appVars

-----------------------------------------------------------------------------
(* Properties                                                              *)

\* What survives a session, whichever way it ends.  The partition always holds
\* exactly the files of the last commit of a Persistent volume, through Live
\* sessions and power losses in between; a Persistent boot starts from them, a
\* Live boot from nothing; no file outlives the session in memory.
SessionsRestore ==
  back = "sdk" =>
    /\ Restored(image) = saved
    /\ power = "off" => files = <<>>
    /\ said.what = "booted" => files = (IF mode = "Persistent" THEN saved ELSE <<>>)

\* package-manager: "unverified bytes never reach the install destination".
\* Whatever the user puts into the repository, a file under /apps is the package
\* its catalogue entry names.
GenuineApps ==
  \A pkg \in Packages :
    \A p \in {<<"apps", pkg.name>>, bin_key(pkg.name)} :
      p \in DOMAIN files => files[p] = pkg.declared

\* The editor loads the lines it saved and the calendar lists the events it was
\* given, with one exception: a text of one empty line is read as no line, so
\* empty events before the first one with a text are forgotten.
TextsComeBack ==
  LET Kept(ls) == IF ls = <<<<>>>> THEN <<>> ELSE ls IN
  /\ \A p \in DOMAIN texts \cap DOMAIN files :
       p[1] # "calendar" => lines_of(files[p]) = Kept(texts[p])
  /\ said.what = "loaded" /\ said.path \in DOMAIN texts => buffer = Kept(texts[said.path])
  /\ \A t \in Dates :
       LET p == <<"calendar", t>> IN
       p \in DOMAIN texts =>
         \E n \in 0 .. Len(texts[p]) :
           /\ \A i \in 1 .. n : texts[p][i] = <<>>
           /\ events(t) = SubSeq(texts[p], n + 1, Len(texts[p]))
           /\ events(t) # <<>> => Head(events(t)) # <<>>

\* What an application or the volume stored comes back: whole files across
\* sessions, and texts through the applications that read them.
FilesComeBack == SessionsRestore /\ TextsComeBack
=============================================================================
