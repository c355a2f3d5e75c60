------------------------------ MODULE Syscalls ------------------------------
(***************************************************************************)
(* System calls that move data (cibos-kernel/src/syscall.rs: dispatch, and *)
(* its environment in kernel-image/src/boot.rs), with the application's    *)
(* wrappers of cibos-app.  A call checks its arguments one after another,  *)
(* copies in what it needs, acts, and copies out what it got; the first    *)
(* check that fails is the answer.  The calls on handles and gates without *)
(* user memory are those of module ChannelTable; their arguments are       *)
(* checked here.                                                           *)
(*                                                                         *)
(* A user pointer is null, one whose range wraps around, or the address of *)
(* the application's buffer.  A path is the byte sequence of a name in the *)
(* root directory, or the root itself; lengths are scaled down.            *)
(***************************************************************************)
EXTENDS Integers, Sequences, FiniteSets, FiniteSetsExt, Functions, Folds

CONSTANTS
    MAX_LOG_LEN, MAX_PATH_LEN, MAX_FS_IO_LEN,
    Names,              \* the names applications use, byte sequences
    Data,               \* the byte sequences they write and send
    BufLen,             \* the length of the application's buffer
    MAX_FILE_SIZE,      \* of CIBOSFS
    chan_capacity, max_message_bytes

ASSUME SysAssumption ==
    /\ IsFiniteSet(Names) /\ Names \subseteq Seq(Nat) /\ Data \subseteq Seq(Nat)
    /\ MAX_FS_IO_LEN \in Nat /\ BufLen \in Nat

VARIABLES
    mounted,    \* ROOT_FS is Some
    seeded,     \* KERNEL_RNG is Some
    files,      \* name -> contents, or Dir
    queue,      \* the messages of a channel and of a link
    shut,       \* which of the two are closed
    offered,    \* a channel request waits for the application's decision
    call,       \* the call made last
    ret,        \* what it returned
    logged,     \* the bytes it put on the console
    out,        \* the bytes it left in the application's buffer
    listed      \* the names fs::list returned last

sysVars == <<mounted, seeded, files, queue, shut, offered, call, ret, logged, out, listed>>

(* SyscallError::as_return.                                                *)
OK == 0
NoSuchCall == -1
BadAddress == -2
InvalidArgument == -3
NotPermitted == -4
NotFoundError == -5
IoError == -6
WouldBlock == -7

Pointer == {"null", "wraps", "buffer"}
Root == <<47>>
Newline == 10
Dir == <<-1>>
Paths == Names \cup {Root, <<>>}
Ends == {"channel", "link"}

(* The answer of a series of checks.                                       *)
FirstError(checks) ==
    LET bad == {i \in DOMAIN checks : checks[i] # OK} IN IF bad = {} THEN OK ELSE checks[Min(bad)]
Check(bad, e) == IF bad THEN e ELSE OK

copy_user(ptr, len) ==
    FirstError(<<Check(ptr = "null", BadAddress), Check(ptr = "wraps" /\ len > 0, InvalidArgument)>>)

read_path(ptr, path) ==
    FirstError(<<Check(path = <<>> \/ Len(path) > MAX_PATH_LEN, InvalidArgument), copy_user(ptr, Len(path))>>)

(* The argument block of FsRead, FsWrite and FsList, 32 bytes at `block'.  *)
read_rw_args(a) ==
    FirstError(<<copy_user(a.block, 32), Check(a.buf_len > MAX_FS_IO_LEN, InvalidArgument),
                 read_path(a.path_ptr, a.path)>>)

Cut(bytes, n) == SubSeq(bytes, 1, Min({Len(bytes), n}))

---------------------------------------------------------------------------
(* A call's answer, what it copied out and what it wrote on the console.   *)
(* Refused, it does nothing else.                                          *)
Store == <<files, queue, shut, offered>>
SysFinish(nr, e, bytes, text) ==
    call' = nr /\ ret' = e /\ out' = bytes /\ logged' = text /\ listed' = {} /\ UNCHANGED <<mounted, seeded>>
Answer(nr, e) == SysFinish(nr, e, <<>>, 0)
Refuse(nr, e) == e # OK /\ Answer(nr, e) /\ UNCHANGED Store

log(ptr, len) ==
    LET e == FirstError(<<Check(len > MAX_LOG_LEN, InvalidArgument), copy_user(ptr, len)>>) IN
    \/ Refuse("Log", e)
    \/ e = OK /\ SysFinish("Log", OK, <<>>, len) /\ UNCHANGED Store

fs_err_read(path) ==
    FirstError(<<Check(~mounted, NotPermitted), Check(path # Root /\ path \notin DOMAIN files, NotFoundError)>>)

(* What is read is copied out up to buf_len, and the count is the answer.  *)
fs_read(a) ==
    LET e == FirstError(<<read_rw_args(a), fs_err_read(a.path)>>)
        isfile == a.path \in DOMAIN files /\ files[a.path] # Dir
        data == Cut(files[a.path], a.buf_len)
        f == IF e # OK THEN e ELSE IF ~isfile THEN IoError ELSE copy_user(a.buf_ptr, Len(data))
    IN  \/ Refuse("FsRead", f)
        \/ f = OK /\ SysFinish("FsRead", Len(data), data, 0) /\ UNCHANGED Store

SysJoin(names) ==
    MapThenFoldSet(LAMBDA n, s : IF s = <<>> THEN n ELSE s \o <<Newline>> \o n, <<>>,
                   LAMBDA i : names[i], Max, DOMAIN names)

fs_list(a) ==
    LET e == FirstError(<<read_rw_args(a), fs_err_read(a.path)>>) IN
    \/ Refuse("FsList", e)
    \/ Refuse("FsList", IF e = OK /\ a.path # Root /\ files[a.path] # Dir THEN IoError ELSE OK)
    \/ /\ e = OK /\ a.path = Root
       /\ \E names \in Injection(1..Cardinality(DOMAIN files), DOMAIN files) :      \* in directory order
             LET text == Cut(SysJoin(names), a.buf_len)
                 c == copy_user(a.buf_ptr, Len(text))
             IN  \/ Refuse("FsList", c)
                 \/ c = OK /\ SysFinish("FsList", Len(text), text, 0) /\ UNCHANGED Store

(* A bug: an existing file is emptied before the new data is checked.      *)
write_file_Truncates(path, data, room) ==
    LET e == Check(Len(data) > MAX_FILE_SIZE \/ ~room, IoError)
    IN  /\ files' = [n \in DOMAIN files \cup {path} |->
                        IF n # path THEN files[n] ELSE IF e = OK THEN data ELSE <<>>]
        /\ Answer("FsWrite", IF e = OK THEN Len(data) ELSE e)

(* write_file creates the file before it stores the data, so a file that   *)
(* is too large, or for which there is no room, is left behind empty.      *)
write_file(path, data, room) ==
    LET known == path \in DOMAIN files
        e == FirstError(<<Check(known /\ files[path] = Dir, IoError),
                          Check(Len(data) > MAX_FILE_SIZE \/ ~room, IoError)>>)
    IN  /\ files' = IF e = OK THEN [n \in DOMAIN files \cup {path} |-> IF n = path THEN data ELSE files[n]]
                    ELSE IF known THEN files
                    ELSE [n \in DOMAIN files \cup {path} |-> IF n = path THEN <<>> ELSE files[n]]
        /\ Answer("FsWrite", IF e = OK THEN Len(data) ELSE e)

fs_write(a, data, room) ==
    LET dlen == Len(data)
        e == FirstError(<<read_rw_args([a EXCEPT !.buf_len = dlen]),
                          IF dlen > 0 THEN copy_user(a.buf_ptr, dlen) ELSE OK,
                          Check(~mounted, NotPermitted), Check(a.path = Root, IoError)>>)
    IN  \/ Refuse("FsWrite", e)
        \/ e = OK /\ write_file(a.path, data, room) /\ UNCHANGED <<queue, shut, offered>>

fs_mkdir(ptr, path) ==
    LET e == FirstError(<<read_path(ptr, path), Check(~mounted, NotPermitted),
                          Check(path = Root \/ path \in DOMAIN files, IoError)>>)
    IN  \/ Refuse("FsMkdir", e)
        \/ /\ e = OK /\ Answer("FsMkdir", OK)
           /\ files' = [n \in DOMAIN files \cup {path} |-> IF n = path THEN Dir ELSE files[n]]
           /\ UNCHANGED <<queue, shut, offered>>

fs_exists(ptr, path) ==
    LET e == FirstError(<<read_path(ptr, path), Check(~mounted, NotPermitted)>>) IN
    \/ Refuse("FsExists", e)
    \/ /\ e = OK /\ Answer("FsExists", IF path = Root \/ path \in DOMAIN files THEN 1 ELSE 0)
       /\ UNCHANGED Store

fs_delete(ptr, path) ==
    LET e == FirstError(<<read_path(ptr, path), Check(~mounted, NotPermitted), Check(path = Root, IoError),
                          Check(path \notin DOMAIN files, NotFoundError)>>)
        f == IF e # OK THEN e ELSE Check(files[path] = Dir, IoError)
    IN  \/ Refuse("FsDelete", f)
        \/ /\ f = OK /\ Answer("FsDelete", OK)
           /\ files' = [n \in DOMAIN files \ {path} |-> files[n]]
           /\ UNCHANGED <<queue, shut, offered>>

get_random(ptr, len) ==
    LET e == FirstError(<<Check(len = 0 \/ len > MAX_FS_IO_LEN, InvalidArgument),
                          Check(~seeded, NotPermitted), copy_user(ptr, len)>>)
    IN  \/ Refuse("GetRandom", e)
        \/ e = OK /\ SysFinish("GetRandom", len, [i \in 1..len |-> 0], 0) /\ UNCHANGED Store

(* ChannelSend caps the length, LinkSend does not; a channel's own bound   *)
(* holds for both.                                                         *)
send(k, ptr, data) ==
    LET e == FirstError(<<Check(k = "channel" /\ Len(data) > MAX_FS_IO_LEN, InvalidArgument),
                          copy_user(ptr, Len(data)), Check(k \in shut, NotFoundError),
                          Check(Len(data) > max_message_bytes, InvalidArgument),
                          Check(Len(queue[k]) = chan_capacity, WouldBlock)>>)
    IN  \/ Refuse("Send", e)
        \/ /\ e = OK /\ Answer("Send", OK)
           /\ queue' = [queue EXCEPT ![k] = Append(@, data)]
           /\ UNCHANGED <<files, shut, offered>>

(* The message leaves the queue first.  ChannelRecv then cuts it to the    *)
(* buffer, LinkRecv refuses a buffer that is too short, and both give up   *)
(* the message when the copy fails.                                        *)
receive(k, ptr, cap) ==
    LET e == FirstError(<<Check(k = "channel" /\ cap > MAX_FS_IO_LEN, InvalidArgument),
                          Check(queue[k] = <<>> /\ k \in shut, NotFoundError),
                          Check(queue[k] = <<>>, WouldBlock)>>)
        msg == Head(queue[k])
        part == IF k = "channel" THEN Cut(msg, cap) ELSE msg
        f == FirstError(<<Check(Len(part) > cap, InvalidArgument), copy_user(ptr, Len(part))>>)
    IN  \/ Refuse("Recv", e)
        \/ /\ e = OK
           /\ queue' = [queue EXCEPT ![k] = Tail(@)]
           /\ IF f = OK THEN SysFinish("Recv", Len(part), part, 0) ELSE Answer("Recv", f)
           /\ UNCHANGED <<files, shut, offered>>

chan_close(k) ==
    /\ shut' = shut \cup {k} /\ Answer("Close", OK) /\ UNCHANGED <<files, queue, offered>>

no_such_call == Refuse("unknown", NoSuchCall)

(* The calls whose result is module ChannelTable's: only their arguments   *)
(* are checked here.                                                       *)
HandleCall(nr, e) ==
    \/ Refuse(nr, e)
    \/ e = OK /\ \E r \in {OK, NotPermitted, NotFoundError, WouldBlock} : Answer(nr, r) /\ UNCHANGED Store

OpenChannelArgs(capacity, bytes) ==
    Check(capacity = 0 \/ bytes = 0 \/ bytes > MAX_FS_IO_LEN, InvalidArgument)
RequestChannelArgs(ptr, short, terms, self) ==
    FirstError(<<Check(short, InvalidArgument), copy_user(ptr, 1), Check(~terms, InvalidArgument),
                 Check(self, InvalidArgument)>>)
GateArgs(gate) == Check(gate = "over u16", InvalidArgument)

(* A request is read, not taken: it waits until it is decided.             *)
poll_channel_request(ptr, short) ==
    LET e == FirstError(<<Check(short, InvalidArgument), Check(~offered, NotFoundError), copy_user(ptr, 1)>>) IN
    \/ Refuse("PollRequest", e)
    \/ e = OK /\ SysFinish("PollRequest", OK, <<1>>, 0) /\ UNCHANGED Store
decide_channel_request ==
    \/ Refuse("Decide", Check(~offered, NotFoundError))
    \/ offered /\ offered' = FALSE /\ Answer("Decide", OK) /\ UNCHANGED <<files, queue, shut>>
requested ==
    ~offered /\ offered' = TRUE /\ Answer("none", OK) /\ UNCHANGED <<files, queue, shut>>

(* fs::list of cibos-app: the listing up to the buffer's end, as text (the *)
(* empty one if it is not UTF-8), split at its newlines.  In a name, 195   *)
(* starts a two-byte character.                                            *)
Utf8(bytes) == \A i \in DOMAIN bytes : bytes[i] = 195 => i < Len(bytes) /\ bytes[i + 1] > 127
Split(bytes) ==
    LET at == {0, Len(bytes) + 1} \cup {i \in DOMAIN bytes : bytes[i] = Newline}
    IN  {SubSeq(bytes, i + 1, Min({j \in at : j > i}) - 1) : i \in at \ {Len(bytes) + 1}} \ {<<>>}

list ==
    /\ call = "FsList" /\ ret >= 0
    /\ listed' = IF Utf8(out) THEN Split(out) ELSE {}
    /\ call' = "listed"
    /\ UNCHANGED <<mounted, seeded, Store, ret, logged, out>>

---------------------------------------------------------------------------
SysInit ==
    /\ mounted \in BOOLEAN /\ seeded \in BOOLEAN
    /\ files = <<>> /\ queue = [k \in Ends |-> <<>>] /\ shut = {} /\ offered = FALSE
    /\ call = "none" /\ ret = OK /\ logged = 0 /\ out = <<>> /\ listed = {}

(* Argument blocks with at most one thing wrong; a path that is not read   *)
(* is the root's.                                                          *)
Wrong(a) ==
    {x \in {"block", "path_ptr", "buf_ptr"} : a[x] # "buffer"}
    \cup {x \in {"buf_len"} : a[x] > MAX_FS_IO_LEN}
    \cup {x \in {"path"} : read_path("buffer", a[x]) # OK}
Args ==
    {a \in [block : {"null", "buffer"}, path_ptr : Pointer, path : Paths, buf_ptr : Pointer,
            buf_len : {0, BufLen, MAX_FS_IO_LEN + 1}] :
        /\ Cardinality(Wrong(a)) <= 1
        /\ a.block # "buffer" \/ a.path_ptr # "buffer" => a.path = Root}
Writes ==
    {w \in {a \in Args : a.buf_len = 0} \X Data \X BOOLEAN : w[3] \/ Wrong(w[1]) = {}}

Files ==
    \/ \E a \in Args : fs_read(a) \/ fs_list(a)
    \/ \E w \in Writes : fs_write(w[1], w[2], w[3])
    \/ \E p \in Pointer, path \in Paths :
          /\ p # "buffer" => path = Root
          /\ fs_mkdir(p, path) \/ fs_exists(p, path) \/ fs_delete(p, path)

SysNext ==
    \/ Files
    \/ \E p \in Pointer, n \in {0, 1, MAX_LOG_LEN + 1} : log(p, n)
    \/ \E p \in Pointer, n \in {0, 1, MAX_FS_IO_LEN + 1} : get_random(p, n)
    \/ \E k \in Ends : chan_close(k) \/ \E p \in Pointer : \/ \E d \in Data : send(k, p, d)
                                                      \/ \E n \in {0, 1, 2, MAX_FS_IO_LEN + 1} : receive(k, p, n)
    \/ \E cap, bytes \in {0, 1, MAX_FS_IO_LEN + 1} : HandleCall("OpenChannel", OpenChannelArgs(cap, bytes))
    \/ \E p \in Pointer, short, terms, self \in BOOLEAN :
          HandleCall("RequestChannel", RequestChannelArgs(p, short, terms, self))
    \/ \E p \in Pointer, short \in BOOLEAN : poll_channel_request(p, short)
    \/ \E gate \in {"u16", "over u16"} : HandleCall("Gate", GateArgs(gate))
    \/ decide_channel_request \/ requested \/ no_such_call \/ list

SysSpec == SysInit /\ [][SysNext]_sysVars

---------------------------------------------------------------------------
(* A call that fails takes nothing away: the files, the user's buffer, the *)
(* console and the messages stay as they were.  There are two exceptions,  *)
(* both visible in the order of the code: a receive whose copy fails has   *)
(* already taken its message (syscall.rs:573-578, 501-510), and a write    *)
(* that fails for size or room may have created its file, empty            *)
(* (fs.rs:577-600).                                                        *)
FailuresTakeNothing ==
    [][ret' < 0 /\ call' # "listed" =>
         /\ out' = <<>> /\ logged' = 0 /\ shut' = shut /\ offered' = offered
         /\ \A n \in DOMAIN files : n \in DOMAIN files' /\ files'[n] = files[n]
         /\ \A n \in DOMAIN files' \ DOMAIN files : call' = "FsWrite" /\ ret' = IoError /\ files'[n] = <<>>
         /\ \A k \in Ends : queue'[k] # queue[k] => /\ call' = "Recv" /\ queue'[k] = Tail(queue[k])
                                                    /\ ret' \in {BadAddress, InvalidArgument}]_sysVars
=============================================================================
