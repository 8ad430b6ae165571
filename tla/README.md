# fexp: models, checks and proofs

fexp moves files between local directories and FTP servers, unattended: each
section of its configuration is a thread that polls one directory and empties it
into another, and a GTK window, which may be closed and opened again, shows what
the threads do. Nobody watches it, so what matters is that a file is never taken
from its source before the whole of it has arrived, that a part of a file is
never delivered under its final name, and that the program goes on after
whatever a server or a network does.

The modules here are written from the source (`src/fexp.c`, `src/ftplib.c`,
`src/dscan.c`, `src/gtkwin.c`, `src/parsecfg.c`). TLC checks them on small instances, and TLAPS
proves their safety properties for all values of the constants (section 4 says
which few are left to TLC). `PROJECT.json` maps every definition to its lines.

## 1. The system

| component | state | operations | meets the others through |
|---|---|---|---|
| **get_file** (fexp.c 383-544) | `ftp`, `ftab`, offset and size of the transfer; files in TMPDIR and LOCALDIR; the remote directory | connect, list, SIZE/REST/RETR into `TMPDIR/.name` (resuming), compare sizes, `rename` into LOCALDIR, DELE or RNTO into BAKDIR | ftplib calls; set_message |
| **put_file** (550-719) | the same, mirrored | `dscan`, SIZE, REST/APPE or STOR into the server's TMPDIR, SIZE, RNFR/RNTO, `unlink` or rename into BAKDIR | ftplib calls; set_message |
| **ftplib, control connection** (ftplib.c 60-303, 515-567, 938-969) | `alive`, input buffer, last response | FtpSendCmd, readresp over readline over socket_wait | one netbuf per section |
| **ftplib, connections** (322-462, 574-863) | sockets | FtpConnect, FtpOpenPort, FtpAcceptConnection, FtpAccess, FtpClose, FtpQuit | the descriptor table of the process, which all threads share |
| **main and the window process** (fexp.c 59-267, gtkwin.c 478-540) | `guiPid`, blocked signals | fork a window, wait for SIGTERM/USR1/USR2, kill the window | signals, fork |
| **message pipe** (fexp.c 98-104, 285-326; gtkwin.c 154-210) | `mutex`, `writeFp` and its buffer, the pipe, the window's `readFp` | set_message, update_gui | all threads write, one window at a time reads |
| **remote directory** (fexp.c 830-861, dscan.c 85-91, 119-513) | `f_tab` | ftp_dscan, list_parse_unix, ffilter | read by get_file |
| dscan, local (dscan.c 35-105) | `f_tab` | readdir, stat, sort | read by put_file; `PutFile!Scan` |
| window contents (gtkwin.c) | widgets | layout, labels | not modelled: nothing but display |
| **configuration** (fexp.c 766-823, parsecfg.c) | the names of the sections, an array per parameter, their number | cfgParse, cfgAllocForNewSection, cfgStoreValue, cfgDump, cfgFree; read_cfg | read once, before any thread; the sections are its result |
| **passwords** (fexp.c 901-1001) | none | PassCode, PassDecode, MagicNum | the user writes the code into the configuration, setup_ftp_env decodes it |
| log file (logging.c) | none | open, append, close | not modelled: nothing reads it |
| readconf.c, moti.c; FtpXfer, FtpDir, FtpSite, ... | | | not part of the program that is built, or not called |

What is hard here:

- *Partial failure and recovery.* Every command can be refused, time out, or take
  effect with its reply lost; the process can end anywhere. The temporary files
  and the remote directory are all that is kept, and the next pass must make the
  best of them. The only test of a transfer is the size.
- *Abandoned sessions.* A session that timed out is replaced and its socket never
  closed (fexp.c 418-426), so that a DELE or RNTO already sent may still run in
  the middle of a later transfer, or between two commands of it that belong
  together; and what was sent of a file may still be stored.
- *Waits that never end.* A session that dies between the lines of a reply leaves
  the thread in a loop (ftplib.c 289-299).
- *Replies out of step.* A reply that arrives after its command was given up must
  not be read as the reply of the next one.
- *Threads sharing numbers.* A descriptor that is closed twice may be somebody
  else's the second time.
- *Bytes and lines.* Lines come in pieces of any length, and both buffers that
  they pass through have an end.
- *Text that is read back.* The configuration has quotes, comments, braces and
  several headers; what the program writes it must read again, and a file that is
  wrong half-way leaves a store half filled.
- *Two processes and signals.* Windows are asked for and report their end in any
  order, with equal signals merging; a fork copies a stream that a thread has in
  use.

Correctness, per component: nothing is lost, only whole files are delivered, each
file is delivered in the end (sections); a reply is the reply of its command, and
a call returns (control connection); a thread uses and closes only what it opened
(descriptors); one window, known to main, and "Yes, exit" means exit (main);
messages arrive whole, in order or not at all, and no transfer waits for a window
(pipe); the table has the files that are wanted and no others (listing); lines
reach their reader whole, whatever the pieces (readline); the sections hold what
the file says, what is dumped is read back, and the password sent is the one that
was typed (configuration, passwords).

## 2. The modules

| module | what it is |
|---|---|
| `Delivery` | abstract: what a section promises, whichever way it moves files |
| `GetFile`, `GetFileProps`, `MCGetFile` | one receiving section, its properties and inductive invariant, its instances |
| `GetFileProofs` | theorems about it: in the orderly environments, then in the others |
| `PutFile`, `PutFileProps`, `MCPutFile` | one sending section |
| `PutFileProofs` | theorems about it |
| `FtpControl`, `FtpControlProofs` | commands and replies of one control connection; theorems |
| `Readline`, `ReadlineProofs` | from bytes to lines: readline and net_read; theorems |
| `Descriptors`, `DescriptorsProofs` | connections, transfers and the descriptor table; theorems |
| `Supervisor` | main, the window processes and the signals |
| `InfoPipe`, `InfoPipeProofs` | the message pipe; theorems |
| `Listing`, `ListingProofs` | from the lines of a directory to the table of files; theorems |
| `Words` | the words of a configuration line: operators only |
| `Config` | parsecfg.c: parsing, and the calls that change or dump the store |
| `Password` | PassCode and PassDecode: operators only |
| `Login` | `Config` and `Password` composed: from the typed password to the login |
| `ConfigProps`, `MCConfig` | what a configuration file means, the properties of both, and their instance |
| `MainProofs` | theorems about main's thread: the configuration and the passwords, then the window it keeps |

They meet where the code's components do. `GetFile` and `PutFile` take from
`FtpControl` that a command succeeds, is refused, or times out with its effect
done, not done or done later; from `Descriptors` that their handles are their
own; `GetFile` takes from `Listing` that a listing names files that are there,
perhaps not all of them. `FtpControl` and `Listing` take their lines from
`Readline`: whole, in order, the last of a dead session perhaps cut off. `InfoPipe` takes from `Supervisor` that there is one
window at a time. `Delivery` is implemented by both sections (`Implements`, with
`offered`, `waiting` and `delivered` mapped to what was published, what is still
in the source directory, and what was whole when it was renamed to its place).
In environments that are not `Orderly` (section 4) all three are empty: there the
sections promise less.

### Environments

What may go wrong is not a constant but a variable: `env`, a set of words such as
`"fault"`, `"late"`, `"grow"`, is chosen in Init from the constant `Environments`
and never changes. Each module's header explains its words. A property that needs
a friendlier world says so in its own text (`Orderly => ...`), so that a theorem
has no assumption hidden in a constant, and one run covers several worlds. In
`Config` and `Login` the variable is `usage`, chosen from `Usages`: what the
program and its user do.

### State and actions

*GetFile.* `remote`, `bak` are the server's directories, a *version* being one
publication of a file under a name; `tmp` and `local` are TMPDIR and LOCALDIR,
contents being sequences of blocks `<<version, i>>`, so that a mix of two versions
shows; `pc`, `alive`, `todo`, `listed`, `src`, `rpos`, `off` are the thread: where
it is, `FtpStatus`, the part of `ftab` not reached, the listed sizes, the file
being read, the server's and the local file's positions. Actions follow the loop:
`Session` (setup_ftp_env), `Scan`, `Retr` (SIZE, REST, RETR, open, lseek),
`ReadBlock`, `ShortWrite`, `Eof`/`EarlyEof`/`ReadError`, `VerifyOk` (stat, compare,
rename), `VerifyFails` (unlink), `RemoveOk`, `RemoveReplyLost`, `RemoveLate`,
`RemoveFails`, `EndPass`. `CommandFails` is "the call fails, break": refused, or
timed out with the session dead. Wherever a session dies while a reply is waited
for (`Break`, `SessionFails`), the thread may not come back at all:
`pc = "spin"`, the loop of readresp that `FtpControl` shows. Around it: `Publish` and `Grow` (the producer),
`LateRemove` (the server, still executing for an abandoned session), `Crash` (the
thread's memory is gone; the files stay).

*PutFile.* The mirror image, with more on the server's side: `wire`, blocks written
to the data connection and not stored yet; `sink`, the directory entry that the file
being stored has *now* (`"tmp"`, `"dest"`, or none any more): an RNTO that runs late
can rename it under the server's hands, and what still arrives lands under the final
name; and `stray`, what the server has still to do for a session that was given up:
its STOR, or the rest of what it sent, and for which file. The commands that belong
together are steps of their own, as each is a round trip: `AskSize` (SIZE, the point
to resume from), `Stor` (REST, APPE or STOR), `VerifySize`, `RenameOk`. `LateRename`
and `LateStore` run between any of them. The word `"late"` allows late RNTOs but
between the SIZE and the APPE of a transfer of the same name, and `"race"` allows
these, and `LateStore`, too.

*FtpControl.* `chan` holds the unread lines, `owed` the replies the server has
still to send, `verdict` what the last readresp returned and on which line. The
commands have numbers, to tell whose reply a line is; the program does not see
them. `ReadFirst` and `ReadMore` are readresp's two calls of readline; `Timeout`,
`ReadEof` and `Spin` are what socket_wait, an end of file, and the loop on a dead
session do; `SendFails` is a write to a reset connection.

*Descriptors.* `table` maps each number to what it names. One action per system
call that makes or closes a descriptor; a new one has the lowest free number.
`PathTooLong` is FtpAccess's return after FtpOpenPort, which leaves the data socket
to nobody.
`ConnectFails` then `CloseAgain` are the two closes of a failed connection;
`CloseZero` and the state `wild` are what becomes of PORT mode.

*Supervisor.* `main`, `guiPid`, `pending` (blocked signals, at most one of each),
`displayFile` and the state of each window process. `SigCatcher` is one turn of main's loop.

*InfoPipe.* A message is two units, head and text; update_gui's buffer, an array of
int for want of a type (gtkwin.c 156), has room for any. `wbuf` is the buffer of writeFp, `pipe` what is in
the pipe, `rbuf` the buffer of each window's readFp, `copy` the copy of `wbuf` that
fork made and exit() will write.

*Listing.* A line is its first field, its middle fields by kind (number, month,
word, device number) and its name. `ListParse` is list_parse_unix with its three
outcomes: a file, NULL, or a null pointer used as a string; `Cut` breaks the
listing off anywhere.

*Readline.* A byte is the number of its line and what it is (`"c"`, `"cr"`,
`"lf"`). `net` holds the bytes on their way, `cbuf` and `cleft` the buffer of the
netbuf, `buf` and `max` the caller's. `Copy` is the memccpy of one turn of the
loop with what follows it, `Check` the tests before the next read, `Read(x)` a
read of `x` bytes; `Timeout` and `ReadError` return what has come, or the message
that socket_wait or readline itself puts into the buffer if it is that of the
connection's last reply; `outside` records a write beside the caller's buffer, after
which nothing is promised.

*Config.* `names`, `values`, `maximum` are parsecfg_section_name, the arrays of
`cfg[]` and parsecfg_maximum_section. A line is a sequence of characters, and
cfgParse takes one line a step: `Header`, `Assign`, `Open`, `Item`, `Close`,
`Skip`, `Eof`, each with its errors (`Fail`), which leave the store as it is at
that point. `Eof` is also what becomes of an error in reading: `unread` is then what
cfgParse never saw. Numbers are read as strtol reads them with base 0 (blanks, a
sign, `0x`, `0`), of fractions digits and a point, of which a float keeps
`DigitsKept` and `%f` writes `DigitsWritten` places. `ParseWord` is parse_word, with
the two ways in which it fails. What a
line is made of is the constant `Letters`: any characters, but at least those that
the parser and cfgDump use.

*Login.* `WritePassword` is fexp -password with the user who copies its output
into a section, `ReadCfg` the copy of the arrays into `cfg`, `SetupFtpEnv` the
login, `sent` the password it sends.

## 3. The runs

| run | instance and bounds | shows |
|---|---|---|
| `get_all` | 3 versions of 1 or 2 blocks, two under one name and the second the longer; 3 faults; six environments: faults with late removals, with and without BAKDIR; faults with BAKDIR, short writes, growing and replaced files with the name used again | `Consistent`, the inductive invariant of the proofs, in all environments; nothing the disk has is overwritten on resumption; get_file implements `Delivery`; with BAKDIR every version stays on the server until another of its name follows it into the backup; a short write is caught by the size; growing files may arrive short but never mixed; without faults no version is installed twice; each file is delivered and each name is emptied in the end, or the thread spins for good |
| `put_all` | the same versions, 3 faults; late RNTOs; everything that abandoned sessions may do, with BAKDIR; BAKDIR alone; growing files | `Agreement`, the inductive invariant of the proofs; put_file implements `Delivery`; a reader of REMOTEDIR sees whole files where no RNTO runs late or once the source is gone (`WholeFile`), and never a mix; everything is delivered, or the thread spins for good; with BAKDIR, what has left localDir is in the backup directory, under `"race"` too |
| `ctl_all` | commands numbered modulo 3, 3 unread lines, replies of up to 3 lines | an accepted reply belongs to its command; a live session is in step with its server (`InStep`, inductive: the order of what is unread and owed); a command returns or spins on a dead session in mid-reply; a closed connection is given up |
| `sup_all` | 3 window processes, windows that die, failing fork and pthread_create, the display file coming and going | one window, known to main; none behind a normal exit; "Yes, exit" ends the program; a window that closed is forgotten |
| `fd_all` | 2 threads, descriptors 0 to 6; passive mode with refusals, given-up sessions and paths too long for a command; PORT mode with everything | in passive mode each thread uses and closes only its own, and only the sockets of given-up sessions and the data sockets of too long paths stay open |
| `pipe_all` | 2 threads, 4 messages, 2 windows, a pipe of 5 units, reads of 3 | lines are shown whole and in order, whatever window reads them (`InOrder`, inductive, and `LinesWhole`); no transfer waits for a window; a window that lives shows what is in the pipe |
| `line_all` | 3 lines of 0, 1, 3 or 7 bytes that end in "\r\n", "\n" or (the last) nothing; buffers of 5 and 7 bytes; reads of every size; timeouts and errors | lines that fit arrive whole, one a call, however they were split, and no byte is written beside the buffer; `InPieces`, the inductive invariant of the proofs: no byte is lost between the buffers, and of a line that does not fit no caller sees the beginning; a caller that goes on reaches the end |
| `list_all` | 2 entries of every kind, 3 sizes, breaks anywhere | the table has, of the entries read, those that are wanted, in order, with their sizes, also where the listing breaks off, but for one name that may be cut (`Listed`, inductive) |
| `cfg_all` | files of a header and up to three lines of ten kinds, among them quotes, comments, braces, a second header, hexadecimal numbers and fractions, and files with a bad number; reading that fails after any line; rewritten files; 2 sections and 3 calls of the program, with words of blanks, quotes, braces, brackets, newlines, octal numbers and fractions; parameters of five types; passwords of up to 7 characters | the store holds what the lines read say, which are all unless reading failed; what cfgDump writes is read back exactly where the words allow it, and nowhere else; every section has a name and values, after a parse that failed too; the password sent is the one typed |
| `ctl_hang`, `sup_race`, `fd_twice` | small | findings, section 5 |

Distinct states: 193,446 of `get_all`, 1,370,602 of `put_all`, 246,090 of `ctl_all`,
2,826 of `sup_all`, 454,192 of `fd_all`, 149,969 of `pipe_all`, 72,394 of `list_all`,
237,033 of `cfg_all`, 927,512 of `line_all`.

Why the bounds are enough. Two names give a listing with a file before and after
the one that fails; a third version gives a name that is used again, with another
size, which is what leftovers can do harm to. Two blocks give a transfer that stops
at its start, in the middle and at its end. Three faults allow a lost reply, a failed resumption and a crash in one behaviour; every mutant in
`PROJECT.json` is found with them. In `FtpControl` three command numbers tell the
command waited for from the previous one and a yet older one; `Descriptors` needs
a table that fills up with two threads (seven entries, the standard input among
them, for two threads with up to three each and what is lost). `InfoPipe`'s pipe of five units is full after two messages, and reads of
three units split messages. A caller's
buffer of five bytes has lines that are shorter, that fill it, and that are longer
than both buffers. Three lines behind a header open braces, fill and close them, or
repeat a parameter or a header; the numbers of `Config` have one digit, and its
bounds on calls leave room for a parse, a call, a dump and a parse. A password
buffer of 20 bytes (64 in the code) is filled by seven characters.
The bounds on messages, window processes and faults only end behaviours early.

`CHECK_DEADLOCK FALSE` stands where the system ends: `sup_*` (main has left its
loop), `pipe_all` (all messages are sent), `list_all` (the scan is over), `line_all` (the caller has stopped after -1). All
other runs check deadlock.

Fairness. Sections: `WF(Thread)`. Each wait of the thread has a timeout (socket_wait
takes one from the configuration; connect() of a data connection, which has none of
fexp's, that of the system; the pauses are sleeps), so it never stops for
good. It may go on without getting anywhere, though: the loop of readresp on a dead
session is a step, `Spin`, and the liveness properties of both sections say that
either the thread ends there (`Hung`) or everything is delivered. The producer and
late commands are not fair, and the faults of a behaviour are finite. Control
connection: `WF(Client)`, for the same reason, and nothing of the server. Main and window: weak fairness of each step a process takes by itself;
none for the user. sigwait may take pending signals in any order, and fairness per
signal says that none waits for ever. Pipe: fairness of printf and flush, and of
GTK calling update_gui in its idle loop. Readline: `WF(Next)`, as a read returns
or its wait times out.

Types. Each module has one type invariant. Those of `GetFile`, `PutFile`,
`FtpControl`, `InfoPipe`, `Listing` and `Readline` are the first conjunct of the
inductive invariants that their runs check (`Consistent`, `Agreement`, `InStep`,
`InOrder`, `Listed`, `InPieces`); they, and those of `Descriptors` and `Supervisor`, are proved.

## 4. What is proved

`GetFileProofs`, from the assumptions that `NameOf`, `Size`, `NoFile` and
`MaxFaults` have their types, for any set of versions and names, any sizes, any
environments and any number of faults:

- `TypeCorrect`: `Spec => []TypeOK`, in all environments.
- `Inductive`: `Spec => []Agreement`, that is `Orderly => IInv`, and `NamesInv`,
  that versions have different names unless the environment allows `"reuse"`.
  `Orderly`: no version is replaced or listed before it is whole, writes are not
  short, and late removals meet no name that is used again.
- `NeverLost`, `LocalFilesWhole`: `[]NothingLost`, `[]OnlyWhole`.
- `ResumeKeepsBlocks`: the action property `TmpOnlyGrows`.
- `Refinement`: `Spec => Implements`. The refinement mapping is that of section 2
  in an orderly environment, and constant in the others, where get_file promises
  less.

`NothingLost` alone is not inductive. That the file deleted is the one that was
installed rests on what was transferred being the start of the version that is
still under the name (`XferInv`); that a resumed transfer continues that version
rests on every temporary file being the start of it (`TmpInv`); that equal sizes
mean equal contents rests on the listed size being that version's (`ListInv`); and
that a removal which runs late takes only what was delivered rests on `LateInv`.
`IInv` is their conjunction with `ServerInv` and the two goals. There is one lemma
per action, and two that an environment, its `Orderly` and its use of names stay
what they were (`OrderlyStays`, `UniqueStays`); the refinement maps RemoveOk, RemoveReplyLost and LateRemove to
Delivery's removal, VerifyOk to its delivery, Publish to its offer, and the rest to
stuttering.

The second part of `GetFileProofs` is about the environments that are not
orderly: `AllInductive` (`[]Consistent`), `BackedUp` (`[]BackupKeepsAll`),
`NeverTorn` (`[]NoTornFile`), `ShortWritesCaught` (`[]ShortIsCaught`) and
`AtMostOnce` (`ExactlyOnce`). `Consistent` joins four arguments to `Agreement`.
That BAKDIR keeps everything needs only that the server's entries are what was
published under their names (`EntriesInv`). That nothing is delivered twice needs
that without faults the session lives and a delivered version is gone from the
remote directory but in the step that removes it (`OnceInv`). That no file is torn
has two reasons: where files are replaced and nothing fails, no temporary file
outlives its transfer (`TmpEmpty`); elsewhere every temporary file is the start of
what waits under its name (`TmpInv`). Short writes on top need a count: the local
position never passes the server's, and a file whose blocks are not in order has
fallen behind for good (`ShortInv`).

`PutFileProofs`, from the same assumptions, in every environment of `PutFile`:
`Inductive` (`[]Agreement`), `TypeCorrect`, `NeverTorn` (`[]NoTornFile`),
`RemoteFilesWhole` (`[]WholeFile`), `BackedUp` (`[]BackupKeepsAll`) and `Refinement`
(`Spec => Implements`). The invariant has three layers, each proved over the one
before. `SharedInv` holds everywhere: what waits in localDir is what was published
(`SourceInv`), late commands are there only where the environment has them
(`LateInv`), and BAKDIR keeps everything. `TidyInv` holds where the environment has
no `"race"`. `NoTornFile` is not inductive: what makes a file whole may still be on
the wire, and an RNTO that runs late may have given the file that is being stored
its final name already. `XferInv` therefore says of the file *under whichever name it
has* (`Target`) that its blocks and then those on the wire are the blocks of the
local file up to the last one read; and, between the SIZE and the APPE, that what is
skipped is what is there, which is what a `"race"` breaks. `WholeInv` holds where,
besides, files are listed whole (`Orderly`): listed sizes are those of whole files,
and what is gone was delivered. That the wire is empty when sizes are compared makes
equal sizes mean equal contents (`SizeMeansWhole`).

`FtpControlProofs`, for any number of commands, any bound on unread lines, and in
every environment: `TypeCorrect`, `AlwaysInStep` (`[]InStep`), `RepliesMatch`
(`[]OwnReply`). That an accepted reply is the reply to its command follows from
what lies between the client and the server being in order: each line that is not
read, and each reply that is owed, belongs to the reply that is expected or to one
that an unread line announces (`Due`, `Announces`), or is the 421 of a server that
has closed, and nothing follows the last line of a reply but what that line
announces (`Order`).

`DescriptorsProofs`, for any set of threads and a table of any size: `OwnOnly`
(`[]OwnDescriptors`) and `AllClosed` (`[]NothingLost`), in passive mode and where
myconnect's own close is the only one (`Orderly`); the sockets of sessions that were
given up and the data sockets of too long paths are what `NothingLost` lets go. The invariant adds to
`Owns(t)` which of its three numbers a thread has in each state of its program;
the key lemma says that what one thread opens or closes is no number another has.

`InfoPipeProofs`, for any number of threads, messages and windows, any size of the
pipe and of the reads: `SentInOrder` (`[]InOrder`) and `ShownWhole`
(`[]LinesWhole`). The argument treats the buffer of the window and the pipe as one
sequence (`Unread`): a flush appends to it, a read of any length moves units inside
it and changes nothing, update_gui takes lines from its front, and a new window
starts with an empty buffer on the same pipe. `InOrder` says that only one thread
has something in the stream (`OneWriter`), that only main's window reads
(`OneReader`), and that `Unread` is sorted and lies behind all that is shown
(`Ordered`); `LinesWhole` is inductive over it, as it says of `Unread` too that
heads and texts alternate (`Paired`).

`ListingProofs`, for directories of any length, files of any size and any FILEMATCH:
`TypeCorrect`, `AlwaysListed` (`[]Listed`) and `WholeListing` (`[]Complete`). The
lemma `ParseFields` says what list_parse_unix makes of a line with all its fields,
with and without a group; `ParsePart` that what is left of a broken line is no file,
the file, or a file of a shorter name; `NextWanted` and `NextUnwanted` extend the
embedding of the table into the directory (`HasFirst`) by one entry. The invariant
says besides how the rest of the listing relates to the entries not yet read
(`Unbroken`, `Broken`).

`ReadlineProofs`, for streams of any number of lines of any length, a caller's buffer
of two bytes or more, a connection's buffer of at least one, and reads of any size:
`Pieces` (`[]InPieces`), `WholeLines` (`[]LinesArrive`) and `OnlyEnds`
(`[]NoBeginnings`). The invariant is about `Left`, what readline holds, then the
buffer of the connection, then what is on its way: as long as the connection lives
and nothing was written beside the caller's buffer, `Left` is the rest of one line
and all lines behind it (`Position`), and if all lines fit, a whole line that has as
many before it as calls have returned. Copies and reads move bytes inside `Left`; a
return drops a part of it, to the end of a line or, where the buffer is full, less.
`NoBeginnings` is inductive over it: a text that ends in "\n" is the end of the one
line it lies in (`WithinLine`, `WholeRest`), also after "\r\n" has become "\n"
(`ReturnedText`); a text without one that ends the stream is the end of the last
line (`Unended`). `LinesArrive` adds that such a line fits, so that the buffer is
never full before its "\n" is copied. What lies behind each line is a recursive
function of its number; `BehindLines` gets its values from `SmallestNumber`, going
down from the last line (`Downward`).

`MainProofs` has two parts. The first, about `Login` and so about `Config`, assumes
of the constants that `Letters` has the characters the program itself writes or
looks for; that the table, the files and the words of the calls have their types (that `IntMax`
has one digit, and `DigitsKept` and `DigitsWritten` are numbers);
that the parameter of the password is a string of the table, without
blanks, quotes, `#`, `=` or `[`; that each of the user's `Headers` begins with `[`;
and that a magic number is below 10000 (MagicNum takes it modulo that). It shows:

- `RoundTrip`: PassDecode gives back what PassCode was given, for every password of
  positive characters that fits into the buffer. The steps of PassCode are taken
  back one by one: both loops that exchange characters are their own inverse
  (`LoopsUndone`), two digits of a character below 256 give the character
  (`Digits2Is`), four of the magic number give it again (`FourDigits`).
- `CfgTypeCorrect` (`[]CfgTypeOK`) and `SectionsThere` (`[]NamesThere`), for every file.
  `NamesThere` speaks of the time between two calls. What makes it inductive
  (`Named`) is what holds in the middle of cfgParse: all sections begun so far have
  their names, the names and the arrays are equally long, and the number of
  sections is still 0 if the store was free before, so that an error, which may
  leave the last name dangling, leaves no section to ask for.
- `PasswordsArrive` (`[]PasswordArrives`), for any number of sections and any headers.
  `CodesThere` follows the codes: they are in the file, each behind its header
  (`CodesWritten`); in the array of the password for as many sections as lines were
  read (`CodesRead`); and in the records of the sections (`CodesKept`). `CodeLine` and
  `CodeWord` say that parse_word takes the line that the user writes apart into
  the parameter and the code; headers may be anything that begins with `[`, as a
  header that is refused ends the parse, and the program.

- `FileMeant` (`[]MeansFile`), for every table and every file: when cfgParse has
  returned a number, the sections, their names and each value are what the lines say
  that it has read, and these are all lines unless reading failed. That is
  defined without a parser, from the lines of the file: how many headers stand
  before a line, whether it lies between braces, which lines give a value to a
  parameter. The strengthening is `ReadSoFar`: while cfgParse reads, the arrays
  hold what the lines before say, and the branch it is in is that of the next
  line. TLC checked it on the instance of `cfg_all` first. `HereNext`, `WordsNext` and
  `MeantNext` say what one more line adds to a meaning, and the lemmas from
  `ParseReads` to `EofReads` that each step of the parser adds the same. Lines
  are counted by the size of a set of their numbers (`UpToNext`, `NthMore`); braces
  are followed by a recursive function of the number of the line (`AroundIs`).

The second part, for any number of window processes and in every environment:
`TypeCorrect`, `OneWindow` (`[]Known`) and `NoneLeft` (`[]NoOrphan`). Equal signals
merge, so the invariant must say that two reports are never pending at once: while
SIGUSR2 is pending no window process lives and `guiPid` is not 0, so that no other
is made before main has taken the report.

Proofs about sequences rest on `SmallestNumber` (`InfoPipeProofs`, `ReadlineProofs`,
`MainProofs`): every non-empty
set of numbers has a least one, from the library's `WFMin`, which, unlike its
induction theorems, can be used with the provers at hand.

Only model-checked: all liveness (beyond the prover); of `GetFile`, whatever
`Consistent` does not say of environments that are not orderly; of `Descriptors`,
PORT mode and the double close; of `Config`, `ReadsBack`. It is about a file that the
program wrote: what the loops of cfgDump make of any store, taken apart by those of
cfgParse, would need an induction over the characters of each line and over the
lines of each list.

## 5. Findings

1. `ctl_hang` (ftplib.c 289-299). If a server falls silent inside a reply of
   several lines, readline returns 0 from then on and readresp waits for -1: the
   section's thread spins for ever.
2. `sup_race` (fexp.c 104-106). The first window process is forked before the
   signals it reports with are blocked: one that fails at once ends the program.
3. `fd_twice` (ftplib.c 349, 420). The socket of a failed connection is closed twice;
   in between its number may have become another thread's data connection.

Also met while modelling, and excluded from the properties by the words they
mention or by their conditions:

- GET: a replacement together with faults can be delivered as a mix of two
  versions; so can a name used again after a removal of it that ran late, which
  takes the new file in the middle of its transfer; and a DELE after a replacement removes what nobody has read; short
  writes together with faults pass the size check; late removals and names that
  are used again lose files; files that are listed while they grow are delivered
  short and removed.
- PUT: what a session that was given up has sent may be carried out in the middle of
  a later transfer of the same name. If SIZE of `.name` says 1 and a late RNTO then
  moves it away, APPE makes a new `.name` that begins with block 2; a later pass may
  bring it to the right size, rename it and unlink the source, of which the server
  then has no whole copy. A late STOR empties `.name` between the size check and the
  rename, with the same end. (`"race"`; no comment or document of the repository
  speaks of it, so that no run is made to refute one.) A leftover temporary file is
  never removed, so that a file replaced by
  another while it waits may be delivered as a mix, or never.
- Descriptors: each session given up costs a descriptor for good, and so does each
  transfer whose path is too long for a command (ftplib.c 840-841). In PORT mode
  FtpOpenPort returns 0 where FtpAccess tests for -1, and a failed accept closes
  descriptor 0.
- Windows: one that dies without a report is never forgotten.
- Pipe: a fork in
  the middle of a set_message puts part of a line into the pipe twice.
- Readline: of a line that does not fit in the caller's buffer the rest stays, and is
  read as the next line (the next command's reply); a line that fills the buffer
  exactly has its 0 written one byte behind it; for a line that is "\n" alone the
  byte before the buffer is looked at; a timeout in the middle of a line returns
  its beginning as if it were one.
- Configuration: when the file cannot be read to its end, dynamic_fgets returns NULL
  as at the end of it (parsecfg.c 1093-1096), and cfgParse returns the number of
  sections so far, where its comment (94-96) says -1: fexp goes on with a part of its
  configuration (`"error"`; `MeansFile` is stated of the lines that were read). An error leaves the store half filled, with the name of the last
  section unset where the header was wrong; a second cfgParse without cfgFree then
  meets what the first one left. cfgDump's words are not read back when
  they hold a newline or quotes of both kinds, begin with a brace, or hold a bracket in
  a name; of a fraction `%f` writes six places; a truth value that was never set is
  written as True. After a number too large for a long errno stays ERANGE, and every
  later number is refused (parsecfg.c 662). The comment of cfgDump
  says that its type argument is ignored for CFG_INI; the code ignores it for the
  other. Of fexp's parameters, ACTION is compared with "PUT" in capitals only, and
  any other value empties the remote directory; a section without PASS or BAKDIR
  hands a null pointer to the functions that use them.
- Passwords: a character beyond ASCII is negative and takes eight digits instead of
  two; a password of 30 to 32 characters is accepted and does not fit into the
  buffer.
- Listing: a line that breaks off between its mode and its name ends the program,
  a name of 32 characters or more is listed under another name, devices have sizes
  nobody set, and groups of two words hide their files.

## 6. Not modelled, and the plan

Left out for good: widgets, texts of messages and log lines (and local file names
with a newline, which would make two lines of one message), polling pauses, the
progress report's arithmetic, socket buffers, name resolution. Of parsecfg.c: the
simple format (CFG_SIMPLE), fetchVarFromCfgFile and cfgSectionNameToNumber, which
fexp does not call, the texts of its errors, memory that runs out, and of numbers the
unsigned types, those beyond a long (with the errno they leave), fractions with
blanks, a sign, an exponent or the names of infinity, and the rounding of `%f`.
Two sections are never modelled together: they share
the descriptors (`Descriptors`), the pipe (`InfoPipe`) and nothing else, unless
their TMPDIR is the same.

Order of work. Done: all modules of section 2, and the proofs of section 4.
Next: `Sections`, two receiving sections that share TMPDIR or a server directory.
