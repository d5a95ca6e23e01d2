------------------------------ MODULE LogStore ------------------------------
(***************************************************************************)
(* The log files: the Logger of one run of the daemon after another        *)
(* (linuino/logger.py, linuino/main.py) and the commands that list, read   *)
(* and delete logs (linuino/commands.py execute_cmd).                      *)
(*                                                                         *)
(* A file is known by its name, the time stamp of the run that opened it.  *)
(* Commands know it by an id: its place in what os.listdir returns at that *)
(* moment.  A listing goes to every client, so there is one last listing.  *)
(*                                                                         *)
(* External: the clock that stamps the names, the order of os.listdir, the *)
(* buffer of the C library behind log_file (whole lines here), and power   *)
(* loss, which may also take the end of the file being written.            *)
(***************************************************************************)
EXTENDS Integers, Sequences, SequencesExt

CONSTANTS
  Name,     (* the time stamps at which the daemon is started                *)
  None,     (* no file                                                       *)
  Ids,      (* the ids clients send                                          *)
  MaxLines, (* bound: number of lines written                                *)
  MaxStarts (* bound: number of runs of the daemon                           *)

ASSUME LogStoreAssumption ==
  None \notin Name /\ Ids \subseteq Int /\ MaxLines \in Nat /\ MaxStarts \in Nat

VARIABLES
  pathExists, (* Config.get_log_path() is a directory                        *)
  files,      (* what os.listdir returns                                     *)
  content,    (* per name: what the disk holds                               *)
  up,         (* the daemon runs                                             *)
  log_file,   (* the file this run opened                                    *)
  linked,     (* log_file is still in the directory                          *)
  buffer,     (* lines written to log_file that are not in the file yet      *)
  stamp,      (* history: per run, the file it opened                        *)
  written,    (* history: per run, the lines it wrote to that file           *)
  clean,      (* history: the runs that were stopped by Ctrl-C               *)
  listing,    (* the last answer to available_logs                           *)
  last,       (* history: the last command and the file it took              *)
  lines,      (* number of lines so far; also the name of the last one       *)
  starts      (* number of runs so far; also the name of the last one        *)

vars == <<pathExists, files, content, up, log_file, linked, buffer, stamp,
          written, clean, listing, last, lines, starts>>

Line == 1..MaxLines
Run == 1..MaxStarts
Command == {"none", "available_logs", "read_log", "delete_log"}

TypeOK ==
  /\ pathExists \in BOOLEAN
  /\ files \in Seq(Name) /\ IsInjective(files)
  /\ content \in [Name -> Seq(Line)]
  /\ up \in BOOLEAN
  /\ log_file \in Name \union {None}
  /\ linked \in BOOLEAN /\ (linked => log_file \in Range(files))
  /\ buffer \in Seq(Line)
  /\ stamp \in [Run -> Name \union {None}]
  /\ written \in [Run -> Seq(Line)]
  /\ clean \subseteq Run
  /\ listing \in Seq(Name)
  /\ last \in [cmd : Command, id : Int, fresh : BOOLEAN,
               shown : Name \union {None}, file : Name \union {None}]
  /\ lines \in 0..MaxLines
  /\ starts \in 0..MaxStarts

NoCommand == [cmd |-> "none", id |-> 0, fresh |-> TRUE,
              shown |-> None, file |-> None]

Init ==
  /\ pathExists \in BOOLEAN
  /\ files = <<>>
  /\ content = [n \in Name |-> <<>>]
  /\ up = FALSE
  /\ log_file = None
  /\ linked = FALSE
  /\ buffer = <<>>
  /\ stamp = [r \in Run |-> None]
  /\ written = [r \in Run |-> <<>>]
  /\ clean = {}
  /\ listing = <<>>
  /\ last = NoCommand
  /\ lines = 0
  /\ starts = 0

-----------------------------------------------------------------------------
(* Logger.__init__ *)

(* Mutant: open(name, "a"). *)
open_append(n) ==
  /\ content' = content
  /\ IF n \in Range(files)
     THEN files' = files
     ELSE \E i \in 0..Len(files) : files' = InsertAt(files, i + 1, n)

(* open(name, "w") empties a file of that name, or makes a new one, which    *)
(* os.listdir may return anywhere.                                           *)
open(n) ==
  /\ content' = [content EXCEPT ![n] = <<>>]
  /\ IF n \in Range(files)
     THEN files' = files
     ELSE \E i \in 0..Len(files) : files' = InsertAt(files, i + 1, n)

(* An IOError leaves log_file unset; the daemon runs on. *)
Logger(n) ==
  /\ ~up
  /\ starts < MaxStarts
  /\ starts' = starts + 1
  /\ up' = TRUE
  /\ buffer' = <<>>
  /\ IF pathExists
     THEN /\ open(n)
          /\ log_file' = n
          /\ linked' = TRUE
          /\ stamp' = [stamp EXCEPT ![starts'] = n]
     ELSE UNCHANGED <<files, content, log_file, linked, stamp>>
  /\ UNCHANGED <<pathExists, written, clean, listing, last, lines>>

(* Without log_file the line is dropped with an AttributeError. *)
write_line ==
  /\ up
  /\ lines < MaxLines
  /\ lines' = lines + 1
  /\ IF log_file # None
     THEN /\ buffer' = Append(buffer, lines')
          /\ written' = [written EXCEPT ![starts] = Append(@, lines')]
     ELSE UNCHANGED <<buffer, written>>
  /\ UNCHANGED <<pathExists, files, content, up, log_file, linked, stamp,
                 clean, listing, last, starts>>

-----------------------------------------------------------------------------
(* Mutant: files[id]. *)
FileAfter(id) == IF id + 1 \in 1..Len(files) THEN files[id + 1] ELSE None

(* Commands.  The file that files[id - 1] means in Python: an index below 0  *)
(* counts from the end, one outside raises.                                  *)
FileOf(id) ==
  IF id \in 1..Len(files) THEN files[id]
  ELSE IF Len(files) + id \in 1..Len(files) THEN files[Len(files) + id]
  ELSE None

Took(cmd, id, f) ==
  last' = [cmd |-> cmd, id |-> id, fresh |-> listing = files,
           shown |-> IF id \in 1..Len(listing) THEN listing[id] ELSE None,
           file |-> f]

(* os.listdir stands before the try: without the directory it raises. *)
Raises(cmd, id) ==
  /\ ~pathExists
  /\ Took(cmd, id, None)
  /\ UNCHANGED <<files, listing, linked>>

available_logs ==
  \/ Raises("available_logs", 0)
  \/ /\ pathExists
     /\ listing' = files
     /\ Took("available_logs", 0, None)
     /\ UNCHANGED <<files, linked>>

(* An id without a file is answered with a text that says so. *)
get_log(id) ==
  \/ Raises("read_log", id)
  \/ /\ pathExists
     /\ Took("read_log", id, FileOf(id))
     /\ UNCHANGED <<files, listing, linked>>

(* Mutant: from the file on, everything is removed. *)
remove_logs_from(id) ==
  /\ pathExists
  /\ id \in 1..Len(files)
  /\ Took("delete_log", id, FileOf(id))
  /\ files' = SubSeq(files, 1, id - 1)
  /\ linked' = (linked /\ log_file \in Range(files'))
  /\ UNCHANGED listing

(* A name is in a directory once. *)
remove(f) ==
  IF f \in Range(files)
  THEN \E i \in 1..Len(files) : files[i] = f /\ files' = RemoveAt(files, i)
  ELSE files' = files

(* execute_cmd returns None, which broadcast cannot encode. *)
remove_log(id) ==
  \/ Raises("delete_log", id)
  \/ /\ pathExists
     /\ Took("delete_log", id, FileOf(id))
     /\ remove(FileOf(id))
     /\ linked' = (linked /\ FileOf(id) # log_file)
     /\ UNCHANGED listing

execute_cmd ==
  /\ up
  /\ available_logs \/ \E id \in Ids : get_log(id) \/ remove_log(id)
  /\ UNCHANGED <<pathExists, content, up, log_file, buffer, stamp, written,
                 clean, lines, starts>>

-----------------------------------------------------------------------------
(* External: the buffer fills up, and its first lines go to the file - which *)
(* may have been removed from the directory.                                 *)
ToDisk(k) ==
  content' = IF linked
             THEN [content EXCEPT ![log_file] = @ \o SubSeq(buffer, 1, k)]
             ELSE content

Flush ==
  /\ \E k \in 1..Len(buffer) :
       ToDisk(k) /\ buffer' = SubSeq(buffer, k + 1, Len(buffer))
  /\ UNCHANGED <<pathExists, files, up, log_file, linked, stamp, written,
                 clean, listing, last, lines, starts>>

(* Mutant: os._exit, which writes no buffer. *)
interrupt_unflushed ==
  /\ up
  /\ up' = FALSE
  /\ content' = content
  /\ buffer' = <<>>
  /\ clean' = clean \union {starts}
  /\ log_file' = None
  /\ linked' = FALSE
  /\ UNCHANGED <<pathExists, files, stamp, written, listing, last, lines,
                 starts>>

(* Ctrl-C: sys.exit closes log_file, which writes its buffer. *)
interrupt ==
  /\ up
  /\ up' = FALSE
  /\ ToDisk(Len(buffer))
  /\ buffer' = <<>>
  /\ clean' = clean \union {starts}
  /\ log_file' = None
  /\ linked' = FALSE
  /\ UNCHANGED <<pathExists, files, stamp, written, listing, last, lines,
                 starts>>

(* The process is killed or the power fails: the buffer is gone, and perhaps *)
(* the end of the file.                                                      *)
Crash ==
  /\ up
  /\ up' = FALSE
  /\ IF linked
     THEN \E k \in 0..Len(content[log_file]) :
            content' = [content EXCEPT ![log_file] = SubSeq(@, 1, k)]
     ELSE content' = content
  /\ buffer' = <<>>
  /\ log_file' = None
  /\ linked' = FALSE
  /\ UNCHANGED <<pathExists, files, stamp, written, clean, listing, last,
                 lines, starts>>

Next ==
  \/ \E n \in Name : Logger(n)
  \/ write_line
  \/ execute_cmd
  \/ Flush
  \/ interrupt
  \/ Crash

Spec == Init /\ [][Next]_vars

-----------------------------------------------------------------------------
(* No later run opened the file that run r opened. *)
LastUnderItsName(r) ==
  stamp[r] # None /\ \A q \in Run : q > r => stamp[q] # stamp[r]

(* A file holds the beginning of what the last run under its name wrote,     *)
(* through crashes, restarts, deletions and names used again: nothing of     *)
(* another run, no gap, no line twice; while the run lasts the rest is in    *)
(* the buffer, so what read_log shows of the current log lags behind by that *)
(* (logger.py 17-21, 33-37, main.py 11-17).                                  *)
DiskIsPrefix ==
  /\ TypeOK
  /\ \A r \in Run : LastUnderItsName(r) /\ stamp[r] \in Range(files) =>
       IsPrefix(content[stamp[r]], written[r])
  /\ linked => content[log_file] \o buffer = written[starts]

(* What was logged by a run that Ctrl-C stopped is all in its file when the  *)
(* process ends, and stays there through later runs, crashes and deletions   *)
(* of other logs (main.py 11-17).  Two things end that: the log is deleted,  *)
(* or a later run is started under the same time stamp, which empties the    *)
(* file (logger.py 17-18).                                                   *)
CleanStopKeepsEverything ==
  \A r \in clean :
    \/ stamp[r] \notin Range(files)
    \/ \E q \in r + 1 .. starts : stamp[q] = stamp[r]
    \/ content[stamp[r]] = written[r]

(* As long as the directory is as it was listed, an id from the listing      *)
(* reads and deletes the log it was listed with, and one beyond its end none *)
(* (logger.py 50-101).  Neither holds once a log was added or deleted, and   *)
(* ids below 1 count from the end.                                           *)
FreshIdsAreRight ==
  last.cmd \in {"read_log", "delete_log"} /\ last.fresh /\ last.id >= 1
    => last.file = last.shown

(* A log is changed only by the run that writes it, and disappears only when *)
(* it is deleted itself: starting, stopping, crashing and deleting leave the *)
(* other logs alone (logger.py 9-21, 86-103, main.py 11-17).  A start under  *)
(* the same time stamp writes, and thereby empties, the earlier log.         *)
OthersUntouched ==
  [][\A n \in Range(files) :
       /\ \/ n \in Range(files')
          \/ last'.cmd = "delete_log" /\ last'.file = n
       /\ n \notin {log_file, log_file'} => content'[n] = content[n]]_vars

=============================================================================
