-------------------------------- MODULE Sketch --------------------------------
(***************************************************************************)
(* The command handlers of the sketch (arduino/librexc/librexc.ino): what  *)
(* the Arduino does with a command the packet parser has let through, from *)
(* handleData to the answer it prints.                                     *)
(*                                                                         *)
(* The ELM library, and the car behind it, are external: every call may    *)
(* fail, and pid_available may say anything.  One call is one step.        *)
(*                                                                         *)
(* An answer is text; here it is the sequence of its tokens, because what  *)
(* can go wrong in it are braces, brackets and commas.  "item" stands for  *)
(* a value or a pair of a name and a value, "key" for a name whose value   *)
(* follows, "pid" for the pair that names a pid.                           *)
(***************************************************************************)
EXTENDS Integers, Sequences, SequencesExt, FiniteSets

CONSTANTS LastPid,    (* the last pid read_all asks for, 255 in the code     *)
          MaxCommands (* bound: number of commands                           *)

ASSUME SketchAssumption == LastPid \in Nat /\ MaxCommands \in Nat

VARIABLES
  cmd,      (* the command being handled, 0 if none                          *)
  at,       (* the parameter of read_pid, or where the loop of read_all or   *)
            (* read_car stands                                               *)
  data,     (* the String of that name: what the answer will carry           *)
  error,    (* the flag of that name                                         *)
  answers,  (* what was printed                                              *)
  requests, (* history: the commands handled                                 *)
  found,    (* history: pids the ELM called available, during this command   *)
  failed,   (* history: did a call of the ELM fail during this command?      *)
  late      (* history: was the ELM called after that, for this command?     *)

handlerVars == <<cmd, at, data, error>>
vars == <<handlerVars, answers, requests, found, failed, late>>

Pid      == 0..LastPid
Commands == 1..7
ReadAll  == 3
ReadPid  == 4
ReadCar  == 5
Question == <<"vin", "ecu", "voltage", "protocol">>

Kind  == {"lbrace", "rbrace", "lbrack", "rbrack", "comma",
          "key", "item", "pid"}
Token == Kind \X Pid
Tok(kind) == <<kind, 0>>
Text(kinds) == [i \in 1..Len(kinds) |-> Tok(kinds[i])]

(* read_pid puts the text of the ELM's error where the others say "error". *)
Status == {"ok", "error", "elm error"}
Answer == [cmd : Commands, status : Status, text : Seq(Token)]

TypeOK ==
  /\ cmd \in 0..7 /\ at \in 0..LastPid + 5
  /\ data \in Seq(Token) /\ error \in BOOLEAN
  /\ answers \in Seq(Answer) /\ requests \in Seq(Commands)
  /\ Len(requests) <= MaxCommands
  /\ found \subseteq Pid /\ failed \in BOOLEAN /\ late \in BOOLEAN

Init ==
  /\ cmd = 0 /\ at = 0 /\ data = <<>> /\ error = FALSE
  /\ answers = <<>> /\ requests = <<>>
  /\ found = {} /\ failed = FALSE /\ late = FALSE

-----------------------------------------------------------------------------
(* The command and the status, which every answer begins with. *)
Preamble == Text(<<"lbrace", "item", "comma", "item">>)

(* Mutant: no comma before the data. *)
make_jsonNoComma(value) ==
  Preamble \o (IF value # <<>> THEN Text(<<"key">>) \o value ELSE <<>>)
           \o Text(<<"rbrace">>)

make_json(value) ==
  Preamble
    \o (IF value # <<>> THEN Text(<<"comma", "key">>) \o value ELSE <<>>)
    \o Text(<<"rbrace">>)

make_jsondata_pid(pid) ==
  Text(<<"lbrace">>) \o << <<"pid", pid>> >>
    \o Text(<<"comma", "item", "rbrace">>)

Wrap(open, value, close) == Text(<<open>>) \o value \o Text(<<close>>)

printLine(status, text) ==
  /\ answers' = Append(answers,
                       [cmd |-> cmd, status |-> status, text |-> text])
  /\ cmd' = 0

respond(status, value) == printLine(status, make_json(value))

(* A call of the ELM library. *)
Ask(ok) == late' = (late \/ failed) /\ failed' = (failed \/ ~ok)

handleData(c, parameter) ==
  /\ cmd = 0
  /\ Len(requests) < MaxCommands
  /\ cmd' = c
  /\ at' = CASE c = ReadPid -> parameter
             [] c = ReadCar -> 1
             [] OTHER       -> 0
  /\ data' = <<>> /\ error' = FALSE
  /\ requests' = Append(requests, c)
  /\ found' = {} /\ failed' = FALSE /\ late' = FALSE
  /\ UNCHANGED answers

(* reset and delete_dtc; available_pids and read_dtc, whose data is put in   *)
(* brackets or in quotes.                                                    *)
Simple(c, value) ==
  /\ cmd = c
  /\ \E ok \in BOOLEAN :
       /\ Ask(ok)
       /\ IF ok THEN respond("ok", value) ELSE respond("error", <<>>)
  /\ UNCHANGED <<at, data, error, requests, found>>

reset          == Simple(1, <<>>)
available_pids == Simple(2, Text(<<"lbrack", "item", "rbrack">>))
read_dtc       == Simple(6, Text(<<"item">>))
delete_dtc     == Simple(7, <<>>)

read_pid ==
  /\ cmd = ReadPid
  /\ \E ok \in BOOLEAN :
       /\ Ask(ok)
       /\ IF ok
          THEN respond("ok", Wrap("lbrack", make_jsondata_pid(at), "rbrack"))
          ELSE respond("elm error", <<>>)
  /\ UNCHANGED <<at, data, error, requests, found>>

-----------------------------------------------------------------------------
MorePids == cmd = ReadAll /\ at <= LastPid /\ ~error

PidAbsent ==
  /\ MorePids
  /\ at' = at + 1
  /\ Ask(TRUE)
  /\ UNCHANGED <<cmd, data, error, answers, requests, found>>

Separator == IF found = {} THEN <<>> ELSE Text(<<"comma">>)

(* pid_available, then get_pid_data; an error ends the loop.  `first` is     *)
(* true until a pid is available.                                            *)
PidPresent ==
  /\ MorePids
  /\ found' = found \union {at}
  /\ \E ok \in BOOLEAN :
       /\ Ask(ok)
       /\ data' = data \o Separator
                       \o (IF ok THEN make_jsondata_pid(at) ELSE <<>>)
       /\ IF ok THEN at' = at + 1 /\ UNCHANGED error
                ELSE error' = TRUE /\ UNCHANGED at
  /\ UNCHANGED <<cmd, answers, requests>>

(* The answer is not made by make_json, unless there was an error. *)
AllPids(value) ==
  Preamble \o Text(<<"comma", "key", "lbrack">>)
           \o value \o Text(<<"rbrack">>)

(* Mutant: a failure is only noted. *)
AllReadSilently ==
  /\ cmd = ReadAll
  /\ ~MorePids
  /\ IF error THEN cmd' = 0 /\ UNCHANGED answers
     ELSE printLine("ok", AllPids(data))
  /\ UNCHANGED <<at, data, error, requests, found, failed, late>>

AllRead ==
  /\ cmd = ReadAll
  /\ ~MorePids
  /\ IF error THEN respond("error", <<>>)
     ELSE printLine("ok", AllPids(data))
  /\ UNCHANGED <<at, data, error, requests, found, failed, late>>

read_all == PidAbsent \/ PidPresent \/ AllRead

-----------------------------------------------------------------------------
MoreQuestions == cmd = ReadCar /\ at <= Len(Question) /\ ~error

(* Mutant: without the break, a later answer makes up for an error. *)
CarQuestionForgets ==
  /\ MoreQuestions
  /\ \E ok \in BOOLEAN :
       /\ Ask(ok)
       /\ data' = IF ok THEN data \o Text(<<"item">>) ELSE data
       /\ error' = (at = Len(Question) /\ ~ok)
       /\ at' = at + 1
  /\ UNCHANGED <<cmd, answers, requests, found>>

(* Mutant: `continue` for `break`. *)
CarQuestionRetries ==
  /\ MoreQuestions
  /\ \E ok \in BOOLEAN :
       /\ Ask(ok)
       /\ IF ok
          THEN /\ data' = data \o (IF at < Len(Question)
                                   THEN Text(<<"item", "comma">>)
                                   ELSE Text(<<"item">>))
               /\ at' = at + 1
          ELSE data' = <<>> /\ at' = 1
  /\ UNCHANGED <<cmd, error, answers, requests, found>>

(* get_vin, get_ecu, get_voltage, get_protocol: the first error ends it. *)
CarQuestion ==
  /\ MoreQuestions
  /\ \E ok \in BOOLEAN :
       /\ Ask(ok)
       /\ IF ok
          THEN /\ data' = data \o (IF at < Len(Question)
                                   THEN Text(<<"item", "comma">>)
                                   ELSE Text(<<"item">>))
               /\ at' = at + 1
               /\ UNCHANGED error
          ELSE error' = TRUE /\ UNCHANGED <<data, at>>
  /\ UNCHANGED <<cmd, answers, requests, found>>

CarRead ==
  /\ cmd = ReadCar
  /\ ~MoreQuestions
  /\ IF error THEN respond("error", <<>>)
              ELSE respond("ok", Wrap("lbrace", data, "rbrace"))
  /\ UNCHANGED <<at, data, error, requests, found, failed, late>>

read_car == CarQuestion \/ CarRead

Handler ==
  reset \/ available_pids \/ read_all \/ read_pid \/ read_car \/ read_dtc
    \/ delete_dtc

Next ==
  Handler \/ \E c \in Commands, parameter \in Pid : handleData(c, parameter)

Spec == Init /\ [][Next]_vars

(* The sketch has the processor to itself, and a call of the ELM returns.  Of *)
(* read_all's two outcomes for a pid either will do, so Handler is fair as a  *)
(* whole.                                                                     *)
FairSpec == Spec /\ WF_vars(Handler)

-----------------------------------------------------------------------------
(* Every command is answered once, in order and under its own name, which is *)
(* all a client has to tell which command was carried out; and the handlers  *)
(* stay within their types, the loop of read_all within the pids             *)
(* (librexc.ino 52-62, 136-242).                                             *)
OneAnswerEach ==
  /\ TypeOK
  /\ Len(answers) = Len(requests) - (IF cmd = 0 THEN 0 ELSE 1)
  /\ \A k \in 1..Len(answers) : answers[k].cmd = requests[k]

PidAt(text) == {i \in 1..Len(text) : text[i][1] = "pid"}

TellsOf(text, pids) ==
  /\ {text[i][2] : i \in PidAt(text)} = pids
  /\ \A i, j \in PidAt(text) : i < j => text[i][2] < text[j][2]

(* "ok" means that no call of the ELM failed, in handlers that make several; *)
(* after a failure nothing more is asked of it for this command; and when    *)
(* there was none, read_all tells of every pid that is available, once and   *)
(* in order (librexc.ino 155-220).                                           *)
AnswerTellsTheTruth ==
  /\ ~late
  /\ cmd = 0 /\ answers # <<>> =>
       LET answer == Last(answers)
       IN  /\ answer.status = "ok" <=> ~failed
           /\ answer.cmd = ReadAll /\ answer.status = "ok" =>
                TellsOf(answer.text, found)

Excess(text, open, close) ==
    Cardinality({i \in 1..Len(text) : text[i] = Tok(open)})
  - Cardinality({i \in 1..Len(text) : text[i] = Tok(close)})

Follows(first, second) ==
  CASE first \in {"item", "pid", "rbrace", "rbrack"}
         -> second \in {"comma", "rbrace", "rbrack"}
    [] first = "lbrace" -> second \in {"item", "pid", "key", "rbrace"}
    [] first = "lbrack" -> second \in {"item", "lbrace", "rbrack"}
    [] first = "comma" -> second \in {"item", "pid", "key", "lbrace"}
    [] first = "key" -> second \in {"item", "lbrace", "lbrack"}

IsJson(text) ==
  /\ Excess(text, "lbrace", "rbrace") = 0
  /\ Excess(text, "lbrack", "rbrack") = 0
  /\ \A i \in 1..Len(text) - 1 : Follows(text[i][1], text[i + 1][1])

(* The answers are well-formed, whichever call of the ELM fails and however  *)
(* many pids there are; but the successful answer of read_all, which does    *)
(* not go through make_json, lacks its closing brace, and that only          *)
(* (librexc.ino 108-129, 157-178).                                           *)
AnswersAreJson ==
  \A k \in 1..Len(answers) :
    LET missing == IF answers[k].cmd = ReadAll /\ answers[k].status = "ok"
                   THEN Text(<<"rbrace">>) ELSE <<>>
    IN  IsJson(answers[k].text \o missing)

(* Every command comes to an end, whatever the ELM answers: read_all gets    *)
(* past the last pid, read_car leaves its while (true) (librexc.ino 155-220). *)
HandlerEnds == cmd # 0 ~> cmd = 0

=============================================================================
