------------------------------ MODULE SshLink -------------------------------
(***************************************************************************)
(* One SSH connection (crates/ssh-link) and the rows of its bank           *)
(* (core/src/ssh_channel.rs, app/src/window/{ssh,prompt,mod}.rs).          *)
(*                                                                         *)
(* Three kinds of thread: the connection's own, `run` in thread.rs, here   *)
(* called the supervisor; a task per channel, `drive`; and the window's,   *)
(* which pumps the rows, sweeps, takes questions and reads keys. Between   *)
(* any two sends or receives of one another may come.                      *)
(*                                                                         *)
(* Left out: what notices say and how they look, terminal sizes, the exit  *)
(* status, which no row reads, which keys an agent holds, synchronized updates. A write *)
(* to the far side is taken by it as long as the connection stands.        *)
(***************************************************************************)
EXTENDS Integers, SequencesExt

CONSTANTS
  Channels,          \* bound: the channels ever opened on the connection
  EVENT_QUEUE,       \* events a row may leave unread (64 in the program)
  INPUT_CAP,         \* bytes a channel holds unsent (4 MiB in the program)
  PASSPHRASE_TRIES,  \* wrong secrets per method (3 in the program)
  KeyFiles,          \* bound: key files tried in one stage
  Offers,            \* bound: the sets of methods a server may still take
  Rounds,            \* bound: rounds of the server's challenge
  Traffic            \* bound: writes typed and messages the far side sends, together

ASSUME SshLinkAssumption ==
  /\ Channels \in Nat \ {0} /\ EVENT_QUEUE \in Nat \ {0} /\ INPUT_CAP \in Nat
  /\ PASSPHRASE_TRIES \in Nat /\ KeyFiles \in Nat /\ Rounds \in Nat
  /\ Traffic \in Nat /\ Offers \subseteq SUBSET {"publickey", "keyboard", "password"}

Chan    == 1 .. Channels
Slot    == 1 .. Channels
Methods == {"publickey", "keyboard", "password"}
Events  == {"notice", "epitaph", "data", "eof"}  \* a notice that ends is an epitaph
Stages  == {"connect", "host", "probe", "named", "agent", "defaults", "prompted", "challenge",
            "respond", "last", "password", "raise", "serve", "hanging", "leaving", "over"}
Answers == {"yes", "no", "text", "cancel"}

VARIABLES
  \* the supervisor
  stage,     \* what it does next
  script,    \* what it has yet to put on wire `to`, before it does
  to,        \* the channel it is raising, 1 until it serves
  left,      \* key files or rounds the stage may still try
  tries,     \* secrets asked for in this method
  offered,   \* the methods the server would still take
  waiting,   \* it is parked on an answer
  answer,    \* the answer handed back, "none" until there is one
  \* the link's two queues, and whether the bank's record holds the link and the desk
  opens,
  desk,
  record,
  \* the connection and the far side
  conn,      \* "none", "up", "down", or "closed" by our own disconnect
  far,       \* what the far side sent on each channel, unread
  \* the channel tasks
  task,      \* "none", "queued", "driving", "holding", "saying", "ending", "gone"
  queue,     \* the events a row has not read
  cmds,      \* the writes a task has not taken: sizes, or Close
  queued,    \* the bytes counted against INPUT_CAP
  hanging,   \* hanging_up
  \* the window
  row,       \* each channel's row: its slot (0 for none) and what it has read
  prompt,    \* a question stands on the glass
  pump,      \* where the pump is: 0 between two, a row, the sweep, the desk
  moved      \* how many writes were typed and messages sent

wordVars == <<stage, script, to>>
authVars == <<left, tries, offered>>
askVars  == <<waiting, answer, desk, prompt>>
farVars  == <<conn, far>>
taskVars == <<task, queue, cmds, queued, hanging>>
rowVars  == <<row, pump, moved>>
vars     == <<wordVars, authVars, askVars, opens, record, farVars, taskVars, rowVars>>

Close   == 0
NoRow   == [slot |-> 0, lived |-> FALSE, lost |-> FALSE, told |-> FALSE, ended |-> FALSE]
NewRow(s) == [NoRow EXCEPT !.slot = s]
Up(c)   == row[c].slot # 0
Rows    == {c \in Chan : Up(c)}
At(s)   == {c \in Chan : row[c].slot = s}
Idle    == pump = 0
Sweeping == Channels + 1
AtDesk   == Channels + 2

-----------------------------------------------------------------------------

(***************************************************************************)
(* A wire's event queue: a send waits for room, and is lost on a row gone. *)
(***************************************************************************)
CanSend(c) == ~Up(c) \/ Len(queue[c]) < EVENT_QUEUE
\* A task gone has dropped its end of the writes.
DropWrites == cmds' = [c \in Chan |-> IF task'[c] = "gone" THEN <<>> ELSE cmds[c]]

Send(c, e) == CanSend(c) /\ queue' = IF Up(c) THEN [queue EXCEPT ![c] = Append(@, e)] ELSE queue

\* The supervisor has said what it had to, and is not parked on an answer.
Awake == script = <<>> /\ ~waiting
\* It has returned: its end of the link is gone.
Over  == stage = "over" /\ script = <<>>

Does(next)        == stage' = next /\ UNCHANGED <<script, to>>
Says(words, next) == stage' = next /\ script' = words /\ UNCHANGED to

Ends(words)       == Says(Append(words, "eof"), "over")

\* With its Eof the supervisor lets the wire go; when that ends it, the wires
\* still queued behind it go too, with nothing said on them.
SupSend ==
  /\ script # <<>> /\ Send(to, Head(script))
  /\ script' = Tail(script)
  /\ LET last == Tail(script) = <<>> /\ Head(script) = "eof"
         ends == last /\ stage = "over"
     IN /\ task' = [c \in Chan |-> IF (last /\ c = to) \/ (ends /\ task[c] = "queued")
                                   THEN "gone" ELSE task[c]]
        /\ opens' = IF ends THEN <<>> ELSE opens
  /\ DropWrites
  /\ UNCHANGED <<stage, to, authVars, askVars, record, farVars, queued, hanging, rowVars>>

(***************************************************************************)
(* A question goes to the desk; its asker parks until it is answered or    *)
(* dropped. With no desk it is cancelled at once.                          *)
(***************************************************************************)
\* Mutant: with no desk it parks all the same.
AsksAnyway ==
  /\ waiting' = TRUE /\ answer' = "none"
  /\ desk' = IF record THEN Append(desk, "question") ELSE desk
  /\ UNCHANGED prompt

Asks ==
  /\ waiting' = TRUE
  /\ answer' = IF record THEN "none" ELSE "cancel"
  /\ desk' = IF record THEN Append(desk, "question") ELSE desk
  /\ UNCHANGED prompt
Answered == waiting /\ answer # "none"
Woken    == waiting' = FALSE /\ answer' = "none" /\ UNCHANGED <<desk, prompt>>

Elsewhere == UNCHANGED <<opens, record, farVars, taskVars, rowVars>>

-----------------------------------------------------------------------------
(***************************************************************************)
(* The supervisor: connect, then the host key.                             *)
(***************************************************************************)
Connect ==
  /\ stage = "connect" /\ Awake
  /\ \/ Ends(<<"epitaph">>) /\ UNCHANGED <<askVars, conn>>   \* no connection, or the key refused
     \/ Does("probe") /\ conn' = "up" /\ UNCHANGED askVars    \* the key is on record
     \/ Does("host") /\ conn' = "up" /\ Asks                  \* the key is not
  /\ UNCHANGED <<authVars, opens, record, far, taskVars, rowVars>>

\* Only `yes` is a yes; what is neither word is asked again.
HostAnswered ==
  /\ stage = "host" /\ Answered
  /\ \/ /\ answer = "yes" /\ conn = "up"
        /\ Does("probe")
        /\ waiting' = FALSE /\ answer' = "none" /\ UNCHANGED prompt
        /\ \/ UNCHANGED desk
           \/ record /\ desk' = Append(desk, "say")     \* it could not be recorded
     \/ /\ answer \in {"no", "cancel"} \/ (answer = "yes" /\ conn = "down")
        /\ Ends(<<"epitaph">>) /\ Woken
     \/ answer = "text" /\ Does("host") /\ Asks
  /\ UNCHANGED authVars /\ Elsewhere

(***************************************************************************)
(* authenticate: the methods in order, each while the server offers it.    *)
(***************************************************************************)
\* What a rejection leaves on offer.
Rejected == IF conn = "up" THEN offered' \in Offers ELSE UNCHANGED offered

\* Its locals go with it.
Returns   == left' = 0 /\ tries' = 0 /\ offered' = {}
Cancelled == answer = "cancel" /\ Ends(<<"epitaph">>) /\ Woken /\ Returns
Accepted  == conn = "up" /\ Says(<<"notice">>, "raise") /\ Returns

Probe ==
  /\ stage = "probe" /\ Awake
  /\ \/ conn = "up" /\ Does("raise") /\ UNCHANGED authVars
     \/ conn = "down" /\ Ends(<<"epitaph">>) /\ UNCHANGED authVars
     \/ /\ conn = "up" /\ Rejected
        /\ left' \in 0 .. KeyFiles /\ tries' = 0
        /\ IF "publickey" \notin offered' THEN Does("prompted")
           ELSE Does("agent") \/ (left' > 0 /\ Does("named"))
  /\ UNCHANGED askVars /\ Elsewhere

\* `left` counts the named files, or with none named the default ones.
NextFile == /\ left' = left - 1 /\ tries' = 0
            /\ stage' = IF left > 1 THEN stage ELSE IF stage = "named" THEN "agent" ELSE "prompted"

GiveUpFile(words) == NextFile /\ script' = words /\ UNCHANGED to

\* The key is open: the server takes it or does not.
Sign == Accepted \/ (Rejected /\ GiveUpFile(<<"notice">>))

KeyFile ==
  /\ stage \in {"named", "defaults"} /\ Awake
  /\ \/ tries = 0 /\ Sign /\ UNCHANGED askVars
     \/ tries = 0 /\ GiveUpFile(<<"notice">>) /\ UNCHANGED <<offered, askVars>>   \* unreadable
     \/ /\ tries < PASSPHRASE_TRIES /\ tries' = tries + 1
        /\ Asks /\ Does(stage) /\ UNCHANGED <<left, offered>>
     \/ /\ tries = PASSPHRASE_TRIES /\ GiveUpFile(<<"notice">>)                  \* stays locked
        /\ UNCHANGED <<offered, askVars>>
  /\ Elsewhere

Passphrase ==
  /\ stage \in {"named", "defaults"} /\ Answered
  /\ \/ Cancelled
     \/ answer # "cancel" /\ Woken /\ Sign
     \/ /\ answer # "cancel" /\ Woken /\ Says(<<"notice">>, stage)              \* did not open it
        /\ UNCHANGED authVars
  /\ Elsewhere

Agent ==
  /\ stage = "agent" /\ Awake
  /\ \/ Accepted
     \/ /\ Rejected /\ UNCHANGED <<left, tries>>
        /\ Says(<<"notice">>, IF left > 0 THEN "defaults" ELSE "prompted")
  /\ UNCHANGED askVars /\ Elsewhere

\* The prompted methods, challenge before password; then the summary.
Prompted ==
  /\ stage \in {"prompted", "last"} /\ Awake
  /\ \/ /\ stage = "prompted" /\ "keyboard" \in offered
        /\ Does("challenge") /\ left' = Rounds /\ UNCHANGED <<tries, offered>>
     \/ /\ stage = "last" \/ "keyboard" \notin offered
        /\ IF "password" \in offered
           THEN Does("password") /\ UNCHANGED authVars
           ELSE Ends(<<"epitaph">>) /\ Returns
  /\ UNCHANGED askVars /\ Elsewhere

\* A round frames its questions on the wire before it asks them.
Challenge ==
  /\ stage = "challenge" /\ Awake
  /\ \/ Accepted
     \/ Rejected /\ Says(<<"notice">>, "last") /\ left' = 0 /\ UNCHANGED tries
     \/ /\ conn = "up" /\ left > 0 /\ left' = left - 1
        /\ \E words \in {<<>>, <<"notice">>}, next \in {"respond", "challenge"} : Says(words, next)
        /\ UNCHANGED <<tries, offered>>
  /\ UNCHANGED askVars /\ Elsewhere

Respond ==
  /\ stage = "respond"
  /\ \/ Awake /\ Asks /\ Does(stage) /\ UNCHANGED authVars
     \/ Answered /\ Cancelled
     \/ Answered /\ answer # "cancel" /\ Woken /\ Does("challenge") /\ UNCHANGED authVars
  /\ Elsewhere

AskPassword ==
  /\ stage = "password" /\ Awake
  /\ \/ /\ tries < PASSPHRASE_TRIES /\ tries' = tries + 1
        /\ Asks /\ Does(stage) /\ UNCHANGED <<left, offered>>
     \/ /\ tries = PASSPHRASE_TRIES /\ Ends(<<"epitaph">>) /\ Returns
        /\ UNCHANGED askVars
  /\ Elsewhere

\* Another try is explained on the wire before it is asked for.
Password ==
  /\ stage = "password" /\ Answered
  /\ \/ Cancelled
     \/ answer # "cancel" /\ Woken /\ Accepted
     \/ /\ answer # "cancel" /\ Woken /\ conn = "up" /\ Rejected
        /\ Says(IF tries < PASSPHRASE_TRIES THEN <<"notice">> ELSE <<>>, stage)
        /\ UNCHANGED <<left, tries>>
     \/ /\ answer # "cancel" /\ Woken /\ conn = "down"
        /\ Ends(<<"notice", "epitaph">>) /\ Returns
  /\ Elsewhere

-----------------------------------------------------------------------------
(***************************************************************************)
(* The supervisor: raise the first channel, then those asked for.          *)
(***************************************************************************)
\* Mutant: a refusal leaves the wire standing.
RaiseHalfRefused ==
  /\ stage = "raise" /\ Awake
  /\ \/ /\ conn = "up"
        /\ task' = [task EXCEPT ![to] = "driving"]
        /\ Does("serve")
     \/ Says(<<"epitaph">>, "serve") /\ UNCHANGED task
  /\ UNCHANGED <<authVars, askVars, opens, record, farVars, queue, cmds, queued, hanging, rowVars>>

Raise ==
  /\ stage = "raise" /\ Awake
  /\ \/ /\ conn = "up"
        /\ task' = [task EXCEPT ![to] = "driving"]
        /\ Does("serve")
     \/ Says(<<"epitaph", "eof">>, "serve") /\ UNCHANGED task      \* refused
  /\ UNCHANGED <<authVars, askVars, opens, record, farVars, queue, cmds, queued, hanging, rowVars>>

Serve ==
  /\ stage = "serve" /\ Awake
  /\ \/ /\ opens # <<>>
        /\ stage' = "raise" /\ to' = Head(opens) /\ opens' = Tail(opens)
        /\ UNCHANGED <<script, hanging>>
     \/ /\ opens = <<>> /\ ~record
        /\ Does("hanging") /\ hanging' = TRUE /\ UNCHANGED opens
  /\ UNCHANGED <<authVars, askVars, record, farVars, task, queue, cmds, queued, rowVars>>

\* disconnect; the tasks run on until `run` returns and the runtime goes down.
HangUp ==
  /\ stage = "hanging" /\ Does("leaving")
  /\ conn' = IF conn = "up" THEN "closed" ELSE conn
  /\ UNCHANGED <<authVars, askVars, opens, record, far, taskVars, rowVars>>

Leave ==
  /\ stage = "leaving" /\ Does("over")
  /\ task' = [c \in Chan |-> IF task[c] = "none" THEN "none" ELSE "gone"] /\ DropWrites
  /\ UNCHANGED <<authVars, askVars, opens, record, farVars, queue, queued, hanging, rowVars>>

-----------------------------------------------------------------------------
(***************************************************************************)
(* A channel's task takes whatever is ready, a write or a message; with a  *)
(* message in hand and its row's queue full it waits, and takes no write.  *)
(***************************************************************************)
Ending(c) == task' = [task EXCEPT ![c] = "ending"]
\* Mutant: a loss is not said.
LostUnsaid(c) == Ending(c)

Lost(c)  == task' = [task EXCEPT ![c] = IF hanging THEN "ending" ELSE "saying"]

\* Mutant: only a write that went is given back to the budget.
TakeWriteSent(c) ==
  /\ task[c] = "driving" /\ cmds[c] # <<>>
  /\ LET n == Head(cmds[c]) IN
       CASE n = Close   -> Ending(c) /\ UNCHANGED queued
         [] conn # "up" -> Lost(c) /\ UNCHANGED queued
         [] OTHER       -> UNCHANGED task /\ queued' = [queued EXCEPT ![c] = @ - n]
  /\ cmds' = [cmds EXCEPT ![c] = Tail(@)]
  /\ UNCHANGED <<wordVars, authVars, askVars, opens, record, farVars, queue, hanging, rowVars>>

\* A write is given back to the budget whether or not it went.
TakeWrite(c) ==
  /\ task[c] = "driving" /\ cmds[c] # <<>>
  /\ LET n == Head(cmds[c]) IN
       /\ queued' = [queued EXCEPT ![c] = @ - n]
       /\ CASE n = Close   -> Ending(c)
            [] conn # "up" -> Lost(c)
            [] OTHER       -> UNCHANGED task
  /\ cmds' = [cmds EXCEPT ![c] = Tail(@)]
  /\ UNCHANGED <<wordVars, authVars, askVars, opens, record, farVars, queue, hanging, rowVars>>

\* What came before the connection went is still read; then nothing is.
TakeMessage(c) ==
  /\ task[c] = "driving"
  /\ \/ far[c] # <<>> /\ Head(far[c]) = "close" /\ Ending(c)
     \/ far[c] # <<>> /\ Head(far[c]) # "close" /\ task' = [task EXCEPT ![c] = "holding"]
     \/ far[c] = <<>> /\ conn # "up" /\ Lost(c)
  /\ UNCHANGED <<wordVars, authVars, askVars, opens, record, farVars, queue, cmds, queued, hanging, rowVars>>

HandOver(c) ==
  /\ task[c] = "holding" /\ Send(c, Head(far[c]))
  /\ far' = [far EXCEPT ![c] = Tail(@)]
  /\ task' = [task EXCEPT ![c] = IF Up(c) THEN "driving" ELSE "ending"]
  /\ UNCHANGED <<wordVars, authVars, askVars, opens, record, conn, cmds, queued, hanging, rowVars>>

TaskEnds(c) ==
  /\ \/ task[c] = "saying" /\ Send(c, "epitaph") /\ Ending(c)
     \/ task[c] = "ending" /\ Send(c, "eof") /\ task' = [task EXCEPT ![c] = "gone"]
  /\ DropWrites
  /\ UNCHANGED <<wordVars, authVars, askVars, opens, record, farVars, queued, hanging, rowVars>>

FarSends(c) ==
  /\ conn = "up" /\ task[c] \in {"driving", "holding"} /\ moved < Traffic
  /\ "close" \notin ToSet(far[c])
  /\ \E m \in {"data", "close"} : far' = [far EXCEPT ![c] = Append(@, m)]
  /\ moved' = moved + 1
  /\ UNCHANGED <<wordVars, authVars, askVars, opens, record, conn, taskVars, row, pump>>

ConnDies ==
  /\ conn = "up" /\ conn' = "down"
  /\ UNCHANGED <<wordVars, authVars, askVars, opens, record, far, taskVars, rowVars>>

-----------------------------------------------------------------------------
(***************************************************************************)
(* The window's pump: every row until it has nothing more to say, then the *)
(* rows that died and the record of a bank left with none, then the desk.  *)
(***************************************************************************)
After(c) == Min({Sweeping} \cup {d \in Rows : d > c /\ ~row[d].ended})

PumpStart ==
  /\ Idle /\ pump' = After(0)
  /\ UNCHANGED <<wordVars, authVars, askVars, opens, record, farVars, taskVars, row, moved>>

\* The Eof law: a row leaves by itself only if it lived and was not lost.
Died      == {c \in Rows : row[c].ended /\ row[c].lived /\ ~row[c].lost}
Ended(c)  == row' = [row EXCEPT ![c].ended = TRUE]
Speaks(c) == row' = [row EXCEPT ![c].lost = @ \/ row[c].lived,
                                ![c].told = @ \/ Head(queue[c]) = "epitaph"]

\* Mutant: a sender gone reads as nothing yet.
PumpRowWaiting(c) ==
  /\ pump = c
  /\ IF queue[c] = <<>>
     THEN pump' = After(c) /\ UNCHANGED <<row, queue>>
     ELSE /\ queue' = [queue EXCEPT ![c] = Tail(@)]
          /\ CASE Head(queue[c]) = "eof"  -> Ended(c) /\ pump' = After(c)
               [] Head(queue[c]) = "data" -> row' = [row EXCEPT ![c].lived = TRUE] /\ UNCHANGED pump
               [] OTHER                   -> Speaks(c) /\ UNCHANGED pump
  /\ UNCHANGED <<wordVars, authVars, askVars, opens, record, farVars, task, cmds, queued, hanging, moved>>

PumpRow(c) ==
  /\ pump = c
  /\ IF queue[c] = <<>>
     THEN /\ IF task[c] = "gone" THEN Ended(c) ELSE UNCHANGED row
          /\ pump' = After(c) /\ UNCHANGED queue
     ELSE /\ queue' = [queue EXCEPT ![c] = Tail(@)]
          /\ CASE Head(queue[c]) = "eof"  -> Ended(c) /\ pump' = After(c)
               [] Head(queue[c]) = "data" -> row' = [row EXCEPT ![c].lived = TRUE] /\ UNCHANGED pump
               [] OTHER                   -> Speaks(c) /\ UNCHANGED pump
  /\ UNCHANGED <<wordVars, authVars, askVars, opens, record, farVars, task, cmds, queued, hanging, moved>>

\* A row gone drops its handle: what it had not read goes, and Close follows
\* its writes.
Drops(gone) ==
  /\ row' = [c \in Chan |-> IF c \in gone THEN NoRow ELSE row[c]]
  /\ queue' = [c \in Chan |-> IF c \in gone THEN <<>> ELSE queue[c]]
  /\ cmds' = [c \in Chan |-> IF c \in gone /\ task[c] # "gone" THEN Append(cmds[c], Close)
                             ELSE cmds[c]]

\* Mutant: the question dropped does not release its asker.
DropRecordOnly == record' = FALSE /\ desk' = <<>> /\ prompt' = FALSE /\ UNCHANGED answer

\* The record goes with the bank's last row: link, desk and question with it.
DropRecord == /\ record' = FALSE /\ desk' = <<>> /\ prompt' = FALSE
              /\ answer' = IF waiting /\ answer = "none" THEN "cancel" ELSE answer

PumpSweep ==
  /\ pump = Sweeping /\ pump' = AtDesk
  /\ Drops(Died)
  /\ IF Rows \subseteq Died THEN DropRecord ELSE UNCHANGED <<record, desk, prompt, answer>>
  /\ UNCHANGED <<wordVars, authVars, waiting, opens, farVars, task, queued, hanging, moved>>

\* A bank that holds a question is not asked another.
PumpAsks ==
  /\ pump = AtDesk
  /\ IF prompt \/ desk = <<>>
     THEN pump' = 0 /\ UNCHANGED <<desk, prompt>>
     ELSE desk' = Tail(desk) /\ prompt' = (Head(desk) = "question") /\ UNCHANGED pump
  /\ UNCHANGED <<wordVars, authVars, waiting, answer, opens, record, farVars, taskVars, row, moved>>

-----------------------------------------------------------------------------
(***************************************************************************)
(* The person: an answer, a write, a channel closed, stored or opened, the *)
(* bank let go. The window's thread hears them between two pumps.          *)
(***************************************************************************)
\* The prompt has the keys of slot 1; a host key is asked about in words.
PromptKey ==
  /\ Idle /\ prompt /\ At(1) # {}
  /\ prompt' = FALSE
  /\ answer' \in IF stage = "host" THEN Answers ELSE {"text", "cancel"}
  /\ UNCHANGED <<wordVars, authVars, waiting, desk, opens, record, farVars, taskVars, rowVars>>

Type(c) ==
  /\ Idle /\ Up(c) /\ ~(prompt /\ row[c].slot = 1)
  /\ moved < Traffic /\ moved' = moved + 1
  /\ \E n \in 1 .. 2 :
       /\ queued[c] + n <= INPUT_CAP
       /\ queued' = [queued EXCEPT ![c] = @ + n]
       /\ cmds' = IF task[c] = "gone" THEN cmds ELSE [cmds EXCEPT ![c] = Append(@, n)]
  /\ UNCHANGED <<wordVars, authVars, askVars, opens, record, farVars, task, queue, hanging, row, pump>>

CloseRow(c) ==
  /\ Idle /\ Up(c) /\ Drops({c})
  /\ UNCHANGED <<wordVars, authVars, askVars, opens, record, farVars, task, queued, hanging, pump, moved>>

\* A row takes another slot of its bank, and whoever sits there takes its own.
Store(c, s) ==
  /\ Idle /\ Up(c) /\ row[c].slot # s
  /\ row' = [d \in Chan |-> IF d = c THEN [row[d] EXCEPT !.slot = s]
                            ELSE IF row[d].slot = s THEN [row[d] EXCEPT !.slot = row[c].slot]
                            ELSE row[d]]
  /\ UNCHANGED <<wordVars, authVars, askVars, opens, record, farVars, taskVars, pump, moved>>

\* Alt+Shift+D: the record goes and the rows stand.
Detach ==
  /\ Idle /\ record /\ Rows # {} /\ DropRecord
  /\ UNCHANGED <<wordVars, authVars, waiting, opens, farVars, taskVars, rowVars>>

\* Its row is raised at once; what becomes of it comes on its wire.
OpenChannel(s) ==
  /\ Idle /\ record /\ Rows # {} /\ ~Over /\ At(s) = {}
  /\ \E c \in Chan :
       /\ task[c] = "none" /\ \A d \in 1 .. c - 1 : task[d] # "none"
       /\ task' = [task EXCEPT ![c] = "queued"]
       /\ row' = [row EXCEPT ![c] = NewRow(s)]
       /\ opens' = Append(opens, c)
  /\ UNCHANGED <<wordVars, authVars, askVars, record, farVars, queue, cmds, queued, hanging, pump, moved>>

-----------------------------------------------------------------------------
Init ==
  /\ stage = "connect" /\ script = <<"notice">> /\ to = 1
  /\ left = 0 /\ tries = 0 /\ offered = {}
  /\ waiting = FALSE /\ answer = "none" /\ prompt = FALSE
  /\ opens = <<>> /\ desk \in {<<>>, <<"say">>} /\ record = TRUE
  /\ conn = "none" /\ far = [c \in Chan |-> <<>>] /\ moved = 0
  /\ task = [c \in Chan |-> IF c = 1 THEN "queued" ELSE "none"]
  /\ queue = [c \in Chan |-> <<>>] /\ cmds = [c \in Chan |-> <<>>]
  /\ queued = [c \in Chan |-> 0] /\ hanging = FALSE
  /\ row = [c \in Chan |-> IF c = 1 THEN NewRow(1) ELSE NoRow]
  /\ pump = 0

Supervisor ==
  \/ SupSend \/ Connect \/ HostAnswered
  \/ Probe \/ KeyFile \/ Passphrase \/ Agent \/ Prompted
  \/ Challenge \/ Respond \/ AskPassword \/ Password
  \/ Raise \/ Serve \/ HangUp \/ Leave

ChannelTask(c) == TakeWrite(c) \/ TakeMessage(c) \/ HandOver(c) \/ TaskEnds(c)

Window == PumpStart \/ (\E c \in Chan : PumpRow(c)) \/ PumpSweep \/ PumpAsks

Person ==
  \/ PromptKey \/ Detach
  \/ \E c \in Chan : Type(c) \/ CloseRow(c)
  \/ \E c \in Chan, s \in Slot : Store(c, s)
  \/ \E s \in Slot : OpenChannel(s)

Next ==
  \/ Supervisor \/ Window \/ Person \/ ConnDies
  \/ \E c \in Chan : ChannelTask(c) \/ FarSends(c)

Spec == Init /\ [][Next]_vars

\* The connection's thread and its tasks run, and the window pumps. Nothing
\* makes the person answer, the far side speak, or the connection last.
FairSpec == Spec /\ WF_vars(Supervisor) /\ WF_vars(Window)
                 /\ \A c \in Chan : WF_vars(ChannelTask(c))

-----------------------------------------------------------------------------
(***************************************************************************)
(* What must hold.                                                         *)
(***************************************************************************)
\* The types of the link's two ends and of the window's rows.
SshTypeOK ==
  /\ stage \in Stages /\ script \in Seq({"notice", "epitaph", "eof"}) /\ to \in Chan
  /\ left \in 0 .. KeyFiles \cup 0 .. Rounds /\ tries \in 0 .. PASSPHRASE_TRIES
  /\ offered \subseteq Methods /\ waiting \in BOOLEAN /\ answer \in Answers \cup {"none"}
  /\ opens \in Seq(Chan) /\ desk \in Seq({"say", "question"})
  /\ record \in BOOLEAN /\ prompt \in BOOLEAN /\ hanging \in BOOLEAN
  /\ conn \in {"none", "up", "down", "closed"}
  /\ far \in [Chan -> Seq({"data", "close"})]
  /\ task \in [Chan -> {"none", "queued", "driving", "holding", "saying", "ending", "gone"}]
  /\ queue \in [Chan -> Seq(Events)] /\ \A c \in Chan : Len(queue[c]) <= EVENT_QUEUE
  /\ cmds \in [Chan -> Seq(0 .. 2)] /\ queued \in [Chan -> Nat]
  /\ row \in [Chan -> [slot : Slot \cup {0}, lived : BOOLEAN, lost : BOOLEAN, told : BOOLEAN, ended : BOOLEAN]]
  /\ pump \in 0 .. AtDesk /\ moved \in 0 .. Traffic

\* A connection parked on an answer has its question in exactly one place, the
\* desk or the glass, and a question standing anywhere has an asker waiting:
\* `Question` is answered once or dropped once, whoever closes what.
Places == {i \in 1 .. Len(desk) : desk[i] = "question"} \cup (IF prompt THEN {0} ELSE {})

QuestionHeldOnce ==
  IF waiting /\ answer = "none" THEN \E place \in Places : Places = {place} ELSE Places = {}

\* A running total of the writes.
Adds(total, writes) ==
  total[0] = 0 /\ \A i \in 1 .. Len(writes) : total[i] = total[i - 1] + writes[i]

\* The counter two threads share never passes the budget, and while the task
\* lives it is exactly the bytes the task has yet to take.
BudgetHeld ==
  \A c \in Chan :
    /\ queued[c] <= INPUT_CAP
    /\ task[c] # "gone" =>
         \E total \in [0 .. Len(cmds[c]) -> 0 .. INPUT_CAP] :
           Adds(total, cmds[c]) /\ total[Len(cmds[c])] = queued[c]

\* And so with every queue of the link: none passes its bound.
QueuesHold == SshTypeOK /\ BudgetHeld

FarClosed(c) == far[c] # <<>> /\ Head(far[c]) = "close"

\* A row that ended and never lived has read why, but for the three ends that
\* have no words: the bank was let go, the far side closed without a byte, and
\* a channel still queued when its connection ended.
EndIsExplained ==
  \A c \in Rows : row[c].ended /\ ~row[c].lived =>
    row[c].told \/ ~record \/ FarClosed(c) \/ c > to

\* After a channel has carried a byte the one notice it can hear is the loss
\* of a connection that went by itself: never of one this side hung up.
LostIsLost == \A c \in Rows : row[c].lost => row[c].told /\ conn = "down"

\* A row leaves the bank by itself only when the far side closed its channel
\* or the bank let the connection go; a lost one stands.
RowLeavesWhenClosed == \A c \in Died : FarClosed(c) \/ ~record

\* Together: what a row shows of its end is what happened.
EndsAreHonest == EndIsExplained /\ LostIsLost /\ RowLeavesWhenClosed

\* With the record gone the connection's thread ends, whatever it was doing:
\* parked on a question, held by a row's full queue, or serving.
LetGoEnds == ~record ~> Over

\* When the connection goes, every row comes to hear its end, unless the
\* person is being asked and does not answer.
LossIsHeard ==
  conn = "down" ~> (waiting \/ \A c \in Rows : row[c].ended)

\* What was typed, even before there was a shell, leaves the budget as long as
\* there is a task to take it: a row that is not read does not hold it for ever.
BytesGoOut ==
  LET owed(c) == queued[c] > 0 /\ task[c] \in {"queued", "driving", "holding"}
  IN  (\E c \in Chan : owed(c)) ~> (waiting \/ \A c \in Chan : ~owed(c))

\* Together: what the connection's thread, its rows and its tasks wait for comes.
NothingWaitsForEver == LetGoEnds /\ LossIsHeard /\ BytesGoOut

\* "A question can never overtake the line that explains it" (ask.rs) by more
\* than a pump: one taken from the desk after its row was read stands with its
\* notice unread, but the next pump has read it before it comes to the desk.
ExplanationFollows == pump = Sweeping /\ prompt => \A c \in At(1) : queue[c] = <<>>

\* Together: where a question stands, who waits on it and what it follows.
QuestionsInPlace == QuestionHeldOnce /\ ExplanationFollows
=============================================================================
