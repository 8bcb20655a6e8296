----------------------------- MODULE NachosPost -----------------------------
(***************************************************************************)
(* Machines of NachOS that exchange mail, and the simulated devices under  *)
(* them: the sorted list of pending interrupts and its clock               *)
(* (machine/interrupt.cc, the sorted half of threads/list.h), the network  *)
(* card (machine/network.cc over the datagram sockets of machine/          *)
(* sysdep.cc), the console (machine/console.cc), the timer                 *)
(* (machine/timer.cc), the post office (network/post.cc) and the kernel    *)
(* threads that use them (network/nettest.cc, userprog/progtest.cc).       *)
(*                                                                         *)
(* A machine runs one thread at a time, the head of its ready list, and    *)
(* interrupts only strike where a thread enables them again, which is also *)
(* what moves the clock.  A step of a thread is what it does up to there.  *)
(* Times are in units of SystemTick and relative to now.  A semaphore, a   *)
(* lock and a SynchList are taken at their promise: NachosThreads and      *)
(* NachosMonitors model how they keep it.                                  *)
(***************************************************************************)
EXTENDS Integers, Sequences, FiniteSets, SequencesExt

CONSTANTS
  Machine,       \* network addresses
  Box,           \* numbers of mail boxes
  Char,          \* characters typed at a console
  NetworkTime,   \* ticks between two polls of the card, and to send a packet
  ConsoleTime,   \* the same for the console
  TimerDelay,    \* delays of the timer that -rs makes random
  Setups         \* what is started: programs, devices, reliability, keyboards

Thread == {"main", "aux", "postal"}

Event == {"messageAvailable", "messageSent", "readAvail", "writeDone"}

ASSUME TimesAssumption ==
  /\ NetworkTime \in Nat \ {0}
  /\ ConsoleTime \in Nat \ {0}
  /\ TimerDelay \subseteq Nat \ {0}

User == {"main", "aux"}

(* A call of a program: with whom, and which box.                           *)
Calls ==
  [op : {"send", "reply", "receive", "halt", "echo", "compute", "finish"},
   to : Machine, box : Box]

(* A program ends with its thread or its machine, sends to other machines,  *)
(* and answers only what it has read.                                       *)
ASSUME ProgramAssumption ==
  /\ 0 \in Box
  /\ \A x \in Setups :
       /\ x.devices \in [Machine -> SUBSET {"timer", "recv", "read"}]
       /\ x.keys \in [Machine -> Seq(Char)]
       /\ \A m \in Machine : x.code[m]["main"] # <<>>
       /\ \A m \in Machine, t \in User :
            LET p == x.code[m][t] IN
            /\ p \in Seq(Calls)
            /\ p # <<>> => p[Len(p)].op \in {"halt", "finish"}
            /\ \A i \in DOMAIN p :
                 /\ p[i].op = "send" => p[i].to # m
                 /\ p[i].op = "reply" =>
                      \E j \in 1..(i - 1) : p[j].op = "receive" /\ p[j].box = 0

CallNumber(x) == UNION {DOMAIN x.code[m][t] : m \in Machine, t \in User}

(* The calls that may send to box b of machine m: a reply goes to whoever   *)
(* sent, on another machine.                                                *)
Addressed(x, m, b) ==
  {a \in Machine \X User \X CallNumber(x) :
     LET program == x.code[a[1]][a[2]]
         call == program[a[3]]
     IN /\ a[3] \in DOMAIN program /\ call.box = b
        /\ \/ call.op = "send" /\ call.to = m
           \/ call.op = "reply" /\ a[1] # m}

(* The receive calls from box b among the first n of a program.             *)
ReadsOf(program, n, b) ==
  {i \in 1..n : program[i].op = "receive" /\ program[i].box = b}

(* As in MailTest and ConsoleTest: whoever is sent mail has a card and has  *)
(* read all of it before it halts; one thread at most reads the keyboard.   *)
ASSUME ConversationAssumption ==
  \A x \in Setups, m \in Machine :
    /\ \A b \in Box :
         /\ IsFiniteSet(Addressed(x, m, b))
         /\ Addressed(x, m, b) # {} => "recv" \in x.devices[m]
    /\ \A t \in User : \A h \in DOMAIN x.code[m][t] :
         x.code[m][t][h].op = "halt" =>
           \A b \in Box :
             Cardinality(Addressed(x, m, b))
               <= Cardinality(ReadsOf(x.code[m][t], h - 1, b))
    /\ \A t, u \in User : \A i \in DOMAIN x.code[m][t], j \in DOMAIN x.code[m][u] :
         x.code[m][t][i].op = "echo" /\ x.code[m][u][j].op = "echo" => t = u

VARIABLES
  setup,     \* the member of Setups that was started
  life,      \* each machine: up, halted, or aborted by an ASSERT
  pending,   \* each machine: its interrupts, sorted by the time they are due
  mode,      \* each machine: runs a thread, looks for due interrupts, or idles
  yield,     \* each machine: yieldOnReturn
  ready,     \* each machine: its running thread and the ready ones behind it
  pc,        \* each thread: the call of its program it is at, and where in it
  sleeps,    \* each thread: the event, the lock or the box it waits for
  count,     \* each machine and event: the value of the semaphore
  holder,    \* each machine: the threads that hold sendLock
  inbox,     \* each machine: the packet buffered by the card (inHdr, inbox)
  hold,      \* each machine: the packet in the hands of the postal worker
  wire,      \* each machine: the datagrams in its socket
  boxes,     \* each machine and box: the mail in it
  taken,     \* each machine and box: the mail its threads have read
  posted,    \* sender, receiver and box: how many mails were sent
  incoming,  \* each machine: the character buffered by the console
  putBusy,   \* each machine: a character is on its way to the display
  keys,      \* each machine: the characters not yet read from the keyboard
  shown      \* each machine: the characters on the display

netVars == <<inbox, hold, wire, boxes, taken, posted, holder>>
conVars == <<incoming, putBusy, keys, shown>>
thrVars == <<ready, pc, sleeps, count>>
vars == <<setup, life, pending, mode, yield, thrVars, netVars, conVars>>

-----------------------------------------------------------------------------
(* Programs of the kernel's threads.                                        *)

Send(to, box)  == [op |-> "send", to |-> to, box |-> box]
Reply(m, box)  == [op |-> "reply", to |-> m, box |-> box]
Receive(m, box) == [op |-> "receive", to |-> m, box |-> box]
Halt(m)        == [op |-> "halt", to |-> m, box |-> 0]
Echo(m)        == [op |-> "echo", to |-> m, box |-> 0]
Compute(m)     == [op |-> "compute", to |-> m, box |-> 0]
Finish(m)      == [op |-> "finish", to |-> m, box |-> 0]
Worker(m)      == [op |-> "deliver", to |-> m, box |-> 0]

(* MailTest: a message to the other machine, its message, an answer to it,  *)
(* the answer to ours.                                                      *)
MailTest(me, far) ==
  <<Send(far, 0), Receive(me, 0), Reply(me, 1), Receive(me, 1), Halt(me)>>

Program(m, t) == IF t = "postal" THEN <<Worker(m)>> ELSE setup.code[m][t]

Call(m, t) == Program(m, t)[pc[m][t].call]

At(m, t, op, where) == Call(m, t).op = op /\ pc[m][t].at = where

-----------------------------------------------------------------------------
(* The list of pending interrupts.                                          *)

(* List::SortedInsert puts an element behind those with the same key.       *)
SortedInsert(s, e) ==
  LET k == Cardinality({i \in DOMAIN s : s[i].due <= e.due})
  IN SubSeq(s, 1, k) \o <<e>> \o SubSeq(s, k + 1, Len(s))

Schedule(s, kind, fromNow) == SortedInsert(s, [kind |-> kind, due |-> fromNow])

Elapsed(s, n) == [i \in DOMAIN s |-> [s[i] EXCEPT !.due = @ - n]]

IsDue(s) == s # <<>> /\ s[1].due <= 0

(* CheckIfDue leaves an idle machine alone with its timer.                  *)
OnlyTimer(s) == Len(s) = 1 /\ s[1].kind = "timer"

Packet == [from : Machine, to : Machine, box : Box, n : Nat \ {0}]

(* What a thread waits for.                                                *)
Awake == [on |-> "no", box |-> 0]
For(e) == [on |-> e, box |-> 0]
Mail(b) == [on |-> "mail", box |-> b]

-----------------------------------------------------------------------------
(* Starting a machine.                                                      *)

InterruptInit ==
  /\ mode = [m \in Machine |-> "run"]
  /\ yield = [m \in Machine |-> FALSE]

(* A device that polls, or the timer, schedules its first interrupt.        *)
NetworkPoll(s) == Schedule(s, "recv", NetworkTime)
ConsolePoll(s) == Schedule(s, "read", ConsoleTime)
TimeOfNextInterrupt == TimerDelay
TimerStart(s, random) == Schedule(s, "timer", random)

(* The timer comes first, then the card; ConsoleTest makes its console.     *)
Devices(kinds, random) ==
  LET timer == IF "timer" \in kinds THEN TimerStart(<<>>, random) ELSE <<>>
      card == IF "recv" \in kinds THEN NetworkPoll(timer) ELSE timer
  IN IF "read" \in kinds THEN ConsolePoll(card) ELSE card

(* The name is unlinked and bound again: what an earlier run left in the    *)
(* socket is gone.                                                          *)
AssignNameToSocket == wire = [m \in Machine |-> <<>>]

NetworkInit ==
  /\ inbox = [m \in Machine |-> <<>>]
  /\ AssignNameToSocket

PostOfficeInit ==
  /\ holder = [m \in Machine |-> {}]
  /\ hold = [m \in Machine |-> <<>>]
  /\ boxes = [m \in Machine |-> [b \in Box |-> <<>>]]
  /\ taken = [m \in Machine |-> [b \in Box |-> <<>>]]
  /\ posted = [s \in Machine |-> [m \in Machine |-> [b \in Box |-> 0]]]

ConsoleInit ==
  /\ incoming = [m \in Machine |-> <<>>]
  /\ putBusy = [m \in Machine |-> FALSE]
  /\ keys = setup.keys
  /\ shown = [m \in Machine |-> <<>>]

(* Initialize makes the devices of the machine, then main.cc runs the       *)
(* program of the main thread.                                              *)
Init ==
  /\ setup \in Setups
  /\ life = [m \in Machine |-> "up"]
  /\ \E random \in [Machine -> TimeOfNextInterrupt] :
       pending = [m \in Machine |-> Devices(setup.devices[m], random[m])]
  /\ InterruptInit /\ NetworkInit /\ PostOfficeInit /\ ConsoleInit
  /\ ready = [m \in Machine |-> <<"main">>
                \o (IF "recv" \in setup.devices[m] THEN <<"postal">> ELSE <<>>)
                \o (IF setup.code[m]["aux"] # <<>> THEN <<"aux">> ELSE <<>>)]
  /\ pc = [m \in Machine |-> [t \in Thread |-> [call |-> 1, at |-> "start"]]]
  /\ sleeps = [m \in Machine |-> [t \in Thread |-> Awake]]
  /\ count = [m \in Machine |-> [e \in Event |-> 0]]

-----------------------------------------------------------------------------
(* What threads do, up to the next tick.                                    *)

Runs(m, t) == /\ life[m] = "up" /\ mode[m] = "run"
              /\ ready[m] # <<>> /\ t = Head(ready[m])

Ticks(m, s) == /\ pending' = [pending EXCEPT ![m] = Elapsed(s, 1)]
               /\ mode' = [mode EXCEPT ![m] = "tick"]

Ticking(m) == Ticks(m, pending[m])

Goes(m, t, where) == pc' = [pc EXCEPT ![m][t].at = where]

Returns(m, t) ==
  pc' = [pc EXCEPT ![m][t] =
           [call |-> IF t = "postal" THEN 1 ELSE @.call + 1, at |-> "start"]]

(* The running thread leaves the processor until w happens.  Sleep gives    *)
(* it to the next thread with the interrupts still off: no tick.            *)
Sleeps(m, t, w) == /\ sleeps' = [sleeps EXCEPT ![m][t] = w]
                   /\ ready' = [ready EXCEPT ![m] = Tail(@)]
                   /\ UNCHANGED <<pending, mode>>

(* Whoever waits for w goes to the end of the ready list.                   *)
Wakes(m, w) ==
  LET woken == {t \in Thread : sleeps[m][t] = w} IN
  /\ sleeps' = [sleeps EXCEPT ![m] =
                  [t \in Thread |-> IF t \in woken THEN Awake ELSE @[t]]]
  /\ ready' = [ready EXCEPT ![m] = @ \o SetToSeq(woken)]

P(m, t, e, where) ==
  /\ \/ /\ count[m][e] > 0
        /\ Ticking(m)
        /\ count' = [count EXCEPT ![m][e] = @ - 1]
        /\ Goes(m, t, where)
        /\ UNCHANGED <<ready, sleeps>>
     \/ /\ count[m][e] = 0
        /\ Sleeps(m, t, For(e))
        /\ UNCHANGED <<count, pc>>

-----------------------------------------------------------------------------
(* PostOffice::Send: one sender at a time puts its packet in the network    *)
(* and waits for the interrupt that says it is gone.                        *)

Target(m, t) == IF Call(m, t).op = "reply" THEN Last(taken[m][0]).from
                ELSE Call(m, t).to

Sends(m, t) == Call(m, t).op \in {"send", "reply"}

Acquire_Always(m, t) ==
  /\ Runs(m, t) /\ Sends(m, t) /\ pc[m][t].at = "start"
  /\ Ticking(m)
  /\ holder' = [holder EXCEPT ![m] = @ \cup {t}]
  /\ Goes(m, t, "put")
  /\ UNCHANGED <<setup, life, yield, ready, sleeps, count, inbox, hold, wire,
                 boxes, taken, posted, conVars>>

Acquire(m, t) ==
  /\ Runs(m, t) /\ Sends(m, t) /\ pc[m][t].at = "start"
  /\ \/ /\ holder[m] = {}
        /\ Ticking(m)
        /\ holder' = [holder EXCEPT ![m] = {t}]
        /\ Goes(m, t, "put")
        /\ UNCHANGED <<ready, sleeps>>
     \/ /\ holder[m] # {}
        /\ Sleeps(m, t, For("sendLock"))
        /\ UNCHANGED <<holder, pc>>
  /\ UNCHANGED <<setup, life, yield, count, inbox, hold, wire, boxes, taken,
                 posted, conVars>>

(* A datagram reaches a socket that has its name: CloseSocket and           *)
(* DeAssignNameToSocket take it from a machine that has halted.             *)
SendToSocket(to, packet) ==
  life[to] = "up" /\ wire' = [wire EXCEPT ![to] = Append(@, packet)]

(* Network::Send writes a datagram to the socket of the other machine, or   *)
(* loses it; SendToSocket asserts that there is such a socket.  No tick     *)
(* between Acquire and here but the one that ends it.                       *)
Post(m, t) ==
  LET to == Target(m, t)
      b == Call(m, t).box
      packet == [from |-> m, to |-> to, box |-> b, n |-> posted[m][to][b] + 1]
  IN /\ Runs(m, t) /\ Sends(m, t) /\ pc[m][t].at = "put"
     /\ \/ /\ \/ SendToSocket(to, packet)
              \/ ~setup.reliable /\ UNCHANGED wire
           /\ posted' = [posted EXCEPT ![m][to][b] = @ + 1]
           /\ pending' = [pending EXCEPT ![m] = Schedule(@, "sent", NetworkTime)]
           /\ Goes(m, t, "wait")
           /\ UNCHANGED life
        \/ /\ life[to] # "up"
           /\ life' = [life EXCEPT ![m] = "aborted"]
           /\ UNCHANGED <<wire, posted, pending, pc>>
     /\ UNCHANGED <<setup, mode, yield, ready, sleeps, count, inbox, hold, boxes,
                    taken, holder, conVars>>

AwaitSent(m, t) ==
  /\ Runs(m, t) /\ Sends(m, t) /\ pc[m][t].at = "wait"
  /\ P(m, t, "messageSent", "release")
  /\ UNCHANGED <<setup, life, yield, netVars, conVars>>

Release(m, t) ==
  /\ Runs(m, t) /\ Sends(m, t) /\ pc[m][t].at = "release"
  /\ Ticking(m)
  /\ holder' = [holder EXCEPT ![m] = @ \ {t}]
  /\ Wakes(m, For("sendLock"))
  /\ Returns(m, t)
  /\ UNCHANGED <<setup, life, yield, count, inbox, hold, wire, boxes, taken,
                 posted, conVars>>

(* PostOffice::Receive: the first mail of a box, or a wait for one.         *)
BoxOf(m, t) == Call(m, t).box

Get(m, t) ==
  /\ Runs(m, t) /\ At(m, t, "receive", "start")
  /\ \/ /\ boxes[m][BoxOf(m, t)] # <<>>
        /\ Ticking(m)
        /\ taken' = [taken EXCEPT ![m][BoxOf(m, t)] =
                       Append(@, Head(boxes[m][BoxOf(m, t)]))]
        /\ boxes' = [boxes EXCEPT ![m][BoxOf(m, t)] = Tail(@)]
        /\ Returns(m, t)
        /\ UNCHANGED <<ready, sleeps>>
     \/ /\ boxes[m][BoxOf(m, t)] = <<>>
        /\ Sleeps(m, t, Mail(BoxOf(m, t)))
        /\ UNCHANGED <<taken, boxes, pc>>
  /\ UNCHANGED <<setup, life, yield, count, inbox, hold, wire, posted, holder,
                 conVars>>

(* PostOffice::PostalDelivery: waits for a packet, empties the card with    *)
(* Network::Receive, and appends the mail to the box it names.              *)
AwaitPacket(m) ==
  /\ Runs(m, "postal") /\ pc[m]["postal"].at = "start"
  /\ P(m, "postal", "messageAvailable", "take")
  /\ UNCHANGED <<setup, life, yield, netVars, conVars>>

TakePacket(m) ==
  /\ Runs(m, "postal") /\ pc[m]["postal"].at = "take"
  /\ Ticking(m)
  /\ hold' = [hold EXCEPT ![m] = inbox[m]]
  /\ inbox' = [inbox EXCEPT ![m] = <<>>]
  /\ Goes(m, "postal", "put")
  /\ UNCHANGED <<setup, life, yield, ready, sleeps, count, wire, boxes, taken,
                 posted, holder, conVars>>

(* MailBox::Put appends to the SynchList of the box and signals.            *)
Put(m, mail) ==
  /\ boxes' = [boxes EXCEPT ![m][mail.box] = Append(@, mail)]
  /\ Wakes(m, Mail(mail.box))

PutMail(m) ==
  /\ Runs(m, "postal") /\ pc[m]["postal"].at = "put"
  /\ Ticking(m)
  /\ Put(m, hold[m][1])
  /\ hold' = [hold EXCEPT ![m] = <<>>]
  /\ Returns(m, "postal")
  /\ UNCHANGED <<setup, life, yield, count, inbox, wire, taken, posted, holder,
                 conVars>>

-----------------------------------------------------------------------------
(* ConsoleTest: every character typed goes to the display, up to a q.       *)

AwaitChar(m, t) ==
  /\ Runs(m, t) /\ At(m, t, "echo", "start")
  /\ P(m, t, "readAvail", "echo")
  /\ UNCHANGED <<setup, life, yield, netVars, conVars>>

(* GetChar, then PutChar, which asserts that the display is free.           *)
EchoChar(m, t) ==
  /\ Runs(m, t) /\ At(m, t, "echo", "echo")
  /\ IF putBusy[m]
     THEN /\ life' = [life EXCEPT ![m] = "aborted"]
          /\ UNCHANGED <<shown, incoming, putBusy, pending, pc>>
     ELSE /\ shown' = [shown EXCEPT ![m] = @ \o incoming[m]]
          /\ incoming' = [incoming EXCEPT ![m] = <<>>]
          /\ putBusy' = [putBusy EXCEPT ![m] = TRUE]
          /\ pending' = [pending EXCEPT ![m] = Schedule(@, "write", ConsoleTime)]
          /\ Goes(m, t, "write")
          /\ UNCHANGED life
  /\ UNCHANGED <<setup, mode, yield, ready, sleeps, count, netVars, keys>>

AwaitWrite(m, t) ==
  /\ Runs(m, t) /\ At(m, t, "echo", "write")
  /\ P(m, t, "writeDone", "written")
  /\ UNCHANGED <<setup, life, yield, netVars, conVars>>

NextChar(m, t) ==
  /\ Runs(m, t) /\ At(m, t, "echo", "written")
  /\ IF Last(shown[m]) = "q" THEN Returns(m, t) ELSE Goes(m, t, "start")
  /\ UNCHANGED <<setup, life, pending, mode, yield, ready, sleeps, count,
                 netVars, conVars>>

(* A thread that does something else, and enables the interrupts after it.  *)
Computes(m, t) ==
  /\ Runs(m, t) /\ At(m, t, "compute", "start")
  /\ Ticking(m)
  /\ Returns(m, t)
  /\ UNCHANGED <<setup, life, yield, ready, sleeps, count, netVars, conVars>>

-----------------------------------------------------------------------------
(* The end of a thread, and Interrupt::Halt: Cleanup closes the socket.     *)

Ends(m, t) ==
  /\ Runs(m, t) /\ At(m, t, "finish", "start")
  /\ Sleeps(m, t, For("ever"))
  /\ UNCHANGED <<setup, life, yield, pc, count, netVars, conVars>>

Cleanup(m) == life' = [life EXCEPT ![m] = "halted"]

HaltCalled(m, t) ==
  /\ Runs(m, t) /\ At(m, t, "halt", "start")
  /\ Cleanup(m)
  /\ UNCHANGED <<setup, pending, mode, yield, thrVars, netVars, conVars>>

-----------------------------------------------------------------------------
(* Handlers of interrupts.                                                  *)

V(m, e) == /\ count' = [count EXCEPT ![m][e] = @ + 1]
           /\ Wakes(m, For(e))

IncomingPacket(m) == V(m, "messageAvailable")

PacketSent(m) == V(m, "messageSent")

PollSocket(m) == wire[m] # <<>>

(* Reads the first datagram of the socket into the buffer of the card.      *)
ReadFromSocket(m) == /\ inbox' = [inbox EXCEPT ![m] = <<Head(wire[m])>>]
                     /\ wire' = [wire EXCEPT ![m] = Tail(@)]

(* Network::CheckPktAvail polls again in NetworkTime; it leaves the socket  *)
(* alone while the card still holds a packet.                               *)
CheckPktAvail_Reads(m, rest) ==
  /\ pending' = [pending EXCEPT ![m] = Schedule(rest, "recv", NetworkTime)]
  /\ IF PollSocket(m)
     THEN ReadFromSocket(m) /\ IncomingPacket(m)
     ELSE UNCHANGED <<inbox, wire, count, ready, sleeps>>
  /\ UNCHANGED <<yield, life, hold, boxes, taken, posted, holder, conVars>>

CheckPktAvail(m, rest) ==
  /\ pending' = [pending EXCEPT ![m] = Schedule(rest, "recv", NetworkTime)]
  /\ IF inbox[m] = <<>> /\ PollSocket(m)
     THEN ReadFromSocket(m) /\ IncomingPacket(m)
     ELSE UNCHANGED <<inbox, wire, count, ready, sleeps>>
  /\ UNCHANGED <<yield, life, hold, boxes, taken, posted, holder, conVars>>

SendDone(m, rest) ==
  /\ pending' = [pending EXCEPT ![m] = rest]
  /\ PacketSent(m)
  /\ UNCHANGED <<yield, life, netVars, conVars>>

(* Console::CheckCharAvail does the same with the keyboard.  At the end of  *)
(* a file select says that there is something to read and Read asserts that *)
(* there was; a terminal just has nothing.                                  *)
PollFile(m) == keys[m] # <<>> \/ setup.file

ReadChar(m) ==
  IF keys[m] # <<>>
  THEN /\ incoming' = [incoming EXCEPT ![m] = <<Head(keys[m])>>]
       /\ keys' = [keys EXCEPT ![m] = Tail(@)]
       /\ V(m, "readAvail")
       /\ UNCHANGED life
  ELSE /\ life' = [life EXCEPT ![m] = "aborted"]
       /\ UNCHANGED <<incoming, keys, count, ready, sleeps>>

CheckCharAvail_Reads(m, rest) ==
  /\ pending' = [pending EXCEPT ![m] = Schedule(rest, "read", ConsoleTime)]
  /\ IF PollFile(m)
     THEN ReadChar(m)
     ELSE UNCHANGED <<incoming, keys, life, count, ready, sleeps>>
  /\ UNCHANGED <<yield, putBusy, shown, netVars>>

CheckCharAvail(m, rest) ==
  /\ pending' = [pending EXCEPT ![m] = Schedule(rest, "read", ConsoleTime)]
  /\ IF incoming[m] = <<>> /\ PollFile(m)
     THEN ReadChar(m)
     ELSE UNCHANGED <<incoming, keys, life, count, ready, sleeps>>
  /\ UNCHANGED <<yield, putBusy, shown, netVars>>

WriteDone(m, rest) ==
  /\ pending' = [pending EXCEPT ![m] = rest]
  /\ putBusy' = [putBusy EXCEPT ![m] = FALSE]
  /\ V(m, "writeDone")
  /\ UNCHANGED <<yield, life, netVars, incoming, keys, shown>>

TimerInterruptHandler(m) == yield' = [yield EXCEPT ![m] = @ \/ mode[m] # "idle"]

(* Timer::TimerExpired schedules the next interrupt and asks for a yield,   *)
(* unless the machine is idle.                                              *)
TimerExpired(m, rest) ==
  /\ \E d \in TimeOfNextInterrupt :
       pending' = [pending EXCEPT ![m] = TimerStart(rest, d)]
  /\ TimerInterruptHandler(m)
  /\ UNCHANGED <<life, thrVars, netVars, conVars>>

(* CheckIfDue calls the handler of the first interrupt when it is due.      *)
Fires(m) ==
  /\ life[m] = "up" /\ mode[m] \in {"tick", "idle"}
  /\ IsDue(pending[m]) /\ ~(mode[m] = "idle" /\ OnlyTimer(pending[m]))
  /\ LET kind == Head(pending[m]).kind
         rest == Tail(pending[m]) IN
     \/ kind = "recv"  /\ CheckPktAvail(m, rest)
     \/ kind = "sent"  /\ SendDone(m, rest)
     \/ kind = "read"  /\ CheckCharAvail(m, rest)
     \/ kind = "write" /\ WriteDone(m, rest)
     \/ kind = "timer" /\ TimerExpired(m, rest)
  /\ UNCHANGED <<setup, mode, pc>>

(* OneTick gives the processor back, after the yield a handler asked for.   *)
Resumes(m) ==
  /\ life[m] = "up" /\ mode[m] \in {"tick", "idle"}
  /\ ~IsDue(pending[m]) \/ (mode[m] = "idle" /\ OnlyTimer(pending[m]))
  /\ mode' = [mode EXCEPT ![m] = "run"]
  /\ yield' = [yield EXCEPT ![m] = FALSE]
  /\ ready' = IF mode[m] = "tick" /\ yield[m] /\ ready[m] # <<>>
              THEN [ready EXCEPT ![m] = Append(Tail(@), Head(@))] ELSE ready
  /\ UNCHANGED <<setup, life, pending, pc, sleeps, count, netVars, conVars>>

(* Interrupt::Idle moves the clock to the next interrupt; with none, or the *)
(* timer alone, the machine halts.                                          *)
Idle_Halts(m) ==
  /\ life[m] = "up" /\ mode[m] = "run" /\ ready[m] = <<>>
  /\ IF pending[m] = <<>>
     THEN Cleanup(m) /\ UNCHANGED <<pending, mode>>
     ELSE /\ pending' = [pending EXCEPT ![m] = Elapsed(@, @[1].due)]
          /\ mode' = [mode EXCEPT ![m] = "idle"]
          /\ UNCHANGED life
  /\ UNCHANGED <<setup, yield, thrVars, netVars, conVars>>

Idle(m) ==
  /\ life[m] = "up" /\ mode[m] = "run" /\ ready[m] = <<>>
  /\ IF pending[m] = <<>> \/ OnlyTimer(pending[m])
     THEN Cleanup(m) /\ UNCHANGED <<pending, mode>>
     ELSE /\ pending' = [pending EXCEPT ![m] = Elapsed(@, @[1].due)]
          /\ mode' = [mode EXCEPT ![m] = "idle"]
          /\ UNCHANGED life
  /\ UNCHANGED <<setup, yield, thrVars, netVars, conVars>>

Steps(m) ==
  \/ \E t \in Thread :
       \/ Acquire(m, t) \/ Post(m, t) \/ AwaitSent(m, t) \/ Release(m, t)
       \/ Get(m, t)
       \/ AwaitChar(m, t) \/ EchoChar(m, t) \/ AwaitWrite(m, t) \/ NextChar(m, t)
       \/ Computes(m, t) \/ Ends(m, t) \/ HaltCalled(m, t)
  \/ AwaitPacket(m) \/ TakePacket(m) \/ PutMail(m)
  \/ Fires(m) \/ Resumes(m) \/ Idle(m)

Next == \E m \in Machine : Steps(m)

(* Every machine is a process of the host, which schedules them fairly.     *)
Spec == Init /\ [][Next]_vars /\ \A m \in Machine : WF_vars(Steps(m))

-----------------------------------------------------------------------------
(* Properties.                                                              *)

(* What a box of machine m has been given, what was read of it first, and   *)
(* what is still on its way to the machine.                                 *)
Way(m, b) == taken[m][b] \o boxes[m][b] \o hold[m] \o inbox[m] \o wire[m]

(* Where in it is what machine s sent to this box.                          *)
From(s, m, b) ==
  {i \in DOMAIN Way(m, b) :
     LET p == Way(m, b)[i] IN p.from = s /\ p.to = m /\ p.box = b}

(* Mail is neither duplicated nor reordered, whoever of the card, its       *)
(* interrupt, the postal worker and the readers comes first; with a         *)
(* reliable network none is lost (network.cc:69, post.cc:242).  The card is *)
(* full exactly as long as messageAvailable, or the worker it woke, knows   *)
(* of the packet, and sendLock leaves one packet at a time to the card,     *)
(* which sendBusy was to check and does not (network.cc:107).               *)
MailInOrder ==
  \A m \in Machine :
    /\ \A s \in Machine, b \in Box :
         LET way == Way(m, b)
             mail == From(s, m, b)
         IN
         /\ \A i \in mail : way[i] \in Packet /\ way[i].n <= posted[s][m][b]
         /\ \A i, j \in mail : i < j => way[i].n < way[j].n
         /\ setup.reliable =>
              \A n \in 1..posted[s][m][b] : \E i \in mail : way[i].n = n
    /\ Len(inbox[m]) = count[m]["messageAvailable"]
                       + (IF pc[m]["postal"].at = "take" THEN 1 ELSE 0)
    /\ Cardinality({i \in DOMAIN pending[m] : pending[m][i].kind = "sent"})
         + count[m]["messageSent"] <= 1

(* The display shows the characters of the keyboard in the order they were  *)
(* typed, none twice and none left out, and no ASSERT of a device stops a   *)
(* machine: PutChar finds the display free, a sender finds the socket of    *)
(* the receiver (console.cc:147, sysdep.cc:350).                            *)
DevicesServe ==
  /\ \A m \in Machine : shown[m] \o incoming[m] \o keys[m] = setup.keys[m]
  /\ setup.file \/ \A m \in Machine : life[m] # "aborted"

(* A machine that is to halt: its program says so, or it has no device but  *)
(* the timer left.                                                          *)
IsToHalt(m) ==
  \/ \E i \in DOMAIN Program(m, "main") : Program(m, "main")[i].op = "halt"
  \/ setup.devices[m] \subseteq {"timer"}

(* With a reliable network every exchange of mail ends, every echo comes to *)
(* its q, and a machine with nothing to do but its timer stops              *)
(* (nettest.cc:30, progtest.cc:76, interrupt.cc:311).                       *)
ProgramsEnd ==
  (setup.reliable /\ ~setup.file)
    => <>(\A m \in Machine : IsToHalt(m) => life[m] = "halted")
=============================================================================
