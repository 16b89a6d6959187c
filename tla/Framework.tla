----------------------------- MODULE Framework -----------------------------
(***************************************************************************)
(* The client framework (base/cf.cpp): the main thread negotiates with the *)
(* simulation server, starts the machine's thread, hands it the frames     *)
(* that arrive and recovers a broken connection; the machine's thread      *)
(* initializes the machine and runs it.  Both send frames, under a mutex.  *)
(***************************************************************************)
EXTENDS Integers, Sequences

CONSTANTS
  MaxFrames,    \* bound on the frames each thread sends
  MaxBreaks     \* bound on how often the connection breaks

ASSUME BoundsAssumption == MaxFrames \in Nat /\ MaxBreaks \in Nat

Thread == {"main", "machine"}
FrameNo == 1..MaxFrames

VARIABLES
  main,         \* the main thread: where it is, the request it is at, and whether
                \* --node was given on the command line
  st,           \* the machine's thread
  mutex,        \* who holds the mutex, "none" if free
  initialized,
  machine,      \* has the machine been instantiated?
  sending,      \* where each thread is in sendFrame
  frames,       \* the frames each thread has begun to send
  connection, heard,   \* the wire, as in Scfcp
  alive,        \* the connection: "open", "reset" (errors), "closed" (end of stream)
  breaks

wire == <<connection, heard, alive, breaks>>
vars == <<main, st, mutex, initialized, machine, sending, frames, wire>>

Protocol == INSTANCE Scfcp

Running == main.pc # "exit"
At(pc) == Running /\ main.pc = pc
Main(pc) == main' = [main EXCEPT !.pc = pc]

\* The process ends: main returns, systemInterrupt calls exit, or a signal.
Exit == Main("exit")

-----------------------------------------------------------------------------
Init ==
  /\ main \in [pc : {"connect"}, step : {1}, node : BOOLEAN]
  /\ st = "none"
  /\ mutex = "none"
  /\ initialized = FALSE
  /\ machine = FALSE
  /\ sending = [t \in Thread |-> "no"]
  /\ frames = [t \in Thread |-> 0]
  /\ connection = 0 /\ heard = <<>> /\ alive = "closed"
  /\ breaks = 0

-----------------------------------------------------------------------------
(* Connecting and negotiating.  Nothing but the first connection is made    *)
(* without the mutex; the first has no other thread to keep out.            *)

Recovering == connection > 1
Request == Protocol!Requests(connection)[main.step]

\* A negotiation that fails ends the program: at once, or out of recoverSimulation,
\* which lets go of the mutex first.
Fail == IF Recovering THEN Main("give_up") ELSE Exit

ConnectToServer ==
  /\ At("connect")
  /\ connection' = connection + 1
  /\ heard' = <<>>
  /\ \/ alive' = "open" /\ main' = [main EXCEPT !.pc = "request", !.step = 1]
     \/ alive' = "closed" /\ Main(IF connection > 0 THEN "give_up" ELSE "exit")
  /\ UNCHANGED <<st, mutex, initialized, machine, sending, frames, breaks>>

\* Send the next request; without a node name the program is done at that point.
\* A dead connection makes send fail, or kills the process (SIGPIPE).
SendRequest ==
  /\ At("request")
  /\ \/ /\ Request = "node" /\ ~main.node
        /\ Exit /\ UNCHANGED heard
     \/ /\ Request \in {"sign_in", "map", "node"} /\ ~Recovering   \* a name is too long
        /\ Exit /\ UNCHANGED heard
     \/ /\ Request = "node" => main.node
        /\ alive = "open"
        /\ heard' = Append(heard, Request)
        /\ Main("answer")
     \/ /\ Request = "node" => main.node
        /\ alive # "open"
        /\ Fail \/ Exit
        /\ UNCHANGED heard
  /\ UNCHANGED <<st, mutex, initialized, machine, sending, frames, connection, alive, breaks>>

\* An answer to the request of this name is received.
Answer(request) == At("answer") /\ Request = request /\ alive = "open"
NextRequest == main' = [main EXCEPT !.pc = "request", !.step = @ + 1]
KeepAllBut == UNCHANGED <<st, mutex, initialized, sending, frames, wire>>

SignedIn == Answer("sign_in") /\ (NextRequest \/ Fail) /\ UNCHANGED machine /\ KeepAllBut

\* Every answer but MapSelectedCommand ends the negotiation.
MapSelected == Answer("map") /\ (NextRequest \/ Fail) /\ UNCHANGED machine /\ KeepAllBut

NodeSelected == Answer("node") /\ (NextRequest \/ Fail) /\ UNCHANGED machine /\ KeepAllBut

\* The machine is instantiated before its interfaces are read, each of which can fail.
InterfacesRead ==
  /\ Answer("interfaces")
  /\ \/ NextRequest /\ machine' = TRUE
     \/ Fail /\ machine' \in BOOLEAN
  /\ KeepAllBut

CustomRead == Answer("custom") /\ (NextRequest \/ Fail) /\ UNCHANGED machine /\ KeepAllBut

\* startSimulation, announceSimulationResume
Started ==
  /\ Answer("start")
  /\ Main(IF Recovering THEN "resume" ELSE "create") \/ Fail
  /\ UNCHANGED machine /\ KeepAllBut

\* No answer: recv fails, or the stream ends, which ends the program.
NoAnswer ==
  /\ At("answer") /\ alive # "open"
  /\ IF alive = "reset" THEN Fail ELSE Exit
  /\ UNCHANGED machine /\ KeepAllBut

-----------------------------------------------------------------------------
(* Starting the machine's thread and waiting for it. *)

Keep == UNCHANGED <<initialized, machine, sending, frames, wire>>

CreateThread ==
  /\ At("create")
  /\ \/ st' = "initialize" /\ Main("lock")
     \/ st' = st /\ Exit
  /\ UNCHANGED mutex /\ Keep

\* pthread_mutex_lock, or its part in pthread_cond_wait.
Lock ==
  /\ At("lock") /\ mutex = "none"
  /\ mutex' = "main" /\ Main("check")
  /\ UNCHANGED st /\ Keep

\* while (!initialized), with the mutex held
Check ==
  /\ At("check")
  /\ IF initialized THEN mutex' = "none" /\ Main("loop") ELSE Main("sleep") /\ UNCHANGED mutex
  /\ UNCHANGED st /\ Keep

\* pthread_cond_wait lets go of the mutex as it starts to wait.
Wait ==
  /\ At("sleep")
  /\ mutex' = "none" /\ Main("wait")
  /\ UNCHANGED st /\ Keep

\* Mutant: "if" in place of "while".
SpuriousWakeupTrusted == At("wait") /\ Main("loop") /\ UNCHANGED <<st, mutex>> /\ Keep

\* A condition variable may wake its waiter for no reason.
SpuriousWakeup == At("wait") /\ Main("lock") /\ UNCHANGED <<st, mutex>> /\ Keep

Initialize ==
  /\ Running /\ st = "initialize" /\ sending["machine"] = "no"
  /\ st' = "lock"
  /\ UNCHANGED <<main, mutex>> /\ Keep

\* Mutant: the flag is set without the mutex.
SetInitializedUnlocked ==
  /\ Running /\ st = "lock"
  /\ initialized' = TRUE
  /\ st' = "signal"
  /\ UNCHANGED <<main, mutex, machine, sending, frames, wire>>

\* initialized = true, between lock and unlock
SetInitialized ==
  /\ Running /\ st = "lock" /\ mutex = "none"
  /\ initialized' = TRUE
  /\ st' = "signal"
  /\ UNCHANGED <<main, mutex, machine, sending, frames, wire>>

Signal ==
  /\ Running /\ st = "signal"
  /\ st' = "run"
  /\ IF main.pc = "wait" THEN Main("lock") ELSE UNCHANGED main
  /\ UNCHANGED mutex /\ Keep

\* run() returns; the program goes on without it.
RunReturns ==
  /\ Running /\ st = "run" /\ sending["machine"] = "no"
  /\ st' = "done"
  /\ UNCHANGED <<main, mutex>> /\ Keep

-----------------------------------------------------------------------------
(* sendFrame, walk and the notifications, from the machine's code on either *)
(* thread: a frame goes out in two pieces, any other command in one.        *)

MaySend(t) == IF t = "main" THEN main.pc = "handle" ELSE st \in {"initialize", "run"}
Sending(t, pc) == sending' = [sending EXCEPT ![t] = pc]
KeepThreads == UNCHANGED <<st, initialized, machine, connection, alive, breaks>>

SendFrame(t) ==
  /\ Running /\ MaySend(t) /\ sending[t] = "no"
  /\ frames[t] < MaxFrames   \* bound
  /\ frames' = [frames EXCEPT ![t] = @ + 1]
  /\ Sending(t, "lock")
  /\ UNCHANGED <<main, mutex, heard>> /\ KeepThreads

\* A frame of an illegal length is refused with the mutex held.
LockToSend(t) ==
  /\ Running /\ sending[t] = "lock" /\ mutex = "none"
  /\ mutex' = t
  /\ \E pc \in {"header", "single", "unlock"} : Sending(t, pc)
  /\ UNCHANGED <<main, frames, heard>> /\ KeepThreads

\* One piece goes out; then the thread is at pc.  On a dead connection send
\* fails and the frame is given up, or the process is killed.
SendPiece(t, piece, pc) ==
  /\ \/ /\ alive = "open"
        /\ heard' = Append(heard, piece)
        /\ Sending(t, pc) /\ UNCHANGED main
     \/ /\ alive # "open"
        /\ \/ Sending(t, "unlock") /\ UNCHANGED main
           \/ UNCHANGED sending /\ Exit
        /\ UNCHANGED heard
  /\ UNCHANGED <<mutex, frames>> /\ KeepThreads

SendHeader(t) ==
  /\ Running /\ sending[t] = "header"
  /\ SendPiece(t, Protocol!Header(t, frames[t]), "payload")

SendPayload(t) ==
  /\ Running /\ sending[t] = "payload"
  /\ SendPiece(t, Protocol!Payload(t, frames[t]), "unlock")

SendSingle(t) ==
  /\ Running /\ sending[t] = "single"
  /\ SendPiece(t, Protocol!Single(t, frames[t]), "unlock")

UnlockSent(t) ==
  /\ Running /\ sending[t] = "unlock"
  /\ mutex' = "none"
  /\ Sending(t, "no")
  /\ UNCHANGED <<main, frames, heard>> /\ KeepThreads

-----------------------------------------------------------------------------
(* The event loop and the recovery. *)

\* A frame for one of the machine's interfaces is handed to processFrame.
ReceiveFrame ==
  /\ At("loop") /\ alive = "open"
  /\ Main("handle")
  /\ UNCHANGED <<st, mutex>> /\ Keep

ProcessFrameReturns ==
  /\ At("handle") /\ sending["main"] = "no"
  /\ Main("loop")
  /\ UNCHANGED <<st, mutex>> /\ Keep

\* recv fails, or what arrives is no notification the loop knows; the end of the
\* stream is not an error but the end of the program.
LoopBreaks ==
  /\ At("loop")
  /\ IF alive = "closed" THEN Exit ELSE Main("recover")
  /\ UNCHANGED <<st, mutex>> /\ Keep

\* Mutant: the mutex is not taken.
RecoverUnlocked ==
  /\ At("recover") /\ connection <= MaxBreaks
  /\ alive' = "closed"
  /\ Main("connect")
  /\ UNCHANGED <<st, mutex, initialized, machine, sending, frames, connection, heard, breaks>>

\* lock, close
Recover ==
  /\ At("recover") /\ mutex = "none" /\ connection <= MaxBreaks   \* bound
  /\ mutex' = "main"
  /\ alive' = "closed"
  /\ Main("connect")
  /\ UNCHANGED <<st, initialized, machine, sending, frames, connection, heard, breaks>>

\* Mutant: the mutex is kept after the recovery.
ResumeLocked ==
  /\ At("resume")
  /\ Main("loop")
  /\ UNCHANGED <<st, mutex>> /\ Keep

Resume ==
  /\ At("resume")
  /\ mutex' = "none"
  /\ Main("loop")
  /\ UNCHANGED st /\ Keep

GiveUp ==
  /\ At("give_up")
  /\ mutex' = "none"
  /\ Exit
  /\ UNCHANGED st /\ Keep

\* SIGINT, whose handler is systemInterrupt.
Interrupt ==
  /\ Running
  /\ Exit
  /\ UNCHANGED <<st, mutex>> /\ Keep

\* The server, or the network between, drops the connection.
Break(how) ==
  /\ Running /\ alive = "open" /\ breaks < MaxBreaks
  /\ breaks' = breaks + 1
  /\ alive' = how
  /\ UNCHANGED <<main, st, mutex, initialized, machine, sending, frames, connection, heard>>

-----------------------------------------------------------------------------
Negotiation ==
  \/ ConnectToServer \/ SendRequest \/ NoAnswer
  \/ SignedIn \/ MapSelected \/ NodeSelected \/ InterfacesRead \/ CustomRead \/ Started

Startup == CreateThread \/ Lock \/ Check \/ Wait
Loop == ReceiveFrame \/ ProcessFrameReturns \/ LoopBreaks \/ Recover \/ Resume \/ GiveUp
Machine == Initialize \/ SetInitialized \/ Signal
Sends(t) == LockToSend(t) \/ SendHeader(t) \/ SendPayload(t) \/ SendSingle(t) \/ UnlockSent(t)

Next ==
  \/ Negotiation \/ Startup \/ SpuriousWakeup \/ Loop
  \/ Machine \/ RunReturns
  \/ \E t \in Thread : SendFrame(t) \/ Sends(t)
  \/ \E how \in {"reset", "closed"} : Break(how)
  \/ Interrupt

Spec == Init /\ [][Next]_vars

\* The scheduler runs both threads, the server answers, and a thread that waits
\* for the mutex gets it in the end if it is free again and again.
FairSpec ==
  /\ Spec
  /\ WF_vars(Negotiation) /\ WF_vars(Startup) /\ SF_vars(Lock) /\ SF_vars(Recover)
  /\ WF_vars(Resume \/ GiveUp)
  /\ WF_vars(Machine) /\ SF_vars(SetInitialized)
  /\ \A t \in Thread : WF_vars(Sends(t)) /\ SF_vars(LockToSend(t))

-----------------------------------------------------------------------------
(* Properties. *)

MainPc == {"connect", "request", "answer", "create", "lock", "check", "sleep", "wait", "loop",
           "handle", "recover", "resume", "give_up", "exit"}

\* Threads, mutex and wire are of their types.
TypeOK ==
  /\ main \in [pc : MainPc, step : 1..6, node : BOOLEAN]
  /\ st \in {"none", "initialize", "lock", "signal", "run", "done"}
  /\ mutex \in Thread \cup {"none"}
  /\ initialized \in BOOLEAN /\ machine \in BOOLEAN
  /\ sending \in [Thread -> {"no", "lock", "header", "payload", "single", "unlock"}]
  /\ frames \in [Thread -> 0..MaxFrames]
  /\ connection \in 0..(MaxBreaks + 1)
  /\ alive \in {"open", "reset", "closed"}

\* The wire is what the server may rely on, over breaks and recoveries: the mutex
\* keeps commands whole and keeps them out of a recovery's negotiation.
Implements == Protocol!Spec

\* "After complete initialization the run () method is called", "concurrently ...
\* processFrame ()" (README.md): neither before initialize has returned, which sets
\* the pointer both go through, and not on a machine that was not instantiated.
InitializedFirst ==
  /\ main.pc \in {"loop", "handle", "recover"} => initialized
  /\ st = "run" => initialized
  /\ st # "none" => machine

\* The main thread does not sleep through the end of initialize: it gets to the
\* event loop, or the program ends.
StartupEnds == main.pc \in {"lock", "check", "sleep", "wait"} ~> main.pc \in {"loop", "exit"}

\* No sender waits for ever, not even over a recovery.
SendersServed == \A t \in Thread : sending[t] = "lock" ~> (sending[t] = "no" \/ ~Running)
=============================================================================
