------------------------------ MODULE Handover ------------------------------
(***************************************************************************)
(* Upgrading without dropping a connection: bin/twcore/src/handover.rs and *)
(* lockfile.rs, with cmd_serve in main.rs, which drives them, and the part *)
(* of record.rs that decides when a core opens the request store.          *)
(*                                                                         *)
(* A core process starts, looks at the lock file, and either takes the     *)
(* lock or, if a live core holds it, connects to the endpoint of a core    *)
(* that was armed and takes over from it.  The giver offers its control    *)
(* listener and a snapshot, on request its listeners, and on Commit it     *)
(* acknowledges, stops accepting and drains.  The taker then claims the    *)
(* lock, notes down that the giver drains, and waits for it to exit before *)
(* it opens the request store.  Any core may be shut down or crash.        *)
(*                                                                         *)
(* A message is sent and received in separate steps.  A time limit may run *)
(* out at any moment, but a peer that is alive is in time where the code   *)
(* gives one side a shorter limit than the other, unless "late" \in        *)
(* Windows.  The other Windows open moments of some microseconds in which  *)
(* another core, or a crash, comes between two accesses to a file.         *)
(***************************************************************************)
EXTENDS Naturals, FiniteSets

CONSTANTS
  Core,        \* core processes, each with a pid of its own
  Nobody,
  MaxStrikes,  \* MAX_STRIKES
  MaxCrashes,  \* bound: how many cores crash
  Windows      \* which of "acquire", "unmarked" and "late" are open

ASSUME CoreAssumption == IsFiniteSet(Core) /\ Nobody \notin Core
ASSUME BoundsAssumption == MaxStrikes \in Nat /\ MaxCrashes \in Nat
ASSUME WindowsAssumption == Windows \subseteq {"acquire", "unmarked", "late"}

VARIABLES
  phase,     \* how far each core is
  lock,      \* the core named in the lock file
  marks,     \* the cores named in the file of draining cores
  endpoint,  \* the core that listens on the handover endpoint
  link,      \* the connection each taker made
  preds,     \* the cores that must exit before a core opens the store
  open,      \* the cores that have opened the store
  held,      \* the cores that do not renew tokens
  strikes,   \* how often in a row a takeover failed late
  crashes    \* how many cores have crashed

vars == <<phase, lock, marks, endpoint, link, preds, open, held, strikes, crashes>>

(* What the phases mean.  A core that was never started is Unborn. *)
Gone     == {"Quit", "Left", "Crashed"}
Main     == {"Idle", "Armed", "Taken", "Offered", "Given", "Refusing", "Retiring"}
Owning   == Main \cup {"Binding", "Claiming", "Marking"}
Taking   == {"Learning", "Asking", "Bound", "Committing", "Doubting"}
Serving  == Main \cup {"Bound", "Committing", "Doubting", "Claiming", "Marking"}
Phases   == {"Unborn", "Again", "Writing", "Calling", "Yielding", "Draining"}
              \cup Gone \cup Owning \cup Taking

Alive(c) == phase[c] \notin Gone \cup {"Unborn"}

(* A connection: the giver, the pid that the lock named, whether the giver *)
(* has closed it, and the message on its way to either side.               *)
NoLink == [to |-> Nobody, holder |-> Nobody, cut |-> TRUE,
           up |-> "none", down |-> "none"]
With(l, cut, up, down) ==
  [to |-> l.to, holder |-> l.holder, cut |-> cut, up |-> up, down |-> down]
Linked(b) == ~link[b].cut /\ Alive(link[b].to)
Takers(a) == {b \in Core : link[b].to = a /\ ~link[b].cut}

TypeOK ==
  /\ phase \in [Core -> Phases]
  /\ lock \in Core \cup {Nobody}
  /\ marks \subseteq Core
  /\ endpoint \in Core \cup {Nobody}
  /\ link \in [Core -> [to : Core \cup {Nobody}, holder : Core \cup {Nobody},
                        cut : BOOLEAN,
                        up : {"none", "Want", "Commit", "Fallback"},
                        down : {"none", "Control", "Refused", "Listeners", "Ack"}]]
  /\ preds \in [Core -> SUBSET Core]
  /\ open \subseteq Core /\ held \subseteq Core
  /\ strikes \in [Core -> 0 .. MaxStrikes]
  /\ crashes \in 0 .. MaxCrashes

Init ==
  /\ phase = [c \in Core |-> "Unborn"]
  /\ lock = Nobody /\ marks = {} /\ endpoint = Nobody
  /\ link = [c \in Core |-> NoLink]
  /\ preds = [c \in Core |-> {}]
  /\ open = {} /\ held = {}
  /\ strikes = [c \in Core |-> 0]
  /\ crashes = 0

Go(c, p) == phase' = [phase EXCEPT ![c] = p]
Files == <<lock, marks, endpoint>>
Local == <<preds, open, held, strikes, crashes>>

-----------------------------------------------------------------------------
(* Exits. *)

Draining(c) == {m \in marks \ {c} : Alive(m)}

(* A slip: the lock goes whosever it is by now. *)
SlipDropLock(c) ==
  IF phase[c] \in Owning /\ Draining(c) = {} THEN Nobody ELSE lock

(* The lock file after c exits: removed if it is c's own and nobody drains. *)
DropLock(c) ==
  IF phase[c] \in Owning /\ lock = c /\ Draining(c) = {} THEN Nobody ELSE lock

(* The kernel closes what c had; what it sent can still be read. *)
Closed(c) ==
  /\ endpoint' = IF endpoint = c THEN Nobody ELSE endpoint
  /\ preds' = [preds EXCEPT ![c] = {}]
  /\ open' = open \ {c} /\ held' = held \ {c}
  /\ strikes' = [strikes EXCEPT ![c] = 0]
  /\ UNCHANGED <<marks, link>>

Exit(c, how) ==
  Go(c, how) /\ lock' = DropLock(c) /\ Closed(c) /\ UNCHANGED crashes

Crash(c) ==
  /\ Alive(c) /\ crashes < MaxCrashes
  /\ phase[c] = "Marking" => "unmarked" \in Windows
  /\ Go(c, "Crashed") /\ Closed(c)
  /\ crashes' = crashes + 1
  /\ UNCHANGED lock

(* A signal or /shutdown, where the code waits for one. *)
Shutdown(c) ==
  \/ phase[c] \in Main \cup {"Draining"} /\ Exit(c, "Left")
  \/ phase[c] \in {"Learning", "Asking"} /\ Exit(c, "Quit")

-----------------------------------------------------------------------------
(* Starting: the lock file. *)

(* Nobody else is between reading the lock file and writing it. *)
Undisturbed(c) ==
  "acquire" \in Windows \/ \A d \in Core \ {c} : phase[d] # "Writing"

LockFree == ~\E c \in Core : lock = c /\ Alive(c)

(* LockFile::acquire finds no live holder ... *)
Acquire(c) ==
  /\ phase[c] \in {"Unborn", "Again"} /\ LockFree /\ Undisturbed(c)
  /\ Go(c, "Writing")
  /\ UNCHANGED <<link, Files, Local>>

(* A slip: the draining cores are overlooked. *)
SlipWrite(c) ==
  /\ phase[c] = "Writing"
  /\ Go(c, "Binding")
  /\ lock' = c
  /\ open' = open \cup {c}
  /\ UNCHANGED <<marks, endpoint, link, preds, held, strikes, crashes>>

(* ... and writes its own pid.  With a core still draining the store is to *)
(* be opened later, else at once.                                          *)
Write(c) ==
  /\ phase[c] = "Writing"
  /\ Go(c, "Binding")
  /\ lock' = c
  /\ preds' = [preds EXCEPT ![c] = Draining(c)]
  /\ open' = IF Draining(c) = {} THEN open \cup {c} ELSE open
  /\ UNCHANGED <<marks, endpoint, link, held, strikes, crashes>>

(* d has the listening sockets, or they are on their way to it. *)
HasPorts(d) ==
  \/ phase[d] \in Serving
  \/ phase[d] = "Asking" /\ link[d].down = "Listeners"

(* The ports are free; or another core listens on them. *)
Bind(c) ==
  /\ phase[c] = "Binding" /\ \A d \in Core : ~HasPorts(d)
  /\ Go(c, "Idle")
  /\ UNCHANGED <<link, Files, Local>>

PortTaken(c) ==
  /\ phase[c] = "Binding" /\ \E d \in Core : HasPorts(d)
  /\ Exit(c, "Quit")

(* A taker that its giver gave up has ended: it commits within             *)
(* COMMIT_WITHIN, well before TAKEOVER_LIMIT, and sees that link closed.   *)
(* And a core that starts does not take as long as others take to hand     *)
(* over.                                                                   *)
InTime ==
  "late" \in Windows
    \/ \A d \in Core :
         /\ phase[d] # "Binding"
         /\ phase[d] \in {"Asking", "Bound", "Committing", "Doubting"} => ~link[d].cut

(* approach(): a live core holds the lock and a core listens on the        *)
(* endpoint, which accepts one connection and is closed.                   *)
Call(b) ==
  /\ phase[b] = "Unborn" /\ ~LockFree /\ endpoint # Nobody /\ InTime
  /\ phase' = [phase EXCEPT ![b] = "Calling", ![endpoint] = "Taken"]
  /\ link' = [link EXCEPT ![b] = [NoLink EXCEPT !.to = endpoint, !.holder = lock,
                                                !.cut = FALSE]]
  /\ endpoint' = Nobody
  /\ UNCHANGED <<lock, marks, Local>>

AlreadyRunning(b) ==
  /\ ~LockFree
  /\ \/ phase[b] = "Again"
     \/ phase[b] = "Unborn" /\ endpoint = Nobody
  /\ Exit(b, "Quit")

-----------------------------------------------------------------------------
(* The giver. *)

Arm(a) ==
  /\ phase[a] = "Idle"
  /\ Go(a, "Armed")
  /\ endpoint' = a
  /\ strikes' = [strikes EXCEPT ![a] = 0]
  /\ UNCHANGED <<lock, marks, link, preds, open, held, crashes>>

(* The time to wait is over: the desktop app never left, or nobody came.   *)
(* Reopening the app once and waiting again changes nothing here.          *)
ArmExpires(a) ==
  /\ phase[a] = "Armed"
  /\ \E p \in {"Idle", "Retiring"} : Go(a, p)
  /\ endpoint' = Nobody
  /\ UNCHANGED <<lock, marks, link, Local>>

(* Given::Abandoned: back to Armed, on the endpoint, renewing again.  The  *)
(* link is dropped.                                                        *)
Abandon(a, b, strike) ==
  /\ Go(a, "Armed")
  /\ endpoint' = a
  /\ held' = held \ {a}
  /\ link' = [link EXCEPT ![b] = With(@, TRUE, "none", @.down)]
  /\ strikes' = [strikes EXCEPT ![a] = @ + strike]
  /\ UNCHANGED <<lock, marks, preds, open, crashes>>

Reply(a, b, p, m) ==
  /\ Go(a, p)
  /\ link' = [link EXCEPT ![b] = With(@, @.cut, "none", m)]

(* The control listener, paused here, and the first snapshot. *)
Offer(a, b) ==
  /\ phase[a] = "Taken" /\ strikes[a] < MaxStrikes /\ Alive(b)
  /\ Reply(a, b, "Offered", "Control")
  /\ UNCHANGED <<Files, Local>>

(* refuse_with(): the versions differ, or too many takeovers failed late. *)
Refuse(a, b) ==
  /\ phase[a] = "Taken" /\ Alive(b)
  /\ Reply(a, b, "Refusing", "Refused")
  /\ UNCHANGED <<Files, Local>>

(* A slip: renewals go on after the tokens were handed over. *)
SlipGive(a, b) ==
  /\ phase[a] = "Offered" /\ link[b].up = "Want" /\ Alive(b)
  /\ Reply(a, b, "Given", "Listeners")
  /\ UNCHANGED <<Files, Local>>

(* WantListeners: renewals stop; the second snapshot and the listeners. *)
Give(a, b) ==
  /\ phase[a] = "Offered" /\ link[b].up = "Want" /\ Alive(b)
  /\ Reply(a, b, "Given", "Listeners")
  /\ held' = held \cup {a}
  /\ UNCHANGED <<Files, preds, open, strikes, crashes>>

(* A listener cannot be exported. *)
CannotGive(a, b) ==
  /\ \/ phase[a] = "Taken" /\ strikes[a] < MaxStrikes
     \/ phase[a] = "Offered" /\ link[b].up = "Want"
  /\ Abandon(a, b, 1)

(* Commit: the acknowledgement is sent, and a stops accepting for good. *)
TakeCommit(a, b) ==
  /\ phase[a] = "Given" /\ link[b].up = "Commit" /\ Alive(b)
  /\ Reply(a, b, "Draining", "Ack")
  /\ UNCHANGED <<Files, Local>>

(* TAKEOVER_LIMIT has passed and no Commit has come. *)
GiveUp(a, b) ==
  /\ phase[a] = "Given" /\ link[b].up = "none"
  /\ Abandon(a, b, 1)

(* The taker is gone.  Before it took the listeners that is a strike only  *)
(* if it was soon after the snapshot.                                      *)
LoseTaker(a, b) ==
  /\ phase[a] \in {"Taken", "Offered", "Given", "Refusing"} /\ ~Alive(b)
  /\ link[b].up # "Fallback"
  /\ \E strike \in {0, 1} :
       /\ strike = 0 => \/ phase[a] = "Refusing" \/ strikes[a] = MaxStrikes
                        \/ phase[a] = "Offered" /\ link[b].up = "none"
       /\ strike = 1 => phase[a] # "Refusing" /\ strikes[a] < MaxStrikes
       /\ Abandon(a, b, strike)

(* Given::Fallback: a goes on as if no successor were to come, and exits. *)
TakeFallback(a, b) ==
  /\ phase[a] = "Refusing" /\ link[b].up = "Fallback"
  /\ Go(a, "Retiring")
  /\ held' = held \ {a}
  /\ link' = [link EXCEPT ![b] = With(@, TRUE, "none", @.down)]
  /\ UNCHANGED <<Files, preds, open, strikes, crashes>>

(* The requests are done, or FALLBACK_DRAIN has passed. *)
RetireEnds(a) == phase[a] = "Retiring" /\ Exit(a, "Left")

(* drain(): the requests are done or aborted, and the store was opened. *)
DrainEnds(a) == phase[a] = "Draining" /\ a \in open /\ Exit(a, "Left")

Giving(a) ==
  \/ RetireEnds(a) \/ DrainEnds(a)
  \/ \E b \in Takers(a) :
       \/ Offer(a, b) \/ Refuse(a, b) \/ Give(a, b) \/ TakeCommit(a, b)
       \/ GiveUp(a, b) \/ LoseTaker(a, b) \/ TakeFallback(a, b)

-----------------------------------------------------------------------------
(* The taker. *)

Holder(b) == link[b].holder

(* Control and the snapshot have come: the state of the giver is taken     *)
(* over, renewals are left to the giver, and the store is opened later.    *)
Learn(b) ==
  /\ phase[b] = "Calling" /\ link[b].down = "Control"
  /\ Go(b, "Learning")
  /\ link' = [link EXCEPT ![b].down = "none"]
  /\ preds' = [preds EXCEPT ![b] = Draining(b) \cup {Holder(b)}]
  /\ held' = held \cup {b}
  /\ UNCHANGED <<Files, open, strikes, crashes>>

(* fall_back() *)
Yield(b) ==
  /\ phase[b] = "Calling" /\ link[b].down = "Refused"
  /\ Go(b, "Yielding")
  /\ link' = [link EXCEPT ![b] =
                 With(@, @.cut, IF Linked(b) THEN "Fallback" ELSE "none", "none")]
  /\ UNCHANGED <<Files, Local>>

(* A slip: a giver that hangs up without a word is not noticed. *)
SlipEnded(b) ==
  phase[b] = "Yielding" /\ phase[Holder(b)] \notin {"Refusing", "Retiring"}

(* The giver hung up, or was asked to go: with its process gone b starts   *)
(* afresh, and otherwise gives up (wait_gone()).                           *)
Ended(b) ==
  \/ phase[b] = "Calling" /\ link[b].down = "none" /\ ~Linked(b)
  \/ phase[b] = "Yielding" /\ phase[Holder(b)] \notin {"Refusing", "Retiring"}

StartOver(b) ==
  /\ Ended(b) /\ ~Alive(Holder(b))
  /\ Go(b, "Again")
  /\ link' = [link EXCEPT ![b] = NoLink]
  /\ UNCHANGED <<Files, Local>>

TurnBack(b) == Ended(b) /\ Alive(Holder(b)) /\ Exit(b, "Quit")

(* The configuration loads, at once or after somebody has repaired it.     *)
Ask(b) ==
  /\ phase[b] = "Learning" /\ Linked(b)
  /\ Go(b, "Asking")
  /\ link' = [link EXCEPT ![b].up = "Want"]
  /\ UNCHANGED <<Files, Local>>

LoseGiver(b) ==
  /\ phase[b] \in {"Learning", "Asking"} /\ ~Linked(b) /\ link[b].down = "none"
  /\ Exit(b, "Quit")

(* The second snapshot and the listeners have come; b accepts on them.     *)
Take(b) ==
  /\ phase[b] = "Asking" /\ link[b].down = "Listeners"
  /\ Go(b, "Bound")
  /\ link' = [link EXCEPT ![b].down = "none"]
  /\ UNCHANGED <<Files, Local>>

(* Not all of them could be served within COMMIT_WITHIN. *)
CannotServe(b) == phase[b] = "Bound" /\ Exit(b, "Quit")

SendCommit(b) ==
  /\ phase[b] = "Bound"
  /\ Go(b, "Committing")
  /\ link' = [link EXCEPT ![b].up = IF Linked(b) THEN "Commit" ELSE "none"]
  /\ UNCHANGED <<Files, Local>>

(* From the commit on b renews tokens and is the main core. *)
Committed(b) ==
  /\ Go(b, "Claiming")
  /\ held' = held \ {b}
  /\ UNCHANGED <<Files, preds, open, strikes, crashes>>

TakeAck(b) ==
  /\ phase[b] = "Committing" /\ link[b].down = "Ack"
  /\ link' = [link EXCEPT ![b].down = "none"]
  /\ Committed(b)

(* The link is closed, or no answer has come within ACK_WITHIN. *)
Doubt(b) ==
  /\ phase[b] = "Committing" /\ link[b].down = "none"
  /\ Linked(b) => "late" \in Windows
  /\ Go(b, "Doubting")
  /\ UNCHANGED <<link, Files, Local>>

(* A slip: no answer is taken for a giver that is gone. *)
SlipTrust(b) == phase[b] = "Doubting" /\ Committed(b) /\ UNCHANGED link

(* The giver is gone, and b has its listeners; or it lives, and b exits.   *)
Trust(b) ==
  /\ phase[b] = "Doubting" /\ ~Alive(Holder(b))
  /\ Committed(b) /\ UNCHANGED link

Distrust(b) ==
  phase[b] = "Doubting" /\ Alive(Holder(b)) /\ Exit(b, "Quit")

(* LockFile::claim *)
Claim(b) ==
  /\ phase[b] = "Claiming" /\ Undisturbed(b)
  /\ Go(b, "Marking")
  /\ lock' = b
  /\ UNCHANGED <<marks, endpoint, link, Local>>

(* mark_draining(), and b is what its giver was. *)
Mark(b) ==
  /\ phase[b] = "Marking"
  /\ Go(b, "Idle")
  /\ marks' = Draining(b) \cup {Holder(b)}
  /\ UNCHANGED <<lock, endpoint, link, Local>>

(* A slip: a core that crashed is waited for. *)
SlipOpenStore(c) ==
  /\ phase[c] \in Taking \cup Owning \cup {"Draining"} /\ c \notin open
  /\ \A p \in preds[c] : phase[p] = "Left"
  /\ open' = open \cup {c}
  /\ marks' = Draining(c)
  /\ UNCHANGED <<phase, lock, endpoint, link, preds, held, strikes, crashes>>

(* open_later(): all who may write to the store are gone. *)
OpenStore(c) ==
  /\ phase[c] \in Taking \cup Owning \cup {"Draining"} /\ c \notin open
  /\ \A p \in preds[c] : ~Alive(p)
  /\ open' = open \cup {c}
  /\ marks' = Draining(c)
  /\ UNCHANGED <<phase, lock, endpoint, link, preds, held, strikes, crashes>>

Starting(c) ==
  \/ Write(c) \/ Bind(c) \/ PortTaken(c)
  \/ phase[c] = "Again" /\ (Acquire(c) \/ AlreadyRunning(c))

TakingOver(b) ==
  \/ Learn(b) \/ Yield(b) \/ StartOver(b) \/ TurnBack(b)
  \/ phase[b] = "Asking" /\ LoseGiver(b)
  \/ Take(b) \/ SendCommit(b) \/ TakeAck(b) \/ Doubt(b) \/ Trust(b) \/ Distrust(b)
  \/ Claim(b) \/ Mark(b)

Next ==
  \E c \in Core :
    \/ Acquire(c) \/ Call(c) \/ AlreadyRunning(c) \/ Starting(c)
    \/ Arm(c) \/ ArmExpires(c) \/ Giving(c) \/ \E b \in Takers(c) : CannotGive(c, b)
    \/ Ask(c) \/ LoseGiver(c) \/ CannotServe(c) \/ TakingOver(c)
    \/ OpenStore(c) \/ Shutdown(c) \/ Crash(c)

Spec == Init /\ [][Next]_vars

(* What has begun ends: each wait has a limit or is for a core that ends.  *)
(* Nobody is bound to start or arm a core, to repair a configuration, or   *)
(* to shut a core down.                                                    *)
FairSpec ==
  /\ Spec
  /\ \A c \in Core : /\ WF_vars(Starting(c)) /\ WF_vars(Giving(c))
                     /\ WF_vars(TakingOver(c)) /\ WF_vars(OpenStore(c))

-----------------------------------------------------------------------------
(* Properties. *)

(* The core that serves as the main one, from the moment its giver cannot  *)
(* take it back.                                                           *)
Leads(c) ==
  \/ phase[c] \in Main \cup {"Claiming", "Marking"}
  \/ phase[c] = "Committing" /\ link[c].down = "Ack"

L == INSTANCE Lead WITH leaders <- {c \in Core : Leads(c)}

(* Never two main cores, and a handover replaces one by the other in one   *)
(* step: "the commit is the only irreversible point, and what counts is    *)
(* the CommitAck" (the head of handover.rs).                               *)
OneLeader == L!Spec

(* Requests are written to the store by one core at a time, whoever        *)
(* crashes in between: the store is opened when the oldest core has exited *)
(* (open_later, Draining in lockfile.rs).                                  *)
OneWriter ==
  Cardinality({c \in open : phase[c] \in Serving \cup {"Draining"}}) <= 1

(* Tokens are renewed by one core at a time: a renewal makes the tokens of *)
(* the other core void (the second snapshot in give()).                    *)
OneRenewer ==
  Cardinality({c \in Core \ held : phase[c] \in Serving \cup {"Draining"}}) <= 1

(* Nobody who exits takes the lock file away from under the main core:     *)
(* "remove it, and the next to start does not see the lock" (the drop of   *)
(* LockFile).                                                              *)
LockStays ==
  [][lock # Nobody /\ lock' = Nobody => \A c \in Core : phase'[c] \notin Main]_vars

(* A step of a handover does not hang: who takes a place, or gives it, is  *)
(* at rest again or gone in the end.                                       *)
NobodyHangs ==
  \A c \in Core :
    Alive(c) /\ phase[c] \notin {"Idle", "Armed", "Offered", "Learning"} ~>
      ~Alive(c) \/ phase[c] \in {"Idle", "Armed", "Offered", "Learning"}

(* The store of a core that serves is opened in the end, however long the  *)
(* chain of the cores before it.                                           *)
StoreOpens ==
  \A c \in Core : phase[c] = "Idle" /\ c \notin open ~> c \in open \/ ~Alive(c)
=============================================================================
