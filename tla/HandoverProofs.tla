--------------------------- MODULE HandoverProofs ---------------------------
(***************************************************************************)
(* For any number of cores and crashes: a handover implements Lead, so     *)
(* there is never a second main core; tokens are renewed by one core at a  *)
(* time; the store is open in one core at a time, but for those that have  *)
(* to be let in by a mark that was erased; and a main core is in the lock  *)
(* file, unless a core took the lock on its way to ports that are taken.   *)
(* All of it rests on two assumptions on time (Timely).                    *)
(*                                                                         *)
(* Why there is one leader.  A core that starts needs the ports, and       *)
(* whoever leads, or is about to, has them.  A taker is made the leader by *)
(* its giver, which stops in the same step; or it finds the giver gone,    *)
(* and then nobody leads, as no third core can have come to lead in        *)
(* between: the giver was the leader (OneLeads), the taker alone has its   *)
(* listeners (OneHeir), and the others see them taken (LeftToHeir).  That  *)
(* the core on the endpoint is the one that the lock names, so that "the   *)
(* giver is gone" is about the right process, is in Locked and Linking.    *)
(*                                                                         *)
(* Why there is one writer.  A core that drains is on record (Noted), and  *)
(* whoever comes to write waits for it (Awaited): of two that may write at *)
(* all, one waits for the end of the other (InLine).                       *)
(***************************************************************************)
EXTENDS Handover, FiniteSetTheorems, TLAPS

(* No other core is between reading the lock and writing it, and time      *)
(* limits are kept in the order they were chosen for.                      *)
Timely == "acquire" \notin Windows /\ "late" \notin Windows

(* The phases of a core that a taker is connected to. *)
Giver == {"Taken", "Offered", "Given", "Refusing"}

Link == [to : Core \cup {Nobody}, holder : Core \cup {Nobody}, cut : BOOLEAN,
         up : {"none", "Want", "Commit", "Fallback"},
         down : {"none", "Control", "Refused", "Listeners", "Ack"}]

Typed ==
  /\ phase \in [Core -> Phases]
  /\ lock \in Core \cup {Nobody}
  /\ endpoint \in Core \cup {Nobody}
  /\ link \in [Core -> Link]
  /\ held \subseteq Core

(* b has the listeners of its giver, or they are on their way. *)
Heir(b) ==
  \/ phase[b] \in {"Bound", "Committing", "Doubting"}
  \/ phase[b] = "Asking" /\ link[b].down = "Listeners"

OneLeads == \A c, d \in Core : Leads(c) /\ Leads(d) => c = d

OneHeir == \A b, d \in Core : Heir(b) /\ Heir(d) => b = d

(* No third core leads while an heir may still come to do so. *)
LeftToHeir ==
  \A b, c \in Core : Heir(b) /\ Leads(c) => c = b \/ c = link[b].holder

(* A live core that the lock names has it by right: nobody writes to it    *)
(* meanwhile, a giver has it and nobody is starting, and if the core that  *)
(* has it is draining, nobody else was made the main core but by it.       *)
Locked ==
  /\ lock # Nobody => phase[lock] \in Main \cup {"Binding", "Marking", "Draining"} \cup Gone
  /\ \A c \in Core : phase[c] = "Writing" =>
       LockFree /\ \A d \in Core : phase[d] = "Writing" => d = c
  /\ \A a \in Core : phase[a] \in Giver =>
       lock = a /\ \A d \in Core : phase[d] # "Binding"
  /\ \A a \in Core : phase[a] = "Draining" /\ lock = a =>
       \A d \in Core : phase[d] \notin Main \cup {"Marking", "Binding"}

(* Who listens on the endpoint waits for it; a taker is connected to the   *)
(* core the lock named, alone, and a giver has no taker left from before.  *)
Linking ==
  /\ endpoint # Nobody => phase[endpoint] = "Armed"
  /\ \A b \in Core : link[b].holder = link[b].to
  /\ \A b \in Core : ~link[b].cut =>
       /\ link[b].to \in Core
       /\ phase[link[b].to] \in Giver \cup {"Draining"} \cup Gone
       /\ \A d \in Core : ~link[d].cut /\ link[d].to = link[b].to => d = b
  /\ \A a, b \in Core :
       phase[a] \in Giver /\ phase[b] \in {"Asking", "Bound", "Committing", "Doubting"} =>
         ~link[b].cut

(* What is not yet on its way to a taker, or from it. *)
Talk ==
  \A b \in Core :
    /\ phase[b] \in {"Calling", "Learning"} =>
         link[b].up = "none" /\ link[b].down \notin {"Listeners", "Ack"}
    /\ phase[b] \in {"Asking", "Bound"} => link[b].up # "Commit" /\ link[b].down # "Ack"

(* Who does not renew: a taker, and a giver that has given. *)
Holding ==
  \A c \in Core : phase[c] \in Taking \cup {"Given", "Draining"} => c \in held

Inv == Typed /\ OneLeads /\ OneHeir /\ LeftToHeir /\ Locked /\ Linking /\ Talk /\ Holding

(***************************************************************************)
(* The steps.  What one does to the leaders: there are no more of them; c  *)
(* comes to lead where nobody did; or b takes the place of a.              *)
(***************************************************************************)

USE DEF Gone, Main, Owning, Taking, Serving, Phases, Giver, Go, Files, Local, With

Fewer == \A x \in Core : Leads(x)' => Leads(x)

Begins(c) == (\A x \in Core : ~Leads(x)) /\ \A x \in Core : Leads(x)' <=> x = c

Passes(a, b) == Leads(a) /\ ~Leads(a)' /\ \A x \in Core : Leads(x)' => x = b

(* Starting, and becoming a giver. *)
LEMMA AcquireInv == ASSUME Inv, Timely, NEW c \in Core, Acquire(c) PROVE Inv' /\ Fewer
<1>1. Typed'  BY DEF Inv, Acquire, Typed, Link
<1>2. Fewer  BY DEF Inv, Acquire, Fewer, Leads, Typed
<1>3. OneLeads' /\ OneHeir' /\ LeftToHeir'
  BY <1>1, <1>2 DEF Inv, Acquire, OneLeads, OneHeir, LeftToHeir, Heir, Fewer, Typed
<1>4. Locked'
  BY CoreAssumption DEF Inv, Acquire, Locked, LockFree, Alive, Typed, Undisturbed, Timely
<1>5. Linking'  BY DEF Inv, Acquire, Linking, Typed
<1>6. Talk' /\ Holding'  BY DEF Inv, Acquire, Talk, Holding, Typed
<1> QED  BY <1>1, <1>2, <1>3, <1>4, <1>5, <1>6 DEF Inv

LEMMA WriteInv == ASSUME Inv, NEW c \in Core, Write(c) PROVE Inv' /\ Fewer
<1>1. Typed'  BY DEF Inv, Write, Typed, Link
<1>2. Fewer  BY DEF Inv, Write, Fewer, Leads, Typed
<1>3. OneLeads' /\ OneHeir' /\ LeftToHeir'
  BY <1>1, <1>2 DEF Inv, Write, OneLeads, OneHeir, LeftToHeir, Heir, Fewer, Typed
<1>4. Locked'  BY DEF Inv, Write, Locked, LockFree, Alive, Typed
<1>5. Linking'  BY DEF Inv, Write, Linking, Typed
<1>6. Talk' /\ Holding'  BY DEF Inv, Write, Talk, Holding, Typed
<1> QED  BY <1>1, <1>2, <1>3, <1>4, <1>5, <1>6 DEF Inv

LEMMA CallInv == ASSUME Inv, Timely, NEW c \in Core, Call(c) PROVE Inv' /\ Fewer
<1>1. Typed'  BY CoreAssumption DEF Inv, Call, Typed, Link, NoLink, LockFree
<1>2. Fewer  BY DEF Inv, Call, Fewer, Leads, Typed, NoLink, Linking
<1>3. OneLeads' /\ OneHeir' /\ LeftToHeir'
  BY <1>1, <1>2 DEF Inv, Call, OneLeads, OneHeir, LeftToHeir, Heir, Fewer, Typed
<1>4. Locked'
  BY CoreAssumption DEF Inv, Call, Locked, LockFree, Alive, Typed, InTime, Timely, OneLeads,
                        Leads, Linking
<1>5. Linking'
  BY CoreAssumption DEF Inv, Call, Linking, Typed, NoLink, Link, InTime, Timely, Locked,
                        LockFree, Alive, OneLeads, Leads
<1>6. Talk' /\ Holding'  BY DEF Inv, Call, Talk, Holding, Typed, NoLink
<1> QED  BY <1>1, <1>2, <1>3, <1>4, <1>5, <1>6 DEF Inv

LEMMA ArmInv == ASSUME Inv, NEW c \in Core, Arm(c) PROVE Inv' /\ Fewer
<1>1. Typed'  BY DEF Inv, Arm, Typed, Link
<1>2. Fewer  BY DEF Inv, Arm, Fewer, Leads, Typed
<1>3. OneLeads' /\ OneHeir' /\ LeftToHeir'
  BY <1>1, <1>2 DEF Inv, Arm, OneLeads, OneHeir, LeftToHeir, Heir, Fewer, Typed
<1>4. Locked'  BY DEF Inv, Arm, Locked, LockFree, Alive, Typed
<1>5. Linking'  BY DEF Inv, Arm, Linking, Typed
<1>6. Talk' /\ Holding'  BY DEF Inv, Arm, Talk, Holding, Typed
<1> QED  BY <1>1, <1>2, <1>3, <1>4, <1>5, <1>6 DEF Inv

LEMMA ArmExpiresInv == ASSUME Inv, NEW c \in Core, ArmExpires(c) PROVE Inv' /\ Fewer
<1>1. Typed'  BY DEF Inv, ArmExpires, Typed, Link
<1>2. Fewer  BY DEF Inv, ArmExpires, Fewer, Leads, Typed
<1>3. OneLeads' /\ OneHeir' /\ LeftToHeir'
  BY <1>1, <1>2 DEF Inv, ArmExpires, OneLeads, OneHeir, LeftToHeir, Heir, Fewer, Typed
<1>4. Locked'  BY DEF Inv, ArmExpires, Locked, LockFree, Alive, Typed
<1>5. Linking'  BY DEF Inv, ArmExpires, Linking, Typed
<1>6. Talk' /\ Holding'  BY DEF Inv, ArmExpires, Talk, Holding, Typed
<1> QED  BY <1>1, <1>2, <1>3, <1>4, <1>5, <1>6 DEF Inv

(* The giver. *)
LEMMA OfferInv ==
  ASSUME Inv, NEW a \in Core, NEW b \in Takers(a), Offer(a, b)
  PROVE  Inv' /\ Fewer
<1>1. Typed'  BY DEF Inv, Offer, Reply, Takers, Typed, Link
<1>2. Fewer  BY DEF Inv, Offer, Reply, Takers, Fewer, Leads, Typed
<1>3. OneLeads' /\ OneHeir' /\ LeftToHeir'
  BY <1>1, <1>2 DEF Inv, Offer, Reply, Takers, OneLeads, OneHeir, LeftToHeir, Heir, Fewer,
                    Typed
<1>4. Locked'  BY DEF Inv, Offer, Reply, Takers, Locked, LockFree, Alive, Typed
<1>5. Linking'  BY DEF Inv, Offer, Reply, Takers, Linking, Typed
<1>6. Talk' /\ Holding'  BY DEF Inv, Offer, Reply, Takers, Talk, Holding, Typed
<1> QED  BY <1>1, <1>2, <1>3, <1>4, <1>5, <1>6 DEF Inv

LEMMA RefuseInv ==
  ASSUME Inv, NEW a \in Core, NEW b \in Takers(a), Refuse(a, b)
  PROVE  Inv' /\ Fewer
<1>1. Typed'  BY DEF Inv, Refuse, Reply, Takers, Typed, Link
<1>2. Fewer  BY DEF Inv, Refuse, Reply, Takers, Fewer, Leads, Typed
<1>3. OneLeads' /\ OneHeir' /\ LeftToHeir'
  BY <1>1, <1>2 DEF Inv, Refuse, Reply, Takers, OneLeads, OneHeir, LeftToHeir, Heir, Fewer,
                    Typed
<1>4. Locked'  BY DEF Inv, Refuse, Reply, Takers, Locked, LockFree, Alive, Typed
<1>5. Linking'  BY DEF Inv, Refuse, Reply, Takers, Linking, Typed
<1>6. Talk' /\ Holding'  BY DEF Inv, Refuse, Reply, Takers, Talk, Holding, Typed
<1> QED  BY <1>1, <1>2, <1>3, <1>4, <1>5, <1>6 DEF Inv

LEMMA GiveInv ==
  ASSUME Inv, NEW a \in Core, NEW b \in Takers(a), Give(a, b)
  PROVE  Inv' /\ Fewer
<1>1. Typed'  BY DEF Inv, Give, Reply, Takers, Typed, Link
<1>2. Fewer  BY DEF Inv, Give, Reply, Takers, Fewer, Leads, Typed
<1>3. OneLeads' /\ OneHeir' /\ LeftToHeir'
  BY <1>1, <1>2 DEF Inv, Give, Reply, Takers, OneLeads, OneHeir, LeftToHeir, Heir, Fewer,
                    Typed, Linking, Leads
<1>4. Locked'  BY DEF Inv, Give, Reply, Takers, Locked, LockFree, Alive, Typed
<1>5. Linking'  BY DEF Inv, Give, Reply, Takers, Linking, Typed
<1>6. Talk' /\ Holding'  BY DEF Inv, Give, Reply, Takers, Talk, Holding, Typed
<1> QED  BY <1>1, <1>2, <1>3, <1>4, <1>5, <1>6 DEF Inv

LEMMA AbandonInv ==
  ASSUME Inv, NEW a \in Core, NEW b \in Takers(a), NEW n, phase[a] \in Giver, Abandon(a, b, n)
  PROVE  Inv' /\ Fewer
<1>1. Typed'  BY DEF Inv, Abandon, Takers, Typed, Link
<1>2. Fewer  BY DEF Inv, Abandon, Takers, Fewer, Leads, Typed
<1>3. OneLeads' /\ OneHeir' /\ LeftToHeir'
  BY <1>1, <1>2 DEF Inv, Abandon, Takers, OneLeads, OneHeir, LeftToHeir, Heir, Fewer, Typed
<1>4. Locked'  BY DEF Inv, Abandon, Takers, Locked, LockFree, Alive, Typed
<1>5. Linking'  BY DEF Inv, Abandon, Takers, Linking, Typed, OneLeads, Leads
<1>6. Talk' /\ Holding'  BY DEF Inv, Abandon, Takers, Talk, Holding, Typed
<1> QED  BY <1>1, <1>2, <1>3, <1>4, <1>5, <1>6 DEF Inv

LEMMA TakeFallbackInv ==
  ASSUME Inv, NEW a \in Core, NEW b \in Takers(a), TakeFallback(a, b)
  PROVE  Inv' /\ Fewer
<1>1. Typed'  BY DEF Inv, TakeFallback, Takers, Typed, Link
<1>2. Fewer  BY DEF Inv, TakeFallback, Takers, Fewer, Leads, Typed
<1>3. OneLeads' /\ OneHeir' /\ LeftToHeir'
  BY <1>1, <1>2 DEF Inv, TakeFallback, Takers, OneLeads, OneHeir, LeftToHeir, Heir, Fewer,
                    Typed
<1>4. Locked'  BY DEF Inv, TakeFallback, Takers, Locked, LockFree, Alive, Typed
<1>5. Linking'  BY DEF Inv, TakeFallback, Takers, Linking, Typed, OneLeads, Leads
<1>6. Talk' /\ Holding'  BY DEF Inv, TakeFallback, Takers, Talk, Holding, Typed
<1> QED  BY <1>1, <1>2, <1>3, <1>4, <1>5, <1>6 DEF Inv

(* The taker. *)
LEMMA LearnInv == ASSUME Inv, NEW c \in Core, Learn(c) PROVE Inv' /\ Fewer
<1>1. Typed'  BY DEF Inv, Learn, Typed, Link
<1>2. Fewer  BY DEF Inv, Learn, Fewer, Leads, Typed
<1>3. OneLeads' /\ OneHeir' /\ LeftToHeir'
  BY <1>1, <1>2 DEF Inv, Learn, OneLeads, OneHeir, LeftToHeir, Heir, Fewer, Typed
<1>4. Locked'  BY DEF Inv, Learn, Locked, LockFree, Alive, Typed
<1>5. Linking'  BY DEF Inv, Learn, Linking, Typed
<1>6. Talk' /\ Holding'  BY DEF Inv, Learn, Talk, Holding, Typed
<1> QED  BY <1>1, <1>2, <1>3, <1>4, <1>5, <1>6 DEF Inv

LEMMA YieldInv == ASSUME Inv, NEW c \in Core, Yield(c) PROVE Inv' /\ Fewer
<1>1. Typed'  BY DEF Inv, Yield, Typed, Link
<1>2. Fewer  BY DEF Inv, Yield, Fewer, Leads, Typed
<1>3. OneLeads' /\ OneHeir' /\ LeftToHeir'
  BY <1>1, <1>2 DEF Inv, Yield, OneLeads, OneHeir, LeftToHeir, Heir, Fewer, Typed
<1>4. Locked'  BY DEF Inv, Yield, Locked, LockFree, Alive, Typed
<1>5. Linking'  BY DEF Inv, Yield, Linking, Typed
<1>6. Talk' /\ Holding'  BY DEF Inv, Yield, Talk, Holding, Typed
<1> QED  BY <1>1, <1>2, <1>3, <1>4, <1>5, <1>6 DEF Inv

LEMMA StartOverInv == ASSUME Inv, NEW c \in Core, StartOver(c) PROVE Inv' /\ Fewer
<1>1. Typed'  BY DEF Inv, StartOver, Ended, Typed, Link, NoLink
<1>2. Fewer  BY DEF Inv, StartOver, Ended, Fewer, Leads, Typed
<1>3. OneLeads' /\ OneHeir' /\ LeftToHeir'
  BY <1>1, <1>2 DEF Inv, StartOver, Ended, OneLeads, OneHeir, LeftToHeir, Heir, Fewer, Typed
<1>4. Locked'  BY DEF Inv, StartOver, Ended, Locked, LockFree, Alive, Typed
<1>5. Linking'  BY DEF Inv, StartOver, Ended, Linking, Typed, NoLink
<1>6. Talk' /\ Holding'  BY DEF Inv, StartOver, Ended, Talk, Holding, Typed
<1> QED  BY <1>1, <1>2, <1>3, <1>4, <1>5, <1>6 DEF Inv

LEMMA AskInv == ASSUME Inv, NEW c \in Core, Ask(c) PROVE Inv' /\ Fewer
<1>1. Typed'  BY DEF Inv, Ask, Typed, Link
<1>2. Fewer  BY DEF Inv, Ask, Fewer, Leads, Typed
<1>3. OneLeads' /\ OneHeir' /\ LeftToHeir'
  BY <1>1, <1>2 DEF Inv, Ask, OneLeads, OneHeir, LeftToHeir, Heir, Fewer, Typed, Talk
<1>4. Locked'  BY DEF Inv, Ask, Locked, LockFree, Alive, Typed
<1>5. Linking'  BY DEF Inv, Ask, Linking, Typed, Linked
<1>6. Talk' /\ Holding'  BY DEF Inv, Ask, Talk, Holding, Typed
<1> QED  BY <1>1, <1>2, <1>3, <1>4, <1>5, <1>6 DEF Inv

LEMMA TakeInv == ASSUME Inv, NEW c \in Core, Take(c) PROVE Inv' /\ Fewer
<1>1. Typed'  BY DEF Inv, Take, Typed, Link
<1>2. Fewer  BY DEF Inv, Take, Fewer, Leads, Typed
<1>3. OneLeads' /\ OneHeir' /\ LeftToHeir'
  BY <1>1, <1>2 DEF Inv, Take, OneLeads, OneHeir, LeftToHeir, Heir, Fewer, Typed
<1>4. Locked'  BY DEF Inv, Take, Locked, LockFree, Alive, Typed
<1>5. Linking'  BY DEF Inv, Take, Linking, Typed
<1>6. Talk' /\ Holding'  BY DEF Inv, Take, Talk, Holding, Typed
<1> QED  BY <1>1, <1>2, <1>3, <1>4, <1>5, <1>6 DEF Inv

LEMMA SendCommitInv == ASSUME Inv, NEW c \in Core, SendCommit(c) PROVE Inv' /\ Fewer
<1>1. Typed'  BY DEF Inv, SendCommit, Typed, Link
<1>2. Fewer  BY DEF Inv, SendCommit, Fewer, Leads, Typed, Talk
<1>3. OneLeads' /\ OneHeir' /\ LeftToHeir'
  BY <1>1, <1>2 DEF Inv, SendCommit, OneLeads, OneHeir, LeftToHeir, Heir, Fewer, Typed
<1>4. Locked'  BY DEF Inv, SendCommit, Locked, LockFree, Alive, Typed
<1>5. Linking'  BY DEF Inv, SendCommit, Linking, Typed
<1>6. Talk' /\ Holding'  BY DEF Inv, SendCommit, Talk, Holding, Typed
<1> QED  BY <1>1, <1>2, <1>3, <1>4, <1>5, <1>6 DEF Inv

LEMMA TakeAckInv == ASSUME Inv, NEW c \in Core, TakeAck(c) PROVE Inv' /\ Fewer
<1>1. Typed'  BY DEF Inv, TakeAck, Committed, Typed, Link
<1>2. Fewer  BY DEF Inv, TakeAck, Committed, Fewer, Leads, Typed
<1>3. OneLeads' /\ OneHeir' /\ LeftToHeir'
  BY <1>1, <1>2 DEF Inv, TakeAck, Committed, OneLeads, OneHeir, LeftToHeir, Heir, Fewer,
                    Typed
<1>4. Locked'  BY DEF Inv, TakeAck, Committed, Locked, LockFree, Alive, Typed
<1>5. Linking'  BY DEF Inv, TakeAck, Committed, Linking, Typed
<1>6. Talk' /\ Holding'  BY DEF Inv, TakeAck, Committed, Talk, Holding, Typed
<1> QED  BY <1>1, <1>2, <1>3, <1>4, <1>5, <1>6 DEF Inv

LEMMA DoubtInv == ASSUME Inv, NEW c \in Core, Doubt(c) PROVE Inv' /\ Fewer
<1>1. Typed'  BY DEF Inv, Doubt, Typed, Link
<1>2. Fewer  BY DEF Inv, Doubt, Fewer, Leads, Typed
<1>3. OneLeads' /\ OneHeir' /\ LeftToHeir'
  BY <1>1, <1>2 DEF Inv, Doubt, OneLeads, OneHeir, LeftToHeir, Heir, Fewer, Typed
<1>4. Locked'  BY DEF Inv, Doubt, Locked, LockFree, Alive, Typed
<1>5. Linking'  BY DEF Inv, Doubt, Linking, Typed
<1>6. Talk' /\ Holding'  BY DEF Inv, Doubt, Talk, Holding, Typed
<1> QED  BY <1>1, <1>2, <1>3, <1>4, <1>5, <1>6 DEF Inv

LEMMA ClaimInv == ASSUME Inv, Timely, NEW c \in Core, Claim(c) PROVE Inv' /\ Fewer
<1>1. Typed'  BY DEF Inv, Claim, Typed, Link
<1>2. Fewer  BY DEF Inv, Claim, Fewer, Leads, Typed
<1>3. OneLeads' /\ OneHeir' /\ LeftToHeir'
  BY <1>1, <1>2 DEF Inv, Claim, OneLeads, OneHeir, LeftToHeir, Heir, Fewer, Typed
<1>4. Locked'
  BY DEF Inv, Claim, Locked, LockFree, Alive, Typed, Undisturbed, Timely, OneLeads, Leads
<1>5. Linking'  BY DEF Inv, Claim, Linking, Typed
<1>6. Talk' /\ Holding'  BY DEF Inv, Claim, Talk, Holding, Typed
<1> QED  BY <1>1, <1>2, <1>3, <1>4, <1>5, <1>6 DEF Inv

LEMMA MarkInv == ASSUME Inv, NEW c \in Core, Mark(c) PROVE Inv' /\ Fewer
<1>1. Typed'  BY DEF Inv, Mark, Typed, Link
<1>2. Fewer  BY DEF Inv, Mark, Fewer, Leads, Typed
<1>3. OneLeads' /\ OneHeir' /\ LeftToHeir'
  BY <1>1, <1>2 DEF Inv, Mark, OneLeads, OneHeir, LeftToHeir, Heir, Fewer, Typed
<1>4. Locked'  BY DEF Inv, Mark, Locked, LockFree, Alive, Typed
<1>5. Linking'  BY DEF Inv, Mark, Linking, Typed
<1>6. Talk' /\ Holding'  BY DEF Inv, Mark, Talk, Holding, Typed
<1> QED  BY <1>1, <1>2, <1>3, <1>4, <1>5, <1>6 DEF Inv

LEMMA OpenStoreInv == ASSUME Inv, NEW c \in Core, OpenStore(c) PROVE Inv' /\ Fewer
<1>1. Typed'  BY DEF Inv, OpenStore, Typed, Link
<1>2. Fewer  BY DEF Inv, OpenStore, Fewer, Leads, Typed
<1>3. OneLeads' /\ OneHeir' /\ LeftToHeir'
  BY <1>1, <1>2 DEF Inv, OpenStore, OneLeads, OneHeir, LeftToHeir, Heir, Fewer, Typed
<1>4. Locked'  BY DEF Inv, OpenStore, Locked, LockFree, Alive, Typed
<1>5. Linking'  BY DEF Inv, OpenStore, Linking, Typed
<1>6. Talk' /\ Holding'  BY DEF Inv, OpenStore, Talk, Holding, Typed
<1> QED  BY <1>1, <1>2, <1>3, <1>4, <1>5, <1>6 DEF Inv

(* A core that is gone, however: the lock goes only if it was its own. *)
LEMMA GoneInv ==
  ASSUME Inv, NEW c \in Core, NEW how \in Gone, Go(c, how), Closed(c),
         lock' = lock \/ (lock = c /\ lock' = Nobody)
  PROVE  Inv' /\ Fewer
<1>1. Typed'  BY DEF Inv, Closed, Typed
<1>2. Fewer  BY DEF Inv, Closed, Fewer, Leads, Typed
<1>3. OneLeads' /\ OneHeir' /\ LeftToHeir'
  BY <1>1, <1>2 DEF Inv, Closed, OneLeads, OneHeir, LeftToHeir, Heir, Fewer, Typed
<1>4. Locked'  BY CoreAssumption DEF Inv, Closed, Locked, LockFree, Alive, Typed
<1>5. Linking'  BY DEF Inv, Closed, Linking, Typed
<1>6. Talk' /\ Holding'  BY DEF Inv, Closed, Talk, Holding, Typed
<1> QED  BY <1>1, <1>2, <1>3, <1>4, <1>5, <1>6 DEF Inv

(* The three steps after which a core leads that did not: it finds the     *)
(* ports free, finds its giver gone, or is acknowledged.                   *)
LEMMA BindInv == ASSUME Inv, NEW c \in Core, Bind(c) PROVE Inv' /\ Begins(c)
<1>1. Typed'  BY DEF Inv, Bind, Typed
<1>2. Begins(c)  BY DEF Inv, Bind, HasPorts, Begins, Leads, Typed
<1>3. OneLeads' /\ OneHeir' /\ LeftToHeir'
  BY <1>1, <1>2 DEF Inv, Bind, HasPorts, Begins, OneLeads, OneHeir, LeftToHeir, Heir, Typed
<1>4. Locked'  BY DEF Inv, Bind, Locked, LockFree, Alive, Typed
<1>5. Linking'  BY DEF Inv, Bind, Linking, Typed
<1>6. Talk' /\ Holding'  BY DEF Inv, Bind, Talk, Holding, Typed
<1> QED  BY <1>1, <1>2, <1>3, <1>4, <1>5, <1>6 DEF Inv

LEMMA TrustInv == ASSUME Inv, NEW b \in Core, Trust(b) PROVE Inv' /\ Begins(b)
<1>1. Typed'  BY DEF Inv, Trust, Committed, Typed
<1>2. Begins(b)
  BY DEF Inv, Trust, Committed, Holder, Alive, Begins, LeftToHeir, Heir, Leads, Typed
<1>3. OneLeads' /\ OneHeir' /\ LeftToHeir'
  BY <1>1, <1>2 DEF Inv, Trust, Committed, Begins, OneLeads, OneHeir, LeftToHeir, Heir, Typed
<1>4. Locked'  BY DEF Inv, Trust, Committed, Locked, LockFree, Alive, Typed
<1>5. Linking'  BY DEF Inv, Trust, Committed, Linking, Typed
<1>6. Talk' /\ Holding'  BY DEF Inv, Trust, Committed, Talk, Holding, Typed
<1> QED  BY <1>1, <1>2, <1>3, <1>4, <1>5, <1>6 DEF Inv

LEMMA TakeCommitInv ==
  ASSUME Inv, NEW a \in Core, NEW b \in Takers(a), TakeCommit(a, b)
  PROVE  Inv' /\ Passes(a, b)
<1>1. Typed'  BY DEF Inv, TakeCommit, Reply, Takers, Typed, Link
<1>2. Passes(a, b)
  BY DEF Inv, TakeCommit, Reply, Takers, Passes, OneLeads, Leads, Typed
<1>3. OneLeads' /\ OneHeir'
  BY <1>1, <1>2 DEF Inv, TakeCommit, Reply, Takers, Passes, OneLeads, OneHeir, Heir, Typed
<1>4. LeftToHeir'
  BY <1>1, <1>2 DEF Inv, TakeCommit, Reply, Takers, Passes, OneHeir, LeftToHeir, Linking,
                    Heir, Typed
<1>5. Locked'
  BY DEF Inv, TakeCommit, Reply, Takers, Locked, LockFree, Alive, OneLeads, Leads, Typed
<1>6. Linking'  BY DEF Inv, TakeCommit, Reply, Takers, Linking, Typed
<1>7. Talk' /\ Holding'  BY DEF Inv, TakeCommit, Reply, Takers, Talk, Holding, Typed
<1> QED  BY <1>1, <1>2, <1>3, <1>4, <1>5, <1>6, <1>7 DEF Inv

LEMMA ExitInv == ASSUME Inv, NEW c \in Core, NEW how \in Gone, Exit(c, how) PROVE Inv' /\ Fewer
<1>1. Go(c, how) /\ Closed(c) /\ (lock' = lock \/ (lock = c /\ lock' = Nobody))
  BY DEF Exit, DropLock
<1> QED  BY <1>1, GoneInv

LEMMA CrashInv == ASSUME Inv, NEW c \in Core, Crash(c) PROVE Inv' /\ Fewer
<1>1. Go(c, "Crashed") /\ Closed(c) /\ lock' = lock  BY DEF Crash
<1> QED  BY <1>1, GoneInv

(* The steps of one core, and those of a giver with its taker. *)
LEMMA CoreInv ==
  ASSUME Inv, Timely, NEW c \in Core,
         \/ Acquire(c) \/ Call(c) \/ AlreadyRunning(c) \/ Starting(c)
         \/ Arm(c) \/ ArmExpires(c) \/ RetireEnds(c) \/ DrainEnds(c)
         \/ Ask(c) \/ LoseGiver(c) \/ CannotServe(c) \/ TakingOver(c)
         \/ OpenStore(c) \/ Shutdown(c) \/ Crash(c)
  PROVE  Inv' /\ (Fewer \/ Begins(c))
<1>1. CASE AlreadyRunning(c) \/ PortTaken(c) \/ RetireEnds(c) \/ DrainEnds(c)
             \/ LoseGiver(c) \/ CannotServe(c) \/ TurnBack(c) \/ Distrust(c) \/ Shutdown(c)
  BY <1>1, ExitInv DEF AlreadyRunning, PortTaken, RetireEnds, DrainEnds, LoseGiver,
                       CannotServe, TurnBack, Distrust, Shutdown
<1>2. CASE Acquire(c) \/ Write(c) \/ Bind(c) \/ Call(c) \/ Arm(c) \/ ArmExpires(c)
             \/ Crash(c) \/ OpenStore(c)
  BY <1>2, AcquireInv, WriteInv, BindInv, CallInv, ArmInv, ArmExpiresInv, CrashInv,
     OpenStoreInv
<1>3. CASE Learn(c) \/ Yield(c) \/ StartOver(c) \/ Ask(c) \/ Take(c) \/ SendCommit(c)
             \/ TakeAck(c) \/ Doubt(c) \/ Trust(c) \/ Claim(c) \/ Mark(c)
  BY <1>3, LearnInv, YieldInv, StartOverInv, AskInv, TakeInv, SendCommitInv, TakeAckInv,
     DoubtInv, TrustInv, ClaimInv, MarkInv
<1> QED  BY <1>1, <1>2, <1>3 DEF Starting, TakingOver

LEMMA GivingInv ==
  ASSUME Inv, Timely, NEW a \in Core, NEW b \in Takers(a),
         \/ Offer(a, b) \/ Refuse(a, b) \/ Give(a, b) \/ TakeCommit(a, b) \/ CannotGive(a, b)
         \/ GiveUp(a, b) \/ LoseTaker(a, b) \/ TakeFallback(a, b)
  PROVE  Inv' /\ (Fewer \/ Passes(a, b))
<1>1. CASE Offer(a, b) \/ Refuse(a, b) \/ Give(a, b) \/ TakeCommit(a, b) \/ TakeFallback(a, b)
  BY <1>1, OfferInv, RefuseInv, GiveInv, TakeCommitInv, TakeFallbackInv
<1>2. CASE CannotGive(a, b) \/ GiveUp(a, b) \/ LoseTaker(a, b)
  BY <1>2, AbandonInv DEF CannotGive, GiveUp, LoseTaker
<1> QED  BY <1>1, <1>2

(***************************************************************************)
(* The theorems.                                                           *)
(***************************************************************************)

(* A step of the cores is a step of Lead, or none. *)
Leaders == {c \in Core : Leads(c)}

LEMMA FewerLead == ASSUME OneLeads, Fewer PROVE [L!Next]_Leaders
<1>1. CASE \A x \in Core : Leads(x)' <=> Leads(x)  BY <1>1 DEF Leaders
<1>2. CASE \E x \in Core : Leads(x) /\ ~Leads(x)'
  <2>1. PICK x \in Core : Leads(x) /\ ~Leads(x)'  BY <1>2
  <2>2. \A y \in Core : Leads(y) => y = x  BY <2>1 DEF OneLeads
  <2>3. Leaders = {x} /\ Leaders' = {}  BY <2>1, <2>2 DEF Leaders, Fewer
  <2> QED  BY <2>1, <2>3 DEF L!Next, L!Leave, Leaders
<1> QED  BY <1>1, <1>2 DEF Fewer

LEMMA BeginsLead == ASSUME NEW c \in Core, Begins(c) PROVE [L!Next]_Leaders
<1>1. Leaders = {} /\ Leaders' = {c}  BY DEF Begins, Leaders
<1> QED  BY <1>1 DEF L!Next, L!Start, Leaders

LEMMA PassesLead ==
  ASSUME OneLeads, NEW a \in Core, NEW b \in Core, Passes(a, b) PROVE [L!Next]_Leaders
<1>1. Leaders = {a} /\ (Leaders' = {b} \/ Leaders' = {})  BY DEF Passes, Leaders, OneLeads
<1> QED  BY <1>1 DEF L!Next, L!HandOver, L!Leave, Leaders

LEMMA InitInv == ASSUME Init PROVE Inv /\ L!Init
<1>1. Typed  BY CoreAssumption DEF Init, Typed, Link, NoLink
<1>2. \A c \in Core : ~Leads(c) /\ ~Heir(c)  BY DEF Init, Leads, Heir
<1>3. L!Init  BY <1>2 DEF L!Init
<1>4. Locked /\ Linking /\ Talk /\ Holding
  BY CoreAssumption DEF Init, Locked, LockFree, Linking, Talk, Holding, NoLink
<1> QED  BY <1>1, <1>2, <1>3, <1>4 DEF Inv, OneLeads, OneHeir, LeftToHeir

LEMMA NextInv == ASSUME Inv, Timely, [Next]_vars PROVE Inv' /\ [L!Next]_Leaders
<1>1. CASE UNCHANGED vars
  <2>1. Fewer  BY <1>1 DEF vars, Fewer, Leads
  <2>2. Inv'
    BY <1>1 DEF vars, Inv, Typed, OneLeads, OneHeir, LeftToHeir, Locked, LockFree, Alive,
                Linking, Talk, Holding, Leads, Heir
  <2> QED  BY <2>1, <2>2, FewerLead DEF Inv
<1>2. ASSUME NEW c \in Core, Inv' /\ (Fewer \/ Begins(c)) PROVE Inv' /\ [L!Next]_Leaders
  BY <1>2, FewerLead, BeginsLead DEF Inv
<1>3. ASSUME NEW a \in Core, NEW b \in Takers(a), Inv' /\ (Fewer \/ Passes(a, b))
      PROVE  Inv' /\ [L!Next]_Leaders
  BY <1>3, FewerLead, PassesLead DEF Inv, Takers
<1>4. CASE Next
  <2>1. PICK c \in Core :
          \/ Acquire(c) \/ Call(c) \/ AlreadyRunning(c) \/ Starting(c)
          \/ Arm(c) \/ ArmExpires(c) \/ Giving(c) \/ \E b \in Takers(c) : CannotGive(c, b)
          \/ Ask(c) \/ LoseGiver(c) \/ CannotServe(c) \/ TakingOver(c)
          \/ OpenStore(c) \/ Shutdown(c) \/ Crash(c)
    BY <1>4 DEF Next
  <2>2. CASE \E b \in Takers(c) :
               \/ Offer(c, b) \/ Refuse(c, b) \/ Give(c, b) \/ TakeCommit(c, b)
               \/ CannotGive(c, b) \/ GiveUp(c, b) \/ LoseTaker(c, b) \/ TakeFallback(c, b)
    BY <2>2, GivingInv, <1>3
  <2> QED  BY <2>1, <2>2, CoreInv, <1>2 DEF Giving
<1> QED  BY <1>1, <1>4

(* For any number of cores and crashes, a handover replaces one main core  *)
(* by another in one step, and there are never two: the commit is the one  *)
(* step that cannot be taken back (handover.rs).                           *)
THEOREM OneAtATime == ASSUME Timely PROVE Spec => OneLeader
<1>1. Inv /\ [Next]_vars => Inv' /\ [L!Next]_{c \in Core : Leads(c)}  BY NextInv DEF Leaders
<1>2. Init => Inv /\ L!Init  BY InitInv
<1> QED  BY <1>1, <1>2, PTL DEF Spec, OneLeader, L!Spec

(* For any number of cores and crashes, no two renew tokens: the giver     *)
(* stops before it exports them, and the taker begins when it leads.       *)
THEOREM RenewalsAreExclusive == ASSUME Timely PROVE Spec => []OneRenewer
<1>1. Inv => OneRenewer
  <2> SUFFICES ASSUME Inv PROVE OneRenewer  OBVIOUS
  <2> DEFINE R == {c \in Core \ held : phase[c] \in Serving \cup {"Draining"}}
  <2>1. \A c \in R : Leads(c)  BY DEF Inv, Holding, Leads
  <2>2. \A c, d \in R : c = d  BY <2>1 DEF Inv, OneLeads
  <2>3. CASE R = {}  BY <2>3, FS_EmptySet DEF OneRenewer
  <2>4. CASE R # {}
    <3>1. PICK c \in R : R = {c}  BY <2>2, <2>4
    <3> QED  BY <3>1, FS_Singleton DEF OneRenewer
  <2> QED  BY <2>3, <2>4
<1>2. Inv /\ [Next]_vars => Inv'  BY NextInv
<1>3. Init => Inv  BY InitInv
<1> QED  BY <1>1, <1>2, <1>3, PTL DEF Spec

(***************************************************************************)
(* The request store.                                                      *)
(***************************************************************************)

(* A mark stays while the core that it names is there. *)
Kept == \A c \in marks : Alive(c)' => c \in marks'
MarksStay == [][Kept]_vars

(* Who may write to the store once it has opened it. *)
Writes(c) == phase[c] \in Serving \cup {"Draining"}

(* Who comes to write soon: it has the lock, the listeners, or their giver. *)
Comes(b) ==
  \/ phase[b] = "Binding" \/ Heir(b)
  \/ phase[b] \in {"Learning", "Asking"} /\ Linked(b)

Past ==
  /\ marks \subseteq Core /\ open \subseteq Core /\ preds \in [Core -> SUBSET Core]
  /\ \A c \in Core : \A p \in preds[c] : phase[p] # "Unborn"
  /\ \A b \in Core : link[b].to \in Core => phase[link[b].to] # "Unborn"
  /\ \A b \in Core : phase[b] \in {"Calling", "Claiming", "Marking"} \cup Taking =>
       link[b].to \in Core

(* A core that drains is known: by its mark, by the lock that it had, or   *)
(* to the core that is about to mark it.                                   *)
Noted ==
  /\ \A b \in Core : phase[b] = "Marking" => lock = b
  /\ \A a \in Core : phase[a] = "Draining" =>
       a \in marks \/ lock = a \/ \E b \in Core : phase[b] = "Marking" /\ link[b].holder = a

(* While the lock names a core that drains, only who it gave to goes on,   *)
(* and whoever has its answer does not ask it any more.                    *)
Followed ==
  /\ \A a, b \in Core :
       phase[a] = "Draining" /\ lock = a /\ (Heir(b) \/ Leads(b)) => link[b].holder = a
  /\ \A b \in Core :
       ~link[b].cut /\ phase[b] \in {"Calling", "Learning", "Asking"} =>
         phase[link[b].to] # "Draining"

(* Who comes to write waits for all that drain, and for its giver. *)
Awaited ==
  /\ \A b, d \in Core : Comes(b) /\ phase[d] = "Draining" => d \in preds[b]
  /\ \A b \in Core : phase[b] \in Taking => link[b].holder \in preds[b]

(* Of any two that may write one waits for the other. *)
InLine == \A c, d \in Core : Writes(c) /\ Writes(d) /\ c # d => c \in preds[d] \/ d \in preds[c]

Opened ==
  \A c \in open : /\ phase[c] \in Taking \cup Owning \cup {"Draining"}
                  /\ \A p \in preds[c] : phase[p] \in Gone

Store == Past /\ Noted /\ Followed /\ Awaited /\ InLine /\ Opened

LEMMA AcquireStore == ASSUME Inv, Inv', Store, NEW c \in Core, Acquire(c) PROVE Store'
<1>1. Past'  BY DEF Store, Past, Acquire
<1>2. Noted'  BY DEF Store, Noted, Acquire
<1>3. Followed'  BY DEF Store, Followed, Heir, Leads, Acquire
<1>4. Awaited'  BY DEF Store, Past, Awaited, Comes, Heir, Linked, Alive, Acquire
<1>5. InLine'  BY DEF Store, InLine, Writes, Acquire
<1>6. Opened'  BY DEF Store, Opened, Acquire
<1> QED  BY <1>1, <1>2, <1>3, <1>4, <1>5, <1>6 DEF Store

LEMMA WriteStore == ASSUME Inv, Inv', Store, NEW c \in Core, Write(c) PROVE Store'
<1>1. Past'  BY DEF Store, Past, Write, Draining, Alive
<1>2. Noted'  BY DEF Inv, Store, Noted, Write, Alive, LockFree, Locked
<1>3. Followed'  BY DEF Store, Followed, Write
<1>4. Awaited'
  BY DEF Inv, Store, Past, Awaited, Comes, Heir, Linked, Alive, Write, Draining,
         LockFree, Noted, Locked
<1>5. InLine'  BY DEF Store, InLine, Writes, Write
<1>6. Opened'  BY DEF Inv, Typed, Store, Past, Opened, Write
<1> QED  BY <1>1, <1>2, <1>3, <1>4, <1>5, <1>6 DEF Store

LEMMA BindStore == ASSUME Inv, Inv', Store, NEW c \in Core, Bind(c) PROVE Store'
<1>1. Past'  BY DEF Store, Past, Bind
<1>2. Noted'  BY DEF Store, Noted, Bind
<1>3. Followed'  BY DEF Inv, Store, Followed, Bind, Locked
<1>4. Awaited'  BY DEF Store, Awaited, Comes, Heir, Linked, Alive, Bind
<1>5. InLine'  BY DEF Store, InLine, Writes, Bind, Awaited, Comes, HasPorts
<1>6. Opened'  BY DEF Store, Opened, Bind
<1> QED  BY <1>1, <1>2, <1>3, <1>4, <1>5, <1>6 DEF Store

LEMMA CallStore == ASSUME Inv, Inv', Store, NEW c \in Core, Call(c) PROVE Store'
<1>1. Past'  BY DEF Inv, Typed, Store, Past, Call
<1>2. Noted'  BY DEF Inv, Typed, Store, Noted, Call, Linking
<1>3. Followed'  BY DEF Inv, Typed, Store, Followed, Call, Linking
<1>4. Awaited'
  BY DEF Inv, Typed, Store, Awaited, Comes, Heir, Linked, Alive, Call, Linking
<1>5. InLine'  BY DEF Inv, Typed, Store, InLine, Writes, Call, Linking
<1>6. Opened'  BY DEF Inv, Typed, Store, Past, Opened, Call, Linking
<1> QED  BY <1>1, <1>2, <1>3, <1>4, <1>5, <1>6 DEF Store

LEMMA ArmStore == ASSUME Inv, Inv', Store, NEW c \in Core, Arm(c) PROVE Store'
<1>1. Past'  BY DEF Store, Past, Arm
<1>2. Noted'  BY DEF Store, Noted, Arm
<1>3. Followed'  BY DEF Store, Followed, Heir, Leads, Arm
<1>4. Awaited'  BY DEF Store, Awaited, Comes, Heir, Linked, Alive, Arm
<1>5. InLine'  BY DEF Store, InLine, Writes, Arm
<1>6. Opened'  BY DEF Store, Opened, Arm
<1> QED  BY <1>1, <1>2, <1>3, <1>4, <1>5, <1>6 DEF Store

LEMMA ArmExpiresStore == ASSUME Inv, Inv', Store, NEW c \in Core, ArmExpires(c) PROVE Store'
<1>1. Past'  BY DEF Store, Past, ArmExpires
<1>2. Noted'  BY DEF Store, Noted, ArmExpires
<1>3. Followed'  BY DEF Store, Followed, Heir, Leads, ArmExpires
<1>4. Awaited'  BY DEF Store, Awaited, Comes, Heir, Linked, Alive, ArmExpires
<1>5. InLine'  BY DEF Store, InLine, Writes, ArmExpires
<1>6. Opened'  BY DEF Store, Opened, ArmExpires
<1> QED  BY <1>1, <1>2, <1>3, <1>4, <1>5, <1>6 DEF Store

LEMMA OfferStore ==
  ASSUME Inv, Inv', Store, NEW a \in Core, NEW b \in Takers(a), Offer(a, b)
  PROVE  Store'
<1>1. Past'  BY DEF Store, Past, Offer, Reply
<1>2. Noted'  BY DEF Store, Noted, Offer, Reply
<1>3. Followed'  BY DEF Store, Followed, Heir, Leads, Offer, Reply
<1>4. Awaited'  BY DEF Store, Awaited, Comes, Heir, Linked, Alive, Offer, Reply
<1>5. InLine'  BY DEF Store, InLine, Writes, Offer, Reply
<1>6. Opened'  BY DEF Store, Opened, Offer, Reply
<1> QED  BY <1>1, <1>2, <1>3, <1>4, <1>5, <1>6 DEF Store

LEMMA RefuseStore ==
  ASSUME Inv, Inv', Store, NEW a \in Core, NEW b \in Takers(a), Refuse(a, b)
  PROVE  Store'
<1>1. Past'  BY DEF Store, Past, Refuse, Reply
<1>2. Noted'  BY DEF Store, Noted, Refuse, Reply
<1>3. Followed'  BY DEF Store, Followed, Heir, Leads, Refuse, Reply
<1>4. Awaited'  BY DEF Store, Awaited, Comes, Heir, Linked, Alive, Refuse, Reply
<1>5. InLine'  BY DEF Store, InLine, Writes, Refuse, Reply
<1>6. Opened'  BY DEF Store, Opened, Refuse, Reply
<1> QED  BY <1>1, <1>2, <1>3, <1>4, <1>5, <1>6 DEF Store

LEMMA GiveStore ==
  ASSUME Inv, Inv', Store, NEW a \in Core, NEW b \in Takers(a), Give(a, b)
  PROVE  Store'
<1>1. Past'  BY DEF Store, Past, Give, Reply
<1>2. Noted'  BY DEF Store, Noted, Give, Reply
<1>3. Followed'  BY DEF Inv, Store, Followed, Give, Reply, Locked
<1>4. Awaited'  BY DEF Store, Awaited, Comes, Heir, Linked, Alive, Give, Takers, Reply
<1>5. InLine'  BY DEF Store, InLine, Writes, Give, Reply
<1>6. Opened'  BY DEF Store, Opened, Give, Reply
<1> QED  BY <1>1, <1>2, <1>3, <1>4, <1>5, <1>6 DEF Store

LEMMA AbandonStore ==
  ASSUME Inv, Inv', Store, NEW a \in Core, NEW b \in Takers(a), NEW n,
         phase[a] \in Giver, Abandon(a, b, n)
  PROVE  Store'
<1>1. Past'  BY DEF Store, Past, Abandon
<1>2. Noted'  BY DEF Store, Noted, Abandon
<1>3. Followed'  BY DEF Store, Followed, Heir, Leads, Abandon
<1>4. Awaited'  BY DEF Store, Awaited, Comes, Heir, Linked, Alive, Abandon
<1>5. InLine'  BY DEF Store, InLine, Writes, Abandon
<1>6. Opened'  BY DEF Store, Opened, Abandon
<1> QED  BY <1>1, <1>2, <1>3, <1>4, <1>5, <1>6 DEF Store

LEMMA TakeFallbackStore ==
  ASSUME Inv, Inv', Store, NEW a \in Core, NEW b \in Takers(a), TakeFallback(a, b)
  PROVE  Store'
<1>1. Past'  BY DEF Store, Past, TakeFallback
<1>2. Noted'  BY DEF Store, Noted, TakeFallback
<1>3. Followed'  BY DEF Store, Followed, Heir, Leads, TakeFallback
<1>4. Awaited'  BY DEF Store, Awaited, Comes, Heir, Linked, Alive, TakeFallback
<1>5. InLine'  BY DEF Store, InLine, Writes, TakeFallback
<1>6. Opened'  BY DEF Store, Opened, TakeFallback
<1> QED  BY <1>1, <1>2, <1>3, <1>4, <1>5, <1>6 DEF Store

LEMMA LearnStore == ASSUME Inv, Inv', Store, NEW c \in Core, Learn(c) PROVE Store'
<1>1. Past'  BY DEF Inv, Store, Past, Learn, Draining, Alive, Linking, Holder
<1>2. Noted'  BY DEF Store, Noted, Learn
<1>3. Followed'  BY DEF Store, Followed, Heir, Leads, Learn
<1>4. Awaited'
  BY DEF Inv, Store, Past, Awaited, Comes, Heir, Linked, Alive, Learn, Draining, Noted,
         Locked, Linking, Followed, Holder
<1>5. InLine'  BY DEF Store, InLine, Writes, Learn
<1>6. Opened'  BY DEF Store, Opened, Learn
<1> QED  BY <1>1, <1>2, <1>3, <1>4, <1>5, <1>6 DEF Store

LEMMA YieldStore == ASSUME Inv, Inv', Store, NEW c \in Core, Yield(c) PROVE Store'
<1>1. Past'  BY DEF Store, Past, Yield
<1>2. Noted'  BY DEF Store, Noted, Yield
<1>3. Followed'  BY DEF Store, Followed, Heir, Leads, Yield
<1>4. Awaited'  BY DEF Store, Awaited, Comes, Heir, Linked, Alive, Yield
<1>5. InLine'  BY DEF Store, InLine, Writes, Yield
<1>6. Opened'  BY DEF Store, Opened, Yield
<1> QED  BY <1>1, <1>2, <1>3, <1>4, <1>5, <1>6 DEF Store

LEMMA StartOverStore == ASSUME Inv, Inv', Store, NEW c \in Core, StartOver(c) PROVE Store'
<1>1. Past'  BY CoreAssumption DEF Inv, Typed, Store, Past, StartOver, NoLink
<1>2. Noted'  BY DEF Store, Noted, StartOver, Ended
<1>3. Followed'  BY DEF Store, Followed, Heir, Leads, StartOver, Ended, NoLink
<1>4. Awaited'  BY DEF Store, Awaited, Comes, Heir, Linked, Alive, StartOver, Ended
<1>5. InLine'  BY DEF Store, InLine, Writes, StartOver
<1>6. Opened'  BY DEF Store, Opened, StartOver, Ended
<1> QED  BY <1>1, <1>2, <1>3, <1>4, <1>5, <1>6 DEF Store

LEMMA AskStore == ASSUME Inv, Inv', Store, NEW c \in Core, Ask(c) PROVE Store'
<1>1. Past'  BY DEF Store, Past, Ask
<1>2. Noted'  BY DEF Store, Noted, Ask
<1>3. Followed'  BY DEF Inv, Store, Followed, Heir, Leads, Ask, Talk
<1>4. Awaited'  BY DEF Store, Awaited, Comes, Heir, Linked, Alive, Ask
<1>5. InLine'  BY DEF Store, InLine, Writes, Ask
<1>6. Opened'  BY DEF Store, Opened, Ask
<1> QED  BY <1>1, <1>2, <1>3, <1>4, <1>5, <1>6 DEF Store

LEMMA TakeStore == ASSUME Inv, Inv', Store, NEW c \in Core, Take(c) PROVE Store'
<1>1. Past'  BY DEF Store, Past, Take
<1>2. Noted'  BY DEF Store, Noted, Take
<1>3. Followed'  BY DEF Store, Followed, Heir, Leads, Take
<1>4. Awaited'  BY DEF Store, Awaited, Comes, Heir, Linked, Alive, Take
<1>5. InLine'
  BY DEF Inv, Store, InLine, Writes, Take, Awaited, Comes, Heir, Leads, OneHeir, LeftToHeir
<1>6. Opened'  BY DEF Store, Opened, Take
<1> QED  BY <1>1, <1>2, <1>3, <1>4, <1>5, <1>6 DEF Store

LEMMA SendCommitStore == ASSUME Inv, Inv', Store, NEW c \in Core, SendCommit(c) PROVE Store'
<1>1. Past'  BY DEF Store, Past, SendCommit
<1>2. Noted'  BY DEF Store, Noted, SendCommit
<1>3. Followed'  BY DEF Store, Followed, Heir, Leads, SendCommit
<1>4. Awaited'  BY DEF Store, Awaited, Comes, Heir, Linked, Alive, SendCommit
<1>5. InLine'  BY DEF Store, InLine, Writes, SendCommit
<1>6. Opened'  BY DEF Store, Opened, SendCommit
<1> QED  BY <1>1, <1>2, <1>3, <1>4, <1>5, <1>6 DEF Store

LEMMA TakeAckStore == ASSUME Inv, Inv', Store, NEW c \in Core, TakeAck(c) PROVE Store'
<1>1. Past'  BY DEF Store, Past, TakeAck, Committed
<1>2. Noted'  BY DEF Store, Noted, TakeAck, Committed
<1>3. Followed'  BY DEF Store, Followed, Heir, Leads, TakeAck, Committed
<1>4. Awaited'  BY DEF Store, Awaited, Comes, Heir, Linked, Alive, TakeAck, Committed
<1>5. InLine'  BY DEF Store, InLine, Writes, TakeAck, Committed
<1>6. Opened'  BY DEF Store, Opened, TakeAck, Committed
<1> QED  BY <1>1, <1>2, <1>3, <1>4, <1>5, <1>6 DEF Store

LEMMA DoubtStore == ASSUME Inv, Inv', Store, NEW c \in Core, Doubt(c) PROVE Store'
<1>1. Past'  BY DEF Store, Past, Doubt
<1>2. Noted'  BY DEF Store, Noted, Doubt
<1>3. Followed'  BY DEF Store, Followed, Heir, Leads, Doubt
<1>4. Awaited'  BY DEF Store, Awaited, Comes, Heir, Linked, Alive, Doubt
<1>5. InLine'  BY DEF Store, InLine, Writes, Doubt
<1>6. Opened'  BY DEF Store, Opened, Doubt
<1> QED  BY <1>1, <1>2, <1>3, <1>4, <1>5, <1>6 DEF Store

LEMMA TrustStore == ASSUME Inv, Inv', Store, NEW c \in Core, Trust(c) PROVE Store'
<1>1. Past'  BY DEF Store, Past, Trust, Committed
<1>2. Noted'  BY DEF Store, Noted, Trust, Committed
<1>3. Followed'  BY DEF Store, Followed, Heir, Leads, Trust, Committed
<1>4. Awaited'  BY DEF Store, Awaited, Comes, Heir, Linked, Alive, Trust, Committed
<1>5. InLine'  BY DEF Store, InLine, Writes, Trust, Committed
<1>6. Opened'  BY DEF Store, Opened, Trust, Committed
<1> QED  BY <1>1, <1>2, <1>3, <1>4, <1>5, <1>6 DEF Store

LEMMA ClaimStore == ASSUME Inv, Inv', Store, NEW c \in Core, Claim(c) PROVE Store'
<1>1. Past'  BY DEF Store, Past, Claim
<1>2. Noted'  BY DEF Inv, Typed, Store, Noted, Claim, Followed, Leads, OneLeads
<1>3. Followed'  BY DEF Store, Followed, Claim
<1>4. Awaited'  BY DEF Store, Awaited, Comes, Heir, Linked, Alive, Claim
<1>5. InLine'  BY DEF Store, InLine, Writes, Claim
<1>6. Opened'  BY DEF Store, Opened, Claim
<1> QED  BY <1>1, <1>2, <1>3, <1>4, <1>5, <1>6 DEF Store

LEMMA MarkStore == ASSUME Inv, Inv', Store, NEW c \in Core, Mark(c) PROVE Store'
<1>1. Past'  BY DEF Inv, Store, Past, Mark, Draining, Holder, Linking
<1>2. Noted'  BY DEF Store, Noted, Mark, Draining, Holder, Alive
<1>3. Followed'  BY DEF Store, Followed, Heir, Leads, Mark
<1>4. Awaited'  BY DEF Store, Awaited, Comes, Heir, Linked, Alive, Mark
<1>5. InLine'  BY DEF Store, InLine, Writes, Mark
<1>6. Opened'  BY DEF Store, Opened, Mark
<1> QED  BY <1>1, <1>2, <1>3, <1>4, <1>5, <1>6 DEF Store

LEMMA OpenStoreStore == ASSUME Inv, Inv', Store, NEW c \in Core, OpenStore(c), Kept PROVE Store'
<1>1. Past'  BY DEF Store, Past, OpenStore, Draining
<1>2. Noted'  BY DEF Store, Noted, OpenStore, Alive, Kept
<1>3. Followed'  BY DEF Store, Followed, Heir, Leads, OpenStore
<1>4. Awaited'  BY DEF Store, Awaited, Comes, Heir, Linked, Alive, OpenStore
<1>5. InLine'  BY DEF Store, InLine, Writes, OpenStore
<1>6. Opened'  BY DEF Store, Past, Opened, OpenStore, Alive
<1> QED  BY <1>1, <1>2, <1>3, <1>4, <1>5, <1>6 DEF Store

(* The giver drains from here on: nobody but its taker comes to write. *)
LEMMA TakeCommitStore ==
  ASSUME Inv, Inv', Store, NEW a \in Core, NEW b \in Takers(a), TakeCommit(a, b)
  PROVE  Store'
<1>1. /\ b \in Core /\ link[b].to = a /\ ~link[b].cut /\ link[b].up = "Commit"
      /\ phase[a] = "Given" /\ lock = a /\ lock' = a /\ UNCHANGED <<Files, Local>>
      /\ phase' = [phase EXCEPT ![a] = "Draining"]
      /\ link' = [link EXCEPT ![b] = With(@, @.cut, "none", "Ack")]
  BY DEF TakeCommit, Reply, Takers, Inv, Locked
<1>2. /\ \A e \in Core : link'[e].to = link[e].to /\ link'[e].cut = link[e].cut
                         /\ link'[e].holder = link[e].holder /\ link[e].holder = link[e].to
      /\ \A e \in Core : e # a => phase'[e] = phase[e]
      /\ phase'[a] = "Draining"
  BY <1>1 DEF Inv, Typed, Link, Linking
<1>3. \A e \in Core : Heir(e)' => Heir(e) /\ link[e].holder = a
  <2> SUFFICES ASSUME NEW e \in Core, Heir(e)' PROVE Heir(e) /\ link[e].holder = a
    OBVIOUS
  <2>1. IF e = b THEN link'[e].down = "Ack" ELSE link'[e] = link[e]
    BY <1>1 DEF Inv, Typed, Link
  <2>2. Heir(e)  BY <1>2, <2>1 DEF Heir
  <2>3. Leads(a) /\ ~Heir(a)  BY <1>1 DEF Leads, Heir
  <2> QED  BY <2>2, <2>3 DEF Inv, LeftToHeir
<1>4. \A e \in Core : Leads(e)' => link[e].holder = a
  <2>1. Passes(a, b)  BY TakeCommitInv
  <2> QED  BY <1>1, <1>2, <2>1 DEF Passes
<1>5. \A e \in Core : ~link[e].cut /\ phase[e] \in {"Calling", "Learning", "Asking"} =>
        link[e].to # a
  <2>1. \A e \in Core : ~link[e].cut /\ link[e].to = a => e = b
    BY <1>1 DEF Inv, Linking
  <2>2. phase[b] \notin {"Calling", "Learning", "Asking"}  BY <1>1 DEF Inv, Talk
  <2> QED  BY <2>1, <2>2
<1>6. Past'  BY <1>1, <1>2 DEF Store, Past, Inv, Typed
<1>7. Noted'  BY <1>1, <1>2 DEF Store, Noted
<1>8. Followed'  BY <1>1, <1>2, <1>3, <1>4, <1>5 DEF Store, Followed
<1>9. Awaited'
  <2>1. \A e \in Core : phase'[e] \in Taking => link'[e].holder \in preds'[e]
    BY <1>1, <1>2 DEF Store, Awaited
  <2>2. ASSUME NEW e \in Core, NEW d \in Core, Comes(e)', phase'[d] = "Draining"
        PROVE  d \in preds'[e]
    <3>1. CASE phase'[e] = "Binding"  BY <1>1, <1>2, <3>1 DEF Inv, Locked
    <3>2. CASE Heir(e)'
      <4>1. Comes(e) /\ link[e].holder = a  BY <1>3, <3>2 DEF Comes
      <4>2. phase'[e] \in Taking  BY <3>2 DEF Heir
      <4> QED  BY <1>1, <1>2, <2>1, <2>2, <4>1, <4>2 DEF Store, Awaited
    <3>3. CASE phase'[e] \in {"Learning", "Asking"} /\ Linked(e)'
      <4>1. phase[e] \in {"Learning", "Asking"} /\ ~link[e].cut  BY <1>2, <3>3 DEF Linked
      <4>2. link[e].to \in Core /\ link[e].to # a  BY <1>5, <4>1 DEF Inv, Linking
      <4>3. phase[link[e].to] \notin Gone  BY <1>2, <3>3, <4>2 DEF Linked, Alive
      <4>4. phase[link[e].to] # "Draining"  BY <4>1 DEF Store, Followed
      <4>5. phase[link[e].to] \in Giver  BY <4>1, <4>3, <4>4 DEF Inv, Linking
      <4> QED  BY <1>1, <4>2, <4>5 DEF Inv, Locked
    <3> QED  BY <2>2, <3>1, <3>2, <3>3 DEF Comes
  <2> QED  BY <2>1, <2>2 DEF Awaited
<1>10. InLine'
  BY <1>1, <1>2 DEF Store, InLine, Writes
<1>11. Opened'  BY <1>1, <1>2 DEF Store, Opened
<1> QED  BY <1>6, <1>7, <1>8, <1>9, <1>10, <1>11 DEF Store

LEMMA GoneStore ==
  ASSUME Inv, Inv', Store, NEW c \in Core, NEW how \in Gone, Go(c, how), Closed(c),
         lock' = lock \/ (lock = c /\ lock' = Nobody), phase[c] # "Marking"
  PROVE  Store'
<1>1. Past'  BY DEF Store, Past, Closed
<1>2. Noted'  BY DEF Inv, Typed, Store, Noted, Closed
<1>3. Followed'  BY CoreAssumption DEF Store, Followed, Heir, Leads, Closed
<1>4. Awaited'  BY DEF Inv, Typed, Store, Awaited, Comes, Heir, Linked, Alive, Closed
<1>5. InLine'  BY DEF Inv, Typed, Store, InLine, Writes, Closed
<1>6. Opened'  BY DEF Store, Opened, Closed
<1> QED  BY <1>1, <1>2, <1>3, <1>4, <1>5, <1>6 DEF Store

LEMMA ExitStore ==
  ASSUME Inv, Inv', Store, NEW c \in Core, NEW how \in Gone, Exit(c, how), phase[c] # "Marking"
  PROVE  Store'
<1>1. Go(c, how) /\ Closed(c) /\ (lock' = lock \/ (lock = c /\ lock' = Nobody))
  BY DEF Exit, DropLock
<1> QED  BY <1>1, GoneStore

LEMMA CrashStore ==
  ASSUME Inv, Inv', Store, "unmarked" \notin Windows, NEW c \in Core, Crash(c)
  PROVE  Store'
<1>1. Go(c, "Crashed") /\ Closed(c) /\ lock' = lock /\ phase[c] # "Marking"  BY DEF Crash
<1> QED  BY <1>1, GoneStore

LEMMA NextStore ==
  ASSUME Inv, Inv', Store, "unmarked" \notin Windows, [Next]_vars,
         [Kept]_vars
  PROVE  Store'
<1>1. CASE UNCHANGED vars
  <2>1. Past' /\ Noted' /\ Followed'
    BY <1>1 DEF vars, Store, Past, Noted, Followed, Heir, Leads
  <2>2. Awaited' /\ InLine' /\ Opened'
    BY <1>1 DEF vars, Store, Awaited, Comes, Heir, Linked, Alive, InLine, Writes, Opened
  <2> QED  BY <2>1, <2>2 DEF Store
<1>2. CASE Next /\ ~UNCHANGED vars
  <2>1. PICK c \in Core :
          \/ Acquire(c) \/ Call(c) \/ AlreadyRunning(c) \/ Starting(c)
          \/ Arm(c) \/ ArmExpires(c) \/ Giving(c) \/ \E b \in Takers(c) : CannotGive(c, b)
          \/ Ask(c) \/ LoseGiver(c) \/ CannotServe(c) \/ TakingOver(c)
          \/ OpenStore(c) \/ Shutdown(c) \/ Crash(c)
    BY <1>2 DEF Next
  <2>2. CASE AlreadyRunning(c) \/ PortTaken(c) \/ RetireEnds(c) \/ DrainEnds(c)
               \/ LoseGiver(c) \/ CannotServe(c) \/ TurnBack(c) \/ Distrust(c) \/ Shutdown(c)
    BY <2>2, ExitStore DEF AlreadyRunning, PortTaken, RetireEnds, DrainEnds, LoseGiver,
                           CannotServe, TurnBack, Ended, Distrust, Shutdown
  <2>3. CASE Acquire(c) \/ Write(c) \/ Bind(c) \/ Call(c) \/ Arm(c) \/ ArmExpires(c)
               \/ Crash(c) \/ OpenStore(c)
    BY <1>2, <2>3, AcquireStore, WriteStore, BindStore, CallStore, ArmStore, ArmExpiresStore,
       CrashStore, OpenStoreStore
  <2>4. CASE Learn(c) \/ Yield(c) \/ StartOver(c) \/ Ask(c) \/ Take(c) \/ SendCommit(c)
               \/ TakeAck(c) \/ Doubt(c) \/ Trust(c) \/ Claim(c) \/ Mark(c)
    BY <2>4, LearnStore, YieldStore, StartOverStore, AskStore, TakeStore, SendCommitStore,
       TakeAckStore, DoubtStore, TrustStore, ClaimStore, MarkStore
  <2>5. CASE \E b \in Takers(c) :
               \/ Offer(c, b) \/ Refuse(c, b) \/ Give(c, b) \/ TakeCommit(c, b)
               \/ TakeFallback(c, b)
    BY <2>5, OfferStore, RefuseStore, GiveStore, TakeCommitStore, TakeFallbackStore
  <2>6. CASE \E b \in Takers(c) : CannotGive(c, b) \/ GiveUp(c, b) \/ LoseTaker(c, b)
    BY <2>6, AbandonStore DEF CannotGive, GiveUp, LoseTaker
  <2> QED  BY <2>1, <2>2, <2>3, <2>4, <2>5, <2>6 DEF Starting, TakingOver, Giving
<1> QED  BY <1>1, <1>2

(* For any number of cores and crashes, one core at a time writes to the   *)
(* store, as long as the mark of a core that drains is not erased by       *)
(* itself: the one thing in the code that breaks this (the second look at  *)
(* the marks in prune_draining).                                           *)
THEOREM StoreIsExclusive ==
  ASSUME Timely, "unmarked" \notin Windows
  PROVE  Spec /\ MarksStay => []OneWriter
<1>1. Store => OneWriter
  <2> SUFFICES ASSUME Store PROVE OneWriter  OBVIOUS
  <2> DEFINE W == {c \in open : phase[c] \in Serving \cup {"Draining"}}
  <2>1. ASSUME NEW c \in W, NEW d \in W, c # d PROVE FALSE
    <3>1. c \in Core /\ d \in Core /\ Writes(c) /\ Writes(d)  BY DEF Store, Past, Writes
    <3>2. c \in preds[d] \/ d \in preds[c]  BY <2>1, <3>1 DEF Store, InLine
    <3> QED  BY <3>1, <3>2 DEF Store, Opened, Writes
  <2>2. CASE W = {}  BY <2>2, FS_EmptySet DEF OneWriter
  <2>3. CASE W # {}
    <3>1. PICK c \in W : W = {c}  BY <2>1, <2>3
    <3>2. Cardinality(W) = 1  BY <3>1, FS_Singleton
    <3> QED  BY <3>2 DEF OneWriter
  <2> QED  BY <2>2, <2>3
<1>2. Init => Inv /\ Store
  <2> SUFFICES ASSUME Init PROVE Store  BY InitInv
  <2> QED
    BY CoreAssumption DEF Init, NoLink, Store, Past, Noted, Followed, Awaited, Comes, Heir,
                          InLine, Writes, Opened
<1>3. Inv /\ [Next]_vars => Inv'  BY NextInv
<1>4. Inv /\ Inv' /\ Store /\ [Next]_vars /\ [Kept]_vars => Store'
  BY NextStore
<1> QED  BY <1>1, <1>2, <1>3, <1>4, PTL DEF Spec, MarksStay

(***************************************************************************)
(* The lock file.                                                          *)
(***************************************************************************)

(* A core that starts still has the lock when it looks at the ports. *)
LockAtBind == \A c \in Core : phase[c] = "Binding" => lock = c

(* The main core has the lock. *)
Owned == \A c \in Core : phase[c] \in Main \cup {"Marking"} => lock = c

Dropped == lock # Nobody /\ lock' = Nobody

(* Nobody comes to own the lock, and it does not change. *)
LEMMA LockUntouched ==
  ASSUME Owned, lock' = lock,
         \A x \in Core : phase'[x] \in Main \cup {"Marking"} =>
                           phase[x] \in Main \cup {"Marking"}
  PROVE  Owned' /\ ~Dropped
BY DEF Owned, Dropped

LEMMA ExitLock ==
  ASSUME Inv, Owned, NEW c \in Core, NEW how \in Gone, Exit(c, how)
  PROVE  Owned' /\ (Dropped => \A x \in Core : phase'[x] \notin Main)
<1>1. \A x \in Core : phase'[x] = IF x = c THEN how ELSE phase[x]
  BY DEF Exit, Inv, Typed
<1>2. lock' = lock \/ (lock = c /\ lock' = Nobody)  BY DEF Exit, DropLock
<1> QED  BY <1>1, <1>2 DEF Owned, Dropped

LEMMA NextLock ==
  ASSUME Inv, Inv', Timely, Owned, LockAtBind, Next
  PROVE  Owned' /\ (Dropped => \A x \in Core : phase'[x] \notin Main)
<1>0. phase \in [Core -> Phases]  BY DEF Inv, Typed
<1>1. ASSUME NEW c \in Core,
             AlreadyRunning(c) \/ PortTaken(c) \/ RetireEnds(c) \/ DrainEnds(c)
               \/ LoseGiver(c) \/ CannotServe(c) \/ TurnBack(c) \/ Distrust(c) \/ Shutdown(c)
      PROVE  Owned' /\ (Dropped => \A x \in Core : phase'[x] \notin Main)
  BY <1>1, ExitLock DEF AlreadyRunning, PortTaken, RetireEnds, DrainEnds, LoseGiver,
                        CannotServe, TurnBack, Distrust, Shutdown
<1>2. ASSUME NEW c \in Core,
             Acquire(c) \/ Call(c) \/ Arm(c) \/ ArmExpires(c) \/ Crash(c) \/ OpenStore(c)
      PROVE  Owned' /\ ~Dropped
  BY <1>0, <1>2, LockUntouched DEF Acquire, Call, Arm, ArmExpires, Crash, OpenStore, Inv,
                                   Linking
<1>3. ASSUME NEW c \in Core,
             Learn(c) \/ Yield(c) \/ StartOver(c) \/ Ask(c) \/ Take(c) \/ SendCommit(c)
               \/ TakeAck(c) \/ Doubt(c) \/ Trust(c)
      PROVE  Owned' /\ ~Dropped
  BY <1>0, <1>3, LockUntouched DEF Learn, Yield, StartOver, Ask, Take, SendCommit, TakeAck,
                                   Doubt, Trust, Committed
<1>4. ASSUME NEW c \in Core, NEW b \in Takers(c),
             \/ Offer(c, b) \/ Refuse(c, b) \/ Give(c, b) \/ TakeCommit(c, b)
             \/ CannotGive(c, b) \/ GiveUp(c, b) \/ LoseTaker(c, b) \/ TakeFallback(c, b)
      PROVE  Owned' /\ ~Dropped
  BY <1>0, <1>4, LockUntouched DEF Offer, Refuse, Give, TakeCommit, CannotGive, GiveUp,
                                   LoseTaker, TakeFallback, Reply, Abandon
<1>5. ASSUME NEW c \in Core, Write(c) PROVE Owned' /\ ~Dropped
  BY <1>0, <1>5, CoreAssumption DEF Write, Owned, Dropped, Inv, Locked, LockFree, Alive
<1>6. ASSUME NEW c \in Core, Bind(c) PROVE Owned' /\ ~Dropped
  BY <1>0, <1>6 DEF Bind, Owned, Dropped, LockAtBind
<1>7. ASSUME NEW c \in Core, Claim(c) PROVE Owned' /\ ~Dropped
  BY <1>0, <1>7, CoreAssumption DEF Claim, Owned, Dropped, Inv, OneLeads, Leads
<1>8. ASSUME NEW c \in Core, Mark(c) PROVE Owned' /\ ~Dropped
  BY <1>0, <1>8 DEF Mark, Owned, Dropped
<1>9. PICK c \in Core :
        \/ Acquire(c) \/ Call(c) \/ AlreadyRunning(c) \/ Starting(c)
        \/ Arm(c) \/ ArmExpires(c) \/ Giving(c) \/ \E b \in Takers(c) : CannotGive(c, b)
        \/ Ask(c) \/ LoseGiver(c) \/ CannotServe(c) \/ TakingOver(c)
        \/ OpenStore(c) \/ Shutdown(c) \/ Crash(c)
  BY DEF Next
<1> QED
  BY <1>1, <1>2, <1>3, <1>4, <1>5, <1>6, <1>7, <1>8, <1>9 DEF Starting, TakingOver, Giving

(* For any number of cores and crashes, nobody takes the lock file away    *)
(* from the main core, as long as a core that starts is not so slow that   *)
(* somebody else has written the lock before it looks at the ports.        *)
THEOREM LockIsKept == ASSUME Timely PROVE Spec /\ []LockAtBind => LockStays
<1>1. Init => Inv /\ Owned  BY InitInv DEF Init, Owned
<1>2. Inv /\ [Next]_vars => Inv'  BY NextInv
<1>3. Inv /\ Inv' /\ Owned /\ LockAtBind /\ [Next]_vars =>
        /\ Owned'
        /\ [Dropped => \A c \in Core : phase'[c] \notin Main]_vars
  <2>1. UNCHANGED vars /\ Owned => Owned'  BY DEF vars, Owned
  <2> QED  BY <2>1, NextLock
<1>4. Spec /\ []LockAtBind => [][Dropped => \A c \in Core : phase'[c] \notin Main]_vars
  BY <1>1, <1>2, <1>3, PTL DEF Spec
<1> QED  BY <1>4 DEF LockStays, Dropped
=============================================================================
