------------------------------ MODULE Versions ------------------------------
(***************************************************************************)
(* What lies at a sync location and how it is put together: the names and  *)
(* the lineage of versions, the three-way merge, the merge of several      *)
(* heads, the conflicts that are still open, and which old versions go     *)
(* (tw-sync: layout.rs, merge.rs, record.rs and the pure part of           *)
(* engine.rs).                                                             *)
(*                                                                         *)
(* A configuration is a function from the names of its objects to values.  *)
(* An object has one merge unit; an object that is not there is Absent.    *)
(***************************************************************************)
EXTENDS Naturals, FiniteSets, SequencesExt

CONSTANTS
  Device,  \* the devices, numbers: names of versions are sorted by them
  Item,    \* the objects of a configuration
  Absent   \* in place of a value: the object does not exist

ASSUME DeviceAssumption == Device \subseteq Nat

-----------------------------------------------------------------------------
(* Names and lineage *)

(* A version is named by its number and the device that wrote it. *)
Before(a, b) == a.seq < b.seq \/ (a.seq = b.seq /\ a.dev < b.dev)
Latest(names) == CHOOSE n \in names : \A m \in names : m = n \/ Before(m, n)
InOrder(versions) == SetToSortSeq(versions, LAMBDA v, w : Before(v.name, w.name))

NamesOf(versions) == {v.name : v \in versions}
Lineage(v) == {v.name} \cup v.parents \cup v.history

(* The start and every ancestor that the lineages of index lead to. *)
Ancestors(index, start) ==
  LET known[k \in 0 .. Cardinality(index)] ==
        IF k = 0 THEN {start}
        ELSE known[k - 1] \cup UNION {v.parents \cup v.history :
                                        v \in {w \in index : w.name \in known[k - 1]}}
  IN  known[Cardinality(index)]

(* Of versions of one name, what base says of its lineage goes before. *)
IndexOf(versions, base) == {v \in versions : v.name \notin NamesOf(base)} \cup base

Heads(versions) ==
  {v \in versions : \A w \in versions : v.name \notin w.parents}

HistoryOf(parents) ==
  (UNION {p.history \cup p.parents : p \in parents}) \ NamesOf(parents)

(* The number of a new version: above all those that take part. *)
NextSeq(names) == Latest(names).seq + 1

-----------------------------------------------------------------------------
(* Conflicts *)

Side(d, v) == [dev |-> d, val |-> v]
Values(c) == {c.shared.val, c.other.val}
Whole(c) == c.shared.val = Absent \/ c.other.val = Absent
Ids(cs) == {cs[k].id : k \in DOMAIN cs}

(* What is left alone on both sides while conflicts are open: a whole      *)
(* object, or a unit that both sides have.                                 *)
Held(cs, whole, l, r) ==
  {i \in Item : \/ i \in whole
                \/ \E c \in ToSet(cs) :
                     c.item = i /\ (Whole(c) \/ (l[i] # Absent /\ r[i] # Absent))}

(* Which side of a conflict a device means by its own, which by the other. *)
OwnIsOther(c, d, now) ==
  \/ c.other.dev = d
  \/ c.other.dev # d /\ c.shared.dev # d /\ now = c.other.val
Theirs(c, d, now) == IF OwnIsOther(c, d, now) THEN c.shared ELSE c.other

-----------------------------------------------------------------------------
(* The three-way merge of local l and remote r over base b *)

Nothing == [i \in Item |-> Absent]

(* A slip: where both sides changed, the remote one wins.                  *)
SlipMerge(b, l, r, held) ==
  LET theirs == {i \in Item \ held : r[i] # b[i]}
      ours   == {i \in Item \ held : r[i] = b[i]}
  IN  [local  |-> [i \in Item |-> IF i \in theirs THEN r[i] ELSE l[i]],
       shared |-> [i \in Item |-> IF i \in ours THEN l[i] ELSE r[i]],
       clash  |-> {}]

Merge(b, l, r, held) ==
  LET ours    == {i \in Item \ held : r[i] = b[i]}
      theirs  == {i \in Item \ held : l[i] = b[i]} \ ours
      clash   == {i \in Item \ held : l[i] # r[i]} \ (ours \cup theirs)
  IN  [local  |-> [i \in Item |-> IF i \in theirs THEN r[i] ELSE l[i]],
       shared |-> [i \in Item |-> IF i \in ours THEN l[i] ELSE r[i]],
       clash  |-> clash]

(* The conflicts a merge found, in the order of their objects; tag tells   *)
(* apart the merges of one round.                                          *)
Found(clash, v, tag, shared, other, l, r) ==
  LET one(i) == [id     |-> <<v, tag, i>>,
                 item   |-> i,
                 shared |-> Side(shared, r[i]),
                 other  |-> Side(other, l[i]),
                 inuse  |-> FALSE]
      order == SetToSeq(clash)
  IN  [k \in DOMAIN order |-> one(order[k])]

(* The conflicting part takes the value recorded for a side. *)
SetShared(snap, cs) ==
  FoldLeft(LAMBDA s, c : [s EXCEPT ![c.item] = c.shared.val], snap, cs)

-----------------------------------------------------------------------------
(* Several heads become one *)

SnapOf(base) == IF base = {} THEN Nothing ELSE (CHOOSE v \in base : TRUE).snap
ConflictsOf(base) == IF base = {} THEN <<>> ELSE (CHOOSE v \in base : TRUE).conflicts

(* The latest common ancestor of the heads as and the head h, if it still  *)
(* is at the location, is the base, or is one of the bases kept here.      *)
CommonAncestor(as, h, ok, base, bases) ==
  LET index  == IndexOf(ok, base)
      common == (UNION {Ancestors(index, a.name) : a \in as}) \cap Ancestors(index, h.name)
      named(vs) == {v \in vs : v.name = Latest(common)}
  IN  IF common = {} THEN {}
      ELSE IF named(ok) # {} THEN named(ok)
      ELSE IF named(base) # {} THEN named(base)
      ELSE named(bases)

(* The records of both sides, without those that the common ancestor has   *)
(* and one side has dealt with.                                            *)
StillOpen(mine, theirs, anc) ==
  LET dealt(c) == c.id \in Ids(anc) /\ ~(c.id \in Ids(mine) /\ c.id \in Ids(theirs))
  IN  SelectSeq(mine, LAMBDA c : ~dealt(c))
        \o SelectSeq(theirs, LAMBDA c : ~dealt(c) /\ c.id \notin Ids(mine))

(* The merge of the head h into what the heads before it have become: out  *)
(* is the outcome over the common ancestor, open the records that stay.    *)
Joined(acc, h, v, lead, open, out) ==
  LET all == open \o Found(out.clash, v, {h.name}, h.name.dev, acc.dev, acc.snap, h.snap)
  IN  [snap      |-> SetShared(out.shared, all),
       conflicts |-> all,
       heads     |-> acc.heads \cup {h},
       dev       |-> IF lead \in NamesOf(acc.heads) THEN acc.dev ELSE h.name.dev]

JoinedOver(acc, h, v, lead, anc) ==
  LET open == StillOpen(acc.conflicts, h.conflicts, ConflictsOf(anc))
  IN  Joined(acc, h, v, lead, open,
             Merge(SnapOf(anc), acc.snap, h.snap, Held(open, {}, acc.snap, h.snap)))

FoldHead(acc, h, ok, base, bases, v, lead) ==
  JoinedOver(acc, h, v, lead, CommonAncestor(acc.heads, h, ok, base, bases))

(* v names the version that this round would publish: new conflicts get    *)
(* identifiers that no other round uses.  lead is the newest head by the   *)
(* clocks of the devices.                                                  *)
Folded(heads, ok, base, bases, v, lead) ==
  LET first == Head(InOrder(heads))
  IN  FoldLeft(LAMBDA acc, h : FoldHead(acc, h, ok, base, bases, v, lead),
               [snap      |-> first.snap,
                conflicts |-> first.conflicts,
                heads     |-> {first},
                dev       |-> first.name.dev],
               Tail(InOrder(heads)))

-----------------------------------------------------------------------------
(* Which versions go once a new one is there *)

(* A slip: only the newest versions and their parents are kept.            *)
SlipToDelete(names, ok) ==
  LET newest == {n \in names : n.seq = Latest(names).seq}
  IN  names \ (newest \cup UNION {v.parents : v \in {w \in ok : w.name \in newest}})

(* names are those listed, ok the versions among them that could be read.  *)
ToDelete(names, ok) ==
  LET heads   == names \ UNION {v.parents : v \in ok}
      read(n) == {v \in ok : v.name = n}
      line(n) == {n} \cup UNION {Lineage(v) : v \in read(n)}
      common  == {n \in UNION {line(h) : h \in heads} : \A h \in heads : n \in line(h)}
      between == IF Cardinality(heads) > 1 /\ common # {}
                 THEN {n \in UNION {line(h) : h \in heads} : n.seq >= Latest(common).seq}
                 ELSE {}
      orphans == {n \in names : /\ n.seq = Latest(names).seq
                                /\ \A v \in read(n) : v.parents = {}}
      lower   == {n \in names : n.seq < Latest(names).seq}
      layer   == IF orphans = {} \/ lower = {} THEN {}
                 ELSE {n \in lower : n.seq = Latest(lower).seq}
      keep    == heads \cup (UNION {v.parents : v \in {w \in ok : w.name \in heads}})
                   \cup between \cup layer
  IN  names \ keep

=============================================================================
