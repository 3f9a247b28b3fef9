--------------------------- MODULE StateDBProofs ---------------------------
(***************************************************************************)
(* Proofs about StateDB for every set of accounts and slots, any journal   *)
(* and any nesting of revisions and precompile calls.                      *)
(***************************************************************************)
EXTENDS StateDB, SequenceTheorems, Sums

(***************************************************************************)
(* Types.                                                                  *)
(***************************************************************************)
Entry ==
         [type: {"createObject", "createContract", "accessAddress"}, account: Addr]
    \cup [type: {"selfDestruct"}, account: Addr, prev: BOOLEAN, prevBalance: Nat]
    \cup [type: {"balance", "nonce"}, account: Addr, prev: Nat]
    \cup [type: {"code"}, account: Addr, prev: Code \cup {NoCode}]
    \cup [type: {"storage", "transient"}, account: Addr, key: Slot, prev: Value]
    \cup [type: {"accessSlot"}, account: Addr, key: Slot]
    \cup [type: {"refund"}, prev: Nat]
    \cup [type: {"log"}]
    \cup [type: {"precompile"}, snapshot: Nat]

AccessList == [addresses: UNION {[D -> Nat] : D \in SUBSET Addr}, slots: Seq(SUBSET Slot)]

Revision == [id: Nat, journalIndex: Nat]

Db == [objs: [Addr -> Object \cup {Missing}],
       journal: Seq(Entry), dirties: [Addr -> Int],
       validRevisions: Seq(Revision), nextRevisionID: Nat,
       refund: Nat, logs: Int,
       transient: [Addr -> [Slot -> Value]],
       accessList: AccessList,
       cache: Seq(Store),
       precompileCallsCounter: 0 .. CounterSize - 1,
       panic: BOOLEAN]

(***************************************************************************)
(* The inductive invariant.                                                *)
(***************************************************************************)
\* The slots of an address are where its index says, and are not none.
AccessSound(al) ==
    /\ \A a \in DOMAIN al.addresses : al.addresses[a] \in 0 .. Len(al.slots)
    /\ \A i \in 1 .. Len(al.slots) : al.slots[i] # {}

\* The object of a holds slot k.
Loaded(s, a, k) == s.objs[a] # Missing /\ k \in DOMAIN s.objs[a].dirty

\* What the objects hold and what the cache context holds agree: an account that is not
\* dirty is the same in both, and a slot no object holds is in the cache as in the store.
Synced(s) ==
    /\ \A a \in Addr :
          /\ s.dirties[a] \in Nat
          /\ s.dirties[a] > 0 => s.objs[a] # Missing
          /\ Exist(s, a) /\ getStateObject(s, a).destructed => s.dirties[a] > 0
    /\ \A a \in Addr \ Blocked :
          /\ s.dirties[a] = 0 =>
                /\ Current(s).acct[a] = IF Exist(s, a) THEN getStateObject(s, a).account ELSE Missing
                /\ \A k \in Slot : Current(s).storage[a][k] = GetState(s, a, k)
          /\ \A k \in Slot : ~Loaded(s, a, k) => Current(s).storage[a][k] = store.storage[a][k]

Good(s) == ~s.panic /\ s.logs \in Nat /\ AccessSound(s.accessList) /\ Synced(s)

\* The entries among the first n that make a dirty.
DirtyEntries(journal, n, a) == {i \in 1 .. n : Dirtied(journal[i]) = a}

CountsAt(s, journal, n) ==
    \A a \in Addr : s.dirties[a] = Cardinality(DirtyEntries(journal, n, a))

\* The revisions of s are ordered by id and by their place in the journal; versions has
\* the copy of each.
RevisionsOrdered(s, versions) ==
    /\ Len(versions) = Len(s.validRevisions)
    /\ \A r \in 1 .. Len(s.validRevisions) :
          /\ s.validRevisions[r].id < s.nextRevisionID
          /\ s.validRevisions[r].journalIndex <= Len(s.journal)
          /\ \A q \in 1 .. r - 1 :
                /\ s.validRevisions[q].id < s.validRevisions[r].id
                /\ s.validRevisions[q].journalIndex <= s.validRevisions[r].journalIndex

(***************************************************************************)
(* State s covers t: the EVM sees the same in both, and s has loaded at    *)
(* least the objects and slots that t has.  Undoing an entry leaves a      *)
(* state that covers the one before it, not that state itself: objects     *)
(* and slots stay loaded, the cache context stays made, calls counted.     *)
(***************************************************************************)
SlotValue(a, o, k) == IF k \in DOMAIN o.dirty THEN o.dirty[k] ELSE store.storage[a][k]

ObjectCovers(a, o, p) ==
    /\ o.account = p.account /\ o.destructed = p.destructed /\ o.newContract = p.newContract
    /\ DOMAIN p.dirty \subseteq DOMAIN o.dirty
    /\ \A k \in Slot : SlotValue(a, o, k) = SlotValue(a, p, k)

AccountCovers(s, t, a) ==
    /\ t.objs[a] # Missing => s.objs[a] # Missing
    /\ Exist(s, a) <=> Exist(t, a)
    /\ Exist(t, a) => ObjectCovers(a, getStateObject(s, a), getStateObject(t, a))

RestSame(s, t) ==
    /\ s.dirties = t.dirties /\ s.refund = t.refund /\ s.logs = t.logs
    /\ s.transient = t.transient /\ s.accessList = t.accessList /\ s.panic = t.panic
    /\ s.cache = t.cache \/ (s.cache = <<store>> /\ t.cache = << >>)

Covers(s, t) == RestSame(s, t) /\ \A a \in Addr : AccountCovers(s, t, a)

\* The states the journal leads back to: c[i] is the one with i entries.
History(s, c) ==
    /\ \A i \in 0 .. Len(s.journal) : c[i] \in Db
    /\ Covers(s, c[Len(s.journal)])
    /\ \A i \in 1 .. Len(s.journal) : Covers(Undo(s.journal[i], c[i]), c[i - 1])

\* The state at revision r was good and is the copy the EVM would go back to.
Revertible(s, versions, c, r) ==
    LET n == s.validRevisions[r].journalIndex
    IN  Good(c[n]) /\ View(c[n]) = versions[r] /\ CountsAt(c[n], s.journal, n)

\* What holds at all times: the journal, its counts and the revisions are in step.
Sound(s, versions) ==
    /\ s \in Db /\ ~s.panic /\ s.logs \in Nat
    /\ \E S : versions \in Seq(S)
    /\ CountsAt(s, s.journal, Len(s.journal))
    /\ \A a \in Addr : s.dirties[a] > 0 => s.objs[a] # Missing
    /\ RevisionsOrdered(s, versions)

\* While the transaction runs, nothing has been written to the store, what the objects and
\* the cache hold agree, and the journal leads back to every revision.
Running(s, versions) ==
    /\ store.storage = [a \in Addr |-> NoStorage]
    /\ Good(s)
    /\ \E c : /\ History(s, c)
             /\ \A r \in 1 .. Len(s.validRevisions) : Revertible(s, versions, c, r)

Inv ==
    /\ kind \in Kinds /\ store \in Store /\ phase \in {"running", "committed", "failed"}
    /\ Sound(db, copies)
    /\ phase = "running" => Running(db, copies)
    /\ CommitRefusals

(***************************************************************************)
(* Objects.                                                                *)
(***************************************************************************)
\* A new object has its account and holds no slot.
LEMMA NewObjectType ==
    ASSUME NEW account \in Account
    PROVE  newObject(account) \in Object /\ DOMAIN newObject(account).dirty = {}
<1>1. << >> \in [{} -> Value] /\ DOMAIN << >> = {}
  OBVIOUS
<1>2. << >> \in UNION {[D -> Value] : D \in SUBSET Slot}
  BY <1>1
<1>3. QED
  BY <1>1, <1>2 DEF newObject, Object

\* What an object is made of.
LEMMA ObjectFields ==
    ASSUME NEW o \in Object
    PROVE  /\ o.account \in Account /\ o.destructed \in BOOLEAN /\ o.newContract \in BOOLEAN
           /\ DOMAIN o.dirty \subseteq Slot /\ o.dirty \in [DOMAIN o.dirty -> Value]
           /\ \A k \in DOMAIN o.dirty : o.dirty[k] \in Value
           /\ o # Missing
<1>1. o.account \in Account /\ o.destructed \in BOOLEAN /\ o.newContract \in BOOLEAN
  BY DEF Object
<1>2. PICK D \in SUBSET Slot : o.dirty \in [D -> Value]
  BY DEF Object
<1>3. QED
  BY <1>1, <1>2, MissingAssumption

\* Where an object comes from.
LEMMA GetObject ==
    ASSUME store \in Store, NEW s \in Db, NEW a \in Addr
    PROVE  /\ getStateObject(s, a) # Missing => getStateObject(s, a) \in Object
           /\ s.objs[a] # Missing => getStateObject(s, a) = s.objs[a]
           /\ s.objs[a] = Missing /\ store.acct[a] # Missing =>
                 getStateObject(s, a) = newObject(store.acct[a])
           /\ s.objs[a] = Missing /\ store.acct[a] = Missing => getStateObject(s, a) = Missing
           /\ Exist(s, a) <=> getStateObject(s, a) # Missing
           /\ s.objs[a] \in Object \cup {Missing}
<1>1. s.objs[a] \in Object \cup {Missing}
  BY DEF Db
<1>2. store.acct[a] # Missing => newObject(store.acct[a]) \in Object
  <2>1. store.acct[a] \in Account \cup {Missing}
    BY DEF Store
  <2>2. QED
    BY <2>1, NewObjectType
<1>3. QED
  BY <1>1, <1>2 DEF getStateObject, Exist

\* A slot as GetState reads it.
LEMMA ReadSlot ==
    ASSUME store \in Store, NEW s \in Db, NEW a \in Addr, NEW k \in Slot
    PROVE  /\ GetState(s, a, k) = IF Exist(s, a) THEN SlotValue(a, getStateObject(s, a), k) ELSE Zero
           /\ GetState(s, a, k) \in Value
<1>1. GetState(s, a, k) = IF Exist(s, a) THEN SlotValue(a, getStateObject(s, a), k) ELSE Zero
  BY DEF GetState, SlotValue, Exist
<1>2. store.storage[a][k] \in Value /\ Zero \in Value
  BY ParameterAssumption DEF Store
<1>3. getStateObject(s, a) # Missing => getStateObject(s, a) \in Object
  BY GetObject
<1>4. Exist(s, a) => SlotValue(a, getStateObject(s, a), k) \in Value
  BY <1>2, <1>3, ObjectFields DEF SlotValue, Exist
<1>5. QED
  BY <1>1, <1>2, <1>4

\* Writing one object leaves everything else alone.
LEMMA SetObject ==
    ASSUME store \in Store, NEW s \in Db, NEW a \in Addr, NEW o \in Object
    PROVE  /\ setStateObject(s, a, o) \in Db
           /\ setStateObject(s, a, o).objs = [s.objs EXCEPT ![a] = o]
           /\ getStateObject(setStateObject(s, a, o), a) = o
           /\ \A b \in Addr : b # a =>
                 /\ setStateObject(s, a, o).objs[b] = s.objs[b]
                 /\ getStateObject(setStateObject(s, a, o), b) = getStateObject(s, b)
           /\ RestSame(setStateObject(s, a, o), s)
           /\ setStateObject(s, a, o).journal = s.journal
           /\ setStateObject(s, a, o).validRevisions = s.validRevisions
           /\ setStateObject(s, a, o).nextRevisionID = s.nextRevisionID
           /\ setStateObject(s, a, o).precompileCallsCounter = s.precompileCallsCounter
           /\ setStateObject(s, a, o).cache = s.cache
<1>1. PICK t : t = setStateObject(s, a, o)
  OBVIOUS
<1>2. /\ t \in Db /\ t.objs = [s.objs EXCEPT ![a] = o]
      /\ RestSame(t, s) /\ t.journal = s.journal /\ t.validRevisions = s.validRevisions
      /\ t.nextRevisionID = s.nextRevisionID
      /\ t.precompileCallsCounter = s.precompileCallsCounter
      /\ t.cache = s.cache
  BY <1>1 DEF setStateObject, Db, RestSame
<1>3. t.objs[a] = o /\ \A b \in Addr : b # a => t.objs[b] = s.objs[b]
  BY <1>2 DEF Db
<1>4. o # Missing
  BY ObjectFields
<1>5. QED
  BY <1>1, <1>2, <1>3, <1>4 DEF getStateObject

(***************************************************************************)
(* Entries of the journal, and what undoing one does.                      *)
(***************************************************************************)
ObjectTypes == {"createContract", "selfDestruct", "balance", "nonce", "code", "storage"}
DirtyTypes == {"createObject", "selfDestruct", "balance", "nonce", "storage", "code"}

\* The object after an entry that changed it is undone.
Restored(e, o) ==
    CASE e.type = "createContract" -> [o EXCEPT !.newContract = FALSE]
      [] e.type = "selfDestruct" -> [o EXCEPT !.destructed = e.prev, !.account.bal = e.prevBalance]
      [] e.type = "balance" -> [o EXCEPT !.account.bal = e.prev]
      [] e.type = "nonce" -> [o EXCEPT !.account.nonce = e.prev]
      [] e.type = "code" -> [o EXCEPT !.account.code = e.prev]
      [] e.type = "storage" ->
            [o EXCEPT !.dirty = [k \in DOMAIN @ \cup {e.key} |-> IF k = e.key THEN e.prev ELSE @[k]]]

\* An entry has the fields of its type.
LEMMA EntryFields ==
    ASSUME NEW e \in Entry
    PROVE  /\ e.type \in ObjectTypes \cup {"createObject", "accessAddress", "accessSlot", "transient",
                                           "refund", "log", "precompile"}
           /\ e.type \notin {"refund", "log", "precompile"} => e.account \in Addr
           /\ e.type \in {"storage", "transient"} => e.key \in Slot /\ e.prev \in Value
           /\ e.type = "accessSlot" => e.key \in Slot
           /\ e.type = "selfDestruct" => e.prev \in BOOLEAN /\ e.prevBalance \in Nat
           /\ e.type \in {"balance", "nonce", "refund"} => e.prev \in Nat
           /\ e.type = "code" => e.prev \in Code \cup {NoCode}
           /\ e.type = "precompile" => e.snapshot \in Nat
BY DEF Entry, ObjectTypes

\* Which entries make an account dirty.
LEMMA DirtiedBy ==
    ASSUME NEW e \in Entry
    PROVE  /\ e.type \in DirtyTypes => Dirtied(e) = e.account /\ Dirtied(e) # Missing /\ e.account \in Addr
           /\ e.type \notin DirtyTypes => Dirtied(e) = Missing
BY EntryFields, MissingAssumption DEF Dirtied, DirtyTypes, ObjectTypes

\* The restored object, field by field.
LEMMA RestoredFields ==
    ASSUME NEW e \in Entry, e.type \in ObjectTypes, NEW o \in Object
    PROVE  /\ Restored(e, o) \in Object
           /\ e.type = "createContract" =>
                 Restored(e, o).account = o.account /\ Restored(e, o).dirty = o.dirty
                 /\ Restored(e, o).destructed = o.destructed /\ Restored(e, o).newContract = FALSE
           /\ e.type = "selfDestruct" =>
                 Restored(e, o).account = [o.account EXCEPT !.bal = e.prevBalance] /\ Restored(e, o).dirty = o.dirty
                 /\ Restored(e, o).destructed = e.prev /\ Restored(e, o).newContract = o.newContract
           /\ e.type \in {"balance", "nonce", "code"} =>
                 /\ Restored(e, o).account = IF e.type = "balance" THEN [o.account EXCEPT !.bal = e.prev]
                                             ELSE IF e.type = "nonce" THEN [o.account EXCEPT !.nonce = e.prev]
                                             ELSE [o.account EXCEPT !.code = e.prev]
                 /\ Restored(e, o).dirty = o.dirty
                 /\ Restored(e, o).destructed = o.destructed /\ Restored(e, o).newContract = o.newContract
           /\ e.type = "storage" =>
                 /\ Restored(e, o).account = o.account
                 /\ DOMAIN Restored(e, o).dirty = DOMAIN o.dirty \cup {e.key}
                 /\ \A k \in DOMAIN o.dirty \cup {e.key} :
                       Restored(e, o).dirty[k] = IF k = e.key THEN e.prev ELSE o.dirty[k]
                 /\ Restored(e, o).destructed = o.destructed /\ Restored(e, o).newContract = o.newContract
<1>1. CASE e.type = "createContract"
  BY <1>1 DEF Restored, Object
<1>2. CASE e.type = "selfDestruct"
  BY <1>2, EntryFields DEF Restored, Object, Account
<1>3. CASE e.type = "balance"
  BY <1>3, EntryFields DEF Restored, Object, Account
<1>4. CASE e.type = "nonce"
  BY <1>4, EntryFields DEF Restored, Object, Account
<1>5. CASE e.type = "code"
  BY <1>5, EntryFields DEF Restored, Object, Account
<1>6. CASE e.type = "storage"
  <2>1. PICK d : d = [k \in DOMAIN o.dirty \cup {e.key} |-> IF k = e.key THEN e.prev ELSE o.dirty[k]]
    OBVIOUS
  <2>2. e.key \in Slot /\ e.prev \in Value
    BY <1>6, EntryFields
  <2>3. d \in [DOMAIN o.dirty \cup {e.key} -> Value] /\ DOMAIN o.dirty \cup {e.key} \in SUBSET Slot
    BY <2>1, <2>2, ObjectFields
  <2>4. d \in UNION {[D -> Value] : D \in SUBSET Slot}
    BY <2>3
  <2>5. Restored(e, o) = [o EXCEPT !.dirty = d]
    BY <1>6, <2>1 DEF Restored
  <2>6. /\ Restored(e, o) \in Object /\ Restored(e, o).dirty = d /\ Restored(e, o).account = o.account
        /\ Restored(e, o).destructed = o.destructed /\ Restored(e, o).newContract = o.newContract
    BY <2>4, <2>5 DEF Object
  <2>7. QED
    BY <1>6, <2>1, <2>6
<1>7. QED
  BY <1>1, <1>2, <1>3, <1>4, <1>5, <1>6 DEF ObjectTypes

\* Undoing an entry on two objects, one of which covers the other.
LEMMA RestoredCovers ==
    ASSUME NEW a \in Addr, NEW e \in Entry, e.type \in ObjectTypes, NEW o \in Object, NEW p \in Object,
           ObjectCovers(a, o, p)
    PROVE  ObjectCovers(a, Restored(e, o), Restored(e, p))
<1>1. PICK x, y : x = Restored(e, o) /\ y = Restored(e, p)
  OBVIOUS
<1>2. CASE e.type = "storage"
  <2>1. /\ x.account = o.account /\ x.destructed = o.destructed /\ x.newContract = o.newContract
        /\ DOMAIN x.dirty = DOMAIN o.dirty \cup {e.key}
        /\ \A k \in DOMAIN o.dirty \cup {e.key} : x.dirty[k] = IF k = e.key THEN e.prev ELSE o.dirty[k]
    BY <1>1, <1>2, RestoredFields, ZenonT(60)
  <2>2. /\ y.account = p.account /\ y.destructed = p.destructed /\ y.newContract = p.newContract
        /\ DOMAIN y.dirty = DOMAIN p.dirty \cup {e.key}
        /\ \A k \in DOMAIN p.dirty \cup {e.key} : y.dirty[k] = IF k = e.key THEN e.prev ELSE p.dirty[k]
    BY <1>1, <1>2, RestoredFields, ZenonT(60)
  <2>3. \A k \in Slot : SlotValue(a, x, k) = SlotValue(a, y, k)
    BY <2>1, <2>2 DEF ObjectCovers, SlotValue
  <2>4. QED
    BY <1>1, <2>1, <2>2, <2>3 DEF ObjectCovers
<1>3. CASE e.type # "storage"
  <2>1. x.dirty = o.dirty /\ y.dirty = p.dirty
    BY <1>1, <1>3, RestoredFields DEF ObjectTypes
  <2>2. x.account = y.account /\ x.destructed = y.destructed /\ x.newContract = y.newContract
    <3>1. o.account = p.account /\ o.destructed = p.destructed /\ o.newContract = p.newContract
      BY DEF ObjectCovers
    <3>2. CASE e.type = "createContract"
      <4>1. x.account = o.account /\ x.destructed = o.destructed /\ x.newContract = FALSE
        BY <1>1, <3>2, RestoredFields
      <4>2. y.account = p.account /\ y.destructed = p.destructed /\ y.newContract = FALSE
        BY <1>1, <3>2, RestoredFields
      <4>3. QED
        BY <3>1, <4>1, <4>2
    <3>3. CASE e.type = "selfDestruct"
      <4>1. /\ x.account = [o.account EXCEPT !.bal = e.prevBalance]
            /\ x.destructed = e.prev /\ x.newContract = o.newContract
        BY <1>1, <3>3, RestoredFields
      <4>2. /\ y.account = [p.account EXCEPT !.bal = e.prevBalance]
            /\ y.destructed = e.prev /\ y.newContract = p.newContract
        BY <1>1, <3>3, RestoredFields
      <4>3. QED
        BY <3>1, <4>1, <4>2, Zenon
    <3>4. CASE e.type \in {"balance", "nonce", "code"}
      <4> DEFINE old(q) == IF e.type = "balance" THEN [q.account EXCEPT !.bal = e.prev]
                           ELSE IF e.type = "nonce" THEN [q.account EXCEPT !.nonce = e.prev]
                           ELSE [q.account EXCEPT !.code = e.prev]
      <4>1. x.account = old(o) /\ x.destructed = o.destructed /\ x.newContract = o.newContract
        BY <1>1, <3>4, RestoredFields
      <4>2. y.account = old(p) /\ y.destructed = p.destructed /\ y.newContract = p.newContract
        BY <1>1, <3>4, RestoredFields
      <4>3. old(o) = old(p)
        BY <3>1, Zenon
      <4> HIDE DEF old
      <4>4. QED
        BY <3>1, <4>1, <4>2, <4>3
    <3>5. QED
      BY <1>3, <3>2, <3>3, <3>4 DEF ObjectTypes
  <2>3. QED
    BY <1>1, <2>1, <2>2 DEF ObjectCovers, SlotValue
<1>4. QED
  BY <1>2, <1>3

\* When undoing an entry panics.
UndoPanics(e, s) ==
    \/ e.type \in ObjectTypes /\ ~Exist(s, e.account)
    \/ e.type = "accessSlot" /\ (\/ e.account \notin DOMAIN s.accessList.addresses
                                 \/ s.accessList.addresses[e.account] \notin DOMAIN s.accessList.slots)
    \/ e.type = "precompile" /\ e.snapshot \notin 1 .. Len(s.cache) - 1

UndoneObjs(e, s) ==
    IF e.type = "createObject" THEN [s.objs EXCEPT ![e.account] = Missing]
    ELSE IF e.type \in ObjectTypes /\ Exist(s, e.account)
    THEN [s.objs EXCEPT ![e.account] = Restored(e, getStateObject(s, e.account))]
    ELSE s.objs

UndoneDirties(e, s) ==
    IF e.type \in DirtyTypes THEN [s.dirties EXCEPT ![e.account] = @ - 1] ELSE s.dirties

UndoneAccess(e, s) ==
    IF e.type = "accessAddress" THEN DeleteAddress(s.accessList, e.account)
    ELSE IF e.type = "accessSlot" /\ ~UndoPanics(e, s) THEN DeleteSlot(s.accessList, e.account, e.key)
    ELSE s.accessList

UndoneTransient(e, s) ==
    IF e.type = "transient" THEN [s.transient EXCEPT ![e.account][e.key] = e.prev] ELSE s.transient

UndoneCache(e, s) ==
    IF e.type = "precompile" /\ ~UndoPanics(e, s) THEN SubSeq(s.cache, 1, e.snapshot) ELSE s.cache

\* A record with the fields of a StateDB.
IsDb(s) ==
    s = [objs |-> s.objs, journal |-> s.journal, dirties |-> s.dirties,
         validRevisions |-> s.validRevisions, nextRevisionID |-> s.nextRevisionID,
         refund |-> s.refund, logs |-> s.logs, transient |-> s.transient,
         accessList |-> s.accessList, cache |-> s.cache,
         precompileCallsCounter |-> s.precompileCallsCounter, panic |-> s.panic]

\* The fields that undoing an entry sets, and those it leaves alone.
FieldsUndone(e, s, u, dirties) ==
    /\ IsDb(u)
    /\ u.objs = UndoneObjs(e, s) /\ u.dirties = dirties
    /\ u.accessList = UndoneAccess(e, s) /\ u.transient = UndoneTransient(e, s)
    /\ u.cache = UndoneCache(e, s)
    /\ u.refund = (IF e.type = "refund" THEN e.prev ELSE s.refund)
    /\ u.logs = (IF e.type = "log" THEN s.logs - 1 ELSE s.logs)
    /\ u.panic = (s.panic \/ UndoPanics(e, s))
    /\ u.journal = s.journal /\ u.validRevisions = s.validRevisions
    /\ u.nextRevisionID = s.nextRevisionID
    /\ u.precompileCallsCounter = s.precompileCallsCounter

\* Reverting an entry that changed an object: the object is restored, if it is there.
LEMMA RevertObject ==
    ASSUME NEW s \in Db, NEW e \in Entry, e.type \in ObjectTypes
    PROVE  Revert(s, e) = IF getStateObject(s, e.account) = Missing THEN Panic(s)
                          ELSE setStateObject(s, e.account, Restored(e, getStateObject(s, e.account)))
<1>1. PICK o : o = getStateObject(s, e.account)
  OBVIOUS
<1>2. CASE e.type = "createContract"
  BY <1>1, <1>2 DEF Revert, UndoObject, Restored
<1>3. CASE e.type = "selfDestruct"
  BY <1>1, <1>3 DEF Revert, UndoObject, Restored
<1>4. CASE e.type = "balance"
  BY <1>1, <1>4 DEF Revert, UndoObject, Restored
<1>5. CASE e.type = "nonce"
  BY <1>1, <1>5 DEF Revert, UndoObject, Restored
<1>6. CASE e.type = "code"
  BY <1>1, <1>6 DEF Revert, UndoObject, Restored
<1>7. CASE e.type = "storage"
  BY <1>1, <1>7 DEF Revert, UndoObject, Restored
<1>8. QED
  BY <1>2, <1>3, <1>4, <1>5, <1>6, <1>7 DEF ObjectTypes

\* The fields after Revert.
LEMMA RevertFields ==
    ASSUME NEW s \in Db, NEW e \in Entry
    PROVE  FieldsUndone(e, s, Revert(s, e), s.dirties)
<1>1. IsDb(s) /\ s.panic \in BOOLEAN
  BY DEF Db, IsDb
<1>2. Panic(s) = [s EXCEPT !.panic = TRUE]
  BY DEF Panic
<1>3. CASE e.type \in ObjectTypes
  <2>1. PICK o, a : o = getStateObject(s, e.account) /\ a = e.account
    OBVIOUS
  <2>2. CASE o = Missing
    <3>1. Revert(s, e) = [s EXCEPT !.panic = TRUE]
      BY <1>2, <1>3, <2>1, <2>2, RevertObject
    <3>2. UndoPanics(e, s) /\ ~Exist(s, e.account)
      BY <1>3, <2>1, <2>2 DEF UndoPanics, Exist
    <3>3. QED
      BY <1>1, <1>3, <3>1, <3>2 DEF IsDb, FieldsUndone, UndoneObjs, UndoneAccess, UndoneTransient, UndoneCache, ObjectTypes
  <2>3. CASE o # Missing
    <3>1. Revert(s, e) = [s EXCEPT !.objs[e.account] = Restored(e, o)]
      BY <1>3, <2>1, <2>3, RevertObject DEF setStateObject
    <3>2. ~UndoPanics(e, s) /\ Exist(s, e.account)
      BY <1>3, <2>1, <2>3 DEF UndoPanics, Exist, ObjectTypes
    <3>3. QED
      BY <1>1, <1>3, <2>1, <3>1, <3>2 DEF IsDb, FieldsUndone, UndoneObjs, UndoneAccess, UndoneTransient, UndoneCache, ObjectTypes
  <2>4. QED
    BY <2>2, <2>3
<1>4. CASE e.type = "createObject"
  BY <1>1, <1>4 DEF IsDb, Revert, FieldsUndone, UndoneObjs, UndoneAccess, UndoneTransient, UndoneCache, UndoPanics, ObjectTypes
<1>5. CASE e.type = "accessAddress"
  BY <1>1, <1>5 DEF IsDb, Revert, FieldsUndone, UndoneObjs, UndoneAccess, UndoneTransient, UndoneCache, UndoPanics, ObjectTypes
<1>6. CASE e.type = "accessSlot"
  <2>1. Revert(s, e) = IF UndoPanics(e, s) THEN Panic(s)
                       ELSE [s EXCEPT !.accessList = DeleteSlot(@, e.account, e.key)]
    BY <1>6 DEF Revert, UndoPanics, ObjectTypes
  <2>2. CASE UndoPanics(e, s)
    BY <1>1, <1>2, <1>6, <2>1, <2>2 DEF IsDb, FieldsUndone, UndoneObjs, UndoneAccess, UndoneTransient, UndoneCache, ObjectTypes
  <2>3. CASE ~UndoPanics(e, s)
    BY <1>1, <1>6, <2>1, <2>3 DEF IsDb, FieldsUndone, UndoneObjs, UndoneAccess, UndoneTransient, UndoneCache, ObjectTypes
  <2>4. QED
    BY <2>2, <2>3
<1>7. CASE e.type = "transient"
  BY <1>1, <1>7 DEF IsDb, Revert, FieldsUndone, UndoneObjs, UndoneAccess, UndoneTransient, UndoneCache, UndoPanics, ObjectTypes
<1>8. CASE e.type = "refund"
  BY <1>1, <1>8 DEF IsDb, Revert, FieldsUndone, UndoneObjs, UndoneAccess, UndoneTransient, UndoneCache, UndoPanics, ObjectTypes
<1>9. CASE e.type = "log"
  BY <1>1, <1>9 DEF IsDb, Revert, FieldsUndone, UndoneObjs, UndoneAccess, UndoneTransient, UndoneCache, UndoPanics, ObjectTypes
<1>10. CASE e.type = "precompile"
  <2>1. Revert(s, e) = IF UndoPanics(e, s) THEN Panic(s)
                       ELSE [s EXCEPT !.cache = SubSeq(@, 1, e.snapshot)]
    BY <1>10 DEF Revert, RevertMultiStore, UndoPanics, ObjectTypes
  <2>2. CASE UndoPanics(e, s)
    BY <1>1, <1>2, <1>10, <2>1, <2>2 DEF IsDb, FieldsUndone, UndoneObjs, UndoneAccess, UndoneTransient, UndoneCache, ObjectTypes
  <2>3. CASE ~UndoPanics(e, s)
    BY <1>1, <1>10, <2>1, <2>3 DEF IsDb, FieldsUndone, UndoneObjs, UndoneAccess, UndoneTransient, UndoneCache, ObjectTypes
  <2>4. QED
    BY <2>2, <2>3
<1>11. QED
  BY <1>3, <1>4, <1>5, <1>6, <1>7, <1>8, <1>9, <1>10, EntryFields

\* The fields after Undo.
LEMMA UndoFields ==
    ASSUME NEW s \in Db, NEW e \in Entry
    PROVE  FieldsUndone(e, s, Undo(e, s), UndoneDirties(e, s))
<1>1. PICK r : r = Revert(s, e)
  OBVIOUS
<1>2. FieldsUndone(e, s, r, s.dirties)
  BY <1>1, RevertFields
<1>3. Undo(e, s) = IF Dirtied(e) = Missing THEN r ELSE [r EXCEPT !.dirties[e.account] = @ - 1]
  BY <1>1 DEF Undo
<1>4. CASE e.type \in DirtyTypes
  <2>1. Undo(e, s) = [r EXCEPT !.dirties[e.account] = @ - 1]
    BY <1>3, <1>4, DirtiedBy
  <2>2. IsDb(r)
    BY <1>2 DEF FieldsUndone
  <2>3. QED
    BY <1>2, <1>4, <2>1, <2>2 DEF FieldsUndone, UndoneDirties, IsDb
<1>5. CASE e.type \notin DirtyTypes
  BY <1>2, <1>3, <1>5, DirtiedBy DEF FieldsUndone, UndoneDirties
<1>6. QED
  BY <1>4, <1>5

\* A list without an address, and one without a slot, are lists.
LEMMA AccessTypes ==
    ASSUME NEW al \in AccessList, NEW a \in Addr
    PROVE  /\ DeleteAddress(al, a) \in AccessList
           /\ a \in DOMAIN al.addresses /\ al.addresses[a] \in DOMAIN al.slots =>
                 \A k : DeleteSlot(al, a, k) \in AccessList
<1>1. PICK D \in SUBSET Addr : al.addresses \in [D -> Nat]
  BY DEF AccessList
<1>2. al.slots \in Seq(SUBSET Slot) /\ al = [addresses |-> al.addresses, slots |-> al.slots]
  BY DEF AccessList
<1>3. DeleteAddress(al, a) \in AccessList
  <2>1. PICK f : f = [b \in DOMAIN al.addresses \ {a} |-> al.addresses[b]]
    OBVIOUS
  <2>2. f \in [D \ {a} -> Nat] /\ D \ {a} \in SUBSET Addr
    BY <1>1, <2>1
  <2>3. f \in UNION {[E -> Nat] : E \in SUBSET Addr}
    BY <2>2
  <2>4. DeleteAddress(al, a) = [addresses |-> f, slots |-> al.slots]
    BY <1>2, <2>1 DEF DeleteAddress
  <2>5. QED
    BY <1>2, <2>3, <2>4 DEF AccessList
<1>4. ASSUME a \in DOMAIN al.addresses, al.addresses[a] \in DOMAIN al.slots, NEW k
      PROVE  DeleteSlot(al, a, k) \in AccessList
  <2>1. PICK i, left : i = al.addresses[a] /\ left = al.slots[i] \ {k}
    OBVIOUS
  <2>2. i \in 1 .. Len(al.slots) /\ left \in SUBSET Slot
    BY <1>2, <1>4, <2>1
  <2>3. [al.slots EXCEPT ![i] = left] \in Seq(SUBSET Slot)
    BY <1>2, <2>2
  <2>4. SubSeq(al.slots, 1, i - 1) \in Seq(SUBSET Slot)
    BY <1>2, <2>2
  <2>5. [al.addresses EXCEPT ![a] = 0] \in UNION {[E -> Nat] : E \in SUBSET Addr}
    <3>1. [al.addresses EXCEPT ![a] = 0] \in [D -> Nat]
      BY <1>1, <1>4
    <3>2. QED
      BY <1>1, <3>1
  <2>6. DeleteSlot(al, a, k) = IF left # {} THEN [addresses |-> al.addresses, slots |-> [al.slots EXCEPT ![i] = left]]
                               ELSE [addresses |-> [al.addresses EXCEPT ![a] = 0], slots |-> SubSeq(al.slots, 1, i - 1)]
    <3>1. CASE left # {}
      <4>1. DeleteSlot(al, a, k) = [al EXCEPT !.slots[i] = left]
        BY <2>1, <3>1 DEF DeleteSlot
      <4>2. QED
        BY <1>2, <3>1, <4>1
    <3>2. CASE left = {}
      BY <2>1, <3>2 DEF DeleteSlot
    <3>3. QED
      BY <3>1, <3>2
  <2>7. QED
    BY <2>3, <2>4, <2>5, <2>6 DEF AccessList
<1>5. QED
  BY <1>3, <1>4

\* Undoing an entry gives a StateDB.
LEMMA UndoType ==
    ASSUME store \in Store, NEW s \in Db, NEW e \in Entry
    PROVE  Undo(e, s) \in Db
<1>1. PICK u : u = Undo(e, s)
  OBVIOUS
<1>2. FieldsUndone(e, s, u, UndoneDirties(e, s))
  BY <1>1, UndoFields
<1>3. UndoneObjs(e, s) \in [Addr -> Object \cup {Missing}]
  <2>1. s.objs \in [Addr -> Object \cup {Missing}]
    BY DEF Db
  <2>2. CASE e.type = "createObject"
    BY <2>1, <2>2 DEF UndoneObjs
  <2>3. CASE e.type \in ObjectTypes /\ Exist(s, e.account)
    <3>1. e.account \in Addr
      BY <2>3, EntryFields DEF ObjectTypes
    <3>2. getStateObject(s, e.account) \in Object
      BY <2>3, <3>1, GetObject
    <3>3. Restored(e, getStateObject(s, e.account)) \in Object
      BY <2>3, <3>2, RestoredFields
    <3>4. QED
      BY <2>1, <2>3, <3>3 DEF UndoneObjs, ObjectTypes
  <2>4. CASE e.type # "createObject" /\ ~(e.type \in ObjectTypes /\ Exist(s, e.account))
    BY <2>1, <2>4 DEF UndoneObjs
  <2>5. QED
    BY <2>2, <2>3, <2>4
<1>4. UndoneDirties(e, s) \in [Addr -> Int]
  <2>1. s.dirties \in [Addr -> Int]
    BY DEF Db
  <2>2. e.type \in DirtyTypes => e.account \in Addr
    BY DirtiedBy
  <2>3. QED
    BY <2>1, <2>2 DEF UndoneDirties
<1>5. UndoneAccess(e, s) \in AccessList
  <2>1. s.accessList \in AccessList
    BY DEF Db
  <2>2. CASE e.type = "accessAddress"
    <3>1. e.account \in Addr
      BY <2>2, EntryFields
    <3>2. QED
      BY <2>1, <2>2, <3>1, AccessTypes DEF UndoneAccess
  <2>3. CASE e.type = "accessSlot" /\ ~UndoPanics(e, s)
    <3>1. e.account \in Addr /\ e.key \in Slot
      BY <2>3, EntryFields
    <3>2. QED
      BY <2>1, <2>3, <3>1, AccessTypes DEF UndoneAccess, UndoPanics
  <2>4. QED
    BY <2>1, <2>2, <2>3 DEF UndoneAccess
<1>6. UndoneTransient(e, s) \in [Addr -> [Slot -> Value]]
  <2>1. s.transient \in [Addr -> [Slot -> Value]]
    BY DEF Db
  <2>2. e.type = "transient" => e.account \in Addr /\ e.key \in Slot /\ e.prev \in Value
    BY EntryFields
  <2>3. QED
    BY <2>1, <2>2 DEF UndoneTransient
<1>7. UndoneCache(e, s) \in Seq(Store)
  <2>1. s.cache \in Seq(Store)
    BY DEF Db
  <2>2. CASE e.type = "precompile" /\ ~UndoPanics(e, s)
    <3>1. e.snapshot \in 1 .. Len(s.cache) - 1
      BY <2>2 DEF UndoPanics
    <3>2. SubSeq(s.cache, 1, e.snapshot) \in Seq(Store)
      BY <2>1, <3>1
    <3>3. QED
      BY <2>2, <3>2 DEF UndoneCache
  <2>3. QED
    BY <2>1, <2>2 DEF UndoneCache
<1>8. /\ (IF e.type = "refund" THEN e.prev ELSE s.refund) \in Nat
      /\ (IF e.type = "log" THEN s.logs - 1 ELSE s.logs) \in Int
      /\ (s.panic \/ UndoPanics(e, s)) \in BOOLEAN
  BY EntryFields DEF Db
<1>9. /\ u.objs \in [Addr -> Object \cup {Missing}] /\ u.dirties \in [Addr -> Int]
      /\ u.accessList \in AccessList /\ u.transient \in [Addr -> [Slot -> Value]]
      /\ u.cache \in Seq(Store) /\ u.refund \in Nat /\ u.logs \in Int /\ u.panic \in BOOLEAN
  BY <1>2, <1>3, <1>4, <1>5, <1>6, <1>7, <1>8 DEF FieldsUndone
<1>10. /\ u.journal \in Seq(Entry) /\ u.validRevisions \in Seq(Revision)
       /\ u.nextRevisionID \in Nat /\ u.precompileCallsCounter \in 0 .. CounterSize - 1
  BY <1>2 DEF FieldsUndone, Db
<1>11. IsDb(u)
  BY <1>2 DEF FieldsUndone
<1>12. QED
  BY <1>1, <1>9, <1>10, <1>11 DEF Db, IsDb

(***************************************************************************)
(* Covering is a preorder that undoing an entry preserves.                 *)
(***************************************************************************)
\* Every state covers itself.
LEMMA CoversReflexive ==
    ASSUME NEW s
    PROVE  Covers(s, s)
BY DEF Covers, RestSame, AccountCovers, ObjectCovers

\* A state covers what the states it covers do.
LEMMA CoversTransitive ==
    ASSUME NEW s, NEW t, NEW u, Covers(s, t), Covers(t, u)
    PROVE  Covers(s, u)
<1>1. RestSame(s, u)
  <2>1. <<store>> # << >>
    OBVIOUS
  <2>2. QED
    BY <2>1 DEF Covers, RestSame
<1>2. ASSUME NEW a \in Addr PROVE AccountCovers(s, u, a)
  <2>1. AccountCovers(s, t, a) /\ AccountCovers(t, u, a)
    BY DEF Covers
  <2>2. ASSUME NEW o, NEW p, NEW q, ObjectCovers(a, o, p), ObjectCovers(a, p, q)
        PROVE  ObjectCovers(a, o, q)
    BY <2>2 DEF ObjectCovers
  <2>3. QED
    BY <2>1, <2>2 DEF AccountCovers
<1>3. QED
  BY <1>1, <1>2 DEF Covers

\* Whether undoing an entry panics is the same on both.
LEMMA SamePanics ==
    ASSUME NEW s \in Db, NEW t \in Db, NEW e \in Entry, Covers(s, t)
    PROVE  UndoPanics(e, s) <=> UndoPanics(e, t)
<1>1. e.type \in ObjectTypes => (Exist(s, e.account) <=> Exist(t, e.account))
  BY EntryFields DEF Covers, AccountCovers, ObjectTypes
<1>2. e.snapshot \notin 1 .. Len(s.cache) - 1 <=> e.snapshot \notin 1 .. Len(t.cache) - 1
  <2>1. CASE s.cache = t.cache
    BY <2>1
  <2>2. CASE s.cache = <<store>> /\ t.cache = << >>
    <3>1. Len(s.cache) = 1 /\ Len(t.cache) = 0
      BY <2>2
    <3>2. 1 .. Len(s.cache) - 1 = {} /\ 1 .. Len(t.cache) - 1 = {}
      BY <3>1
    <3>3. QED
      BY <3>2
  <2>3. QED
    BY <2>1, <2>2 DEF Covers, RestSame
<1>3. s.accessList = t.accessList
  BY DEF Covers, RestSame
<1>4. QED
  BY <1>1, <1>2, <1>3 DEF UndoPanics, ObjectTypes

\* Undoing the same entry in a state and in one it covers keeps the covering: what has been
\* loaded since does not change what is restored.
LEMMA UndoCovers ==
    ASSUME store \in Store, NEW s \in Db, NEW t \in Db, NEW e \in Entry, Covers(s, t)
    PROVE  Covers(Undo(e, s), Undo(e, t))
<1>1. PICK u, v : u = Undo(e, s) /\ v = Undo(e, t)
  OBVIOUS
<1>2. u \in Db /\ v \in Db
  BY <1>1, UndoType
<1>3. FieldsUndone(e, s, u, UndoneDirties(e, s)) /\ FieldsUndone(e, t, v, UndoneDirties(e, t))
  BY <1>1, UndoFields
<1>4. UndoPanics(e, s) <=> UndoPanics(e, t)
  BY SamePanics
<1>5. RestSame(s, t)
  BY DEF Covers
<1>6. RestSame(u, v)
  <2>1. u.dirties = v.dirties /\ u.transient = v.transient
    BY <1>3, <1>5 DEF FieldsUndone, RestSame, UndoneDirties, UndoneTransient
  <2>2. u.refund = v.refund /\ u.logs = v.logs /\ u.panic = v.panic
    BY <1>3, <1>4, <1>5 DEF FieldsUndone, RestSame
  <2>3. u.accessList = v.accessList
    BY <1>3, <1>4, <1>5 DEF FieldsUndone, RestSame, UndoneAccess
  <2>4. u.cache = v.cache \/ (u.cache = <<store>> /\ v.cache = << >>)
    <3>1. CASE s.cache = t.cache
      BY <1>3, <1>4, <3>1 DEF FieldsUndone, UndoneCache
    <3>2. CASE s.cache = <<store>> /\ t.cache = << >>
      <4>1. e.type = "precompile" => UndoPanics(e, s)
        <5>1. Len(s.cache) = 1
          BY <3>2
        <5>2. 1 .. Len(s.cache) - 1 = {}
          BY <5>1
        <5>3. QED
          BY <5>2 DEF UndoPanics
      <4>2. QED
        BY <1>3, <1>4, <3>2, <4>1 DEF FieldsUndone, UndoneCache
    <3>3. QED
      BY <1>5, <3>1, <3>2 DEF RestSame
  <2>5. QED
    BY <2>1, <2>2, <2>3, <2>4 DEF RestSame
<1>7. ASSUME NEW a \in Addr PROVE AccountCovers(u, v, a)
  <2>1. AccountCovers(s, t, a)
    BY DEF Covers
  <2>2. u.objs = UndoneObjs(e, s) /\ v.objs = UndoneObjs(e, t)
    BY <1>3 DEF FieldsUndone
  <2>3. s.objs \in [Addr -> Object \cup {Missing}] /\ t.objs \in [Addr -> Object \cup {Missing}]
    BY DEF Db
  <2>4. CASE u.objs[a] = s.objs[a] /\ v.objs[a] = t.objs[a]
    <3>1. getStateObject(u, a) = getStateObject(s, a) /\ getStateObject(v, a) = getStateObject(t, a)
      BY <2>4 DEF getStateObject
    <3>2. QED
      BY <2>1, <2>4, <3>1 DEF AccountCovers, Exist
  <2>5. CASE e.type = "createObject" /\ e.account = a
    <3>1. u.objs[a] = Missing /\ v.objs[a] = Missing
      BY <2>2, <2>3, <2>5 DEF UndoneObjs
    <3>2. getStateObject(u, a) = getStateObject(v, a)
      BY <3>1 DEF getStateObject
    <3>3. QED
      BY <3>1, <3>2 DEF AccountCovers, Exist, ObjectCovers
  <2>6. CASE e.type \in ObjectTypes /\ e.account = a /\ Exist(s, a)
    <3>1. PICK o, p : o = getStateObject(s, a) /\ p = getStateObject(t, a)
      OBVIOUS
    <3>2. Exist(t, a) /\ ObjectCovers(a, o, p)
      BY <2>1, <2>6, <3>1 DEF AccountCovers
    <3>3. o \in Object /\ p \in Object
      BY <2>6, <3>1, <3>2, GetObject
    <3>4. u.objs[a] = Restored(e, o) /\ v.objs[a] = Restored(e, p)
      BY <2>2, <2>3, <2>6, <3>1, <3>2 DEF UndoneObjs, ObjectTypes
    <3>5. Restored(e, o) \in Object /\ Restored(e, p) \in Object
      BY <2>6, <3>3, RestoredFields
    <3>6. Restored(e, o) # Missing /\ Restored(e, p) # Missing
      BY <3>5, ObjectFields
    <3>7. getStateObject(u, a) = Restored(e, o) /\ getStateObject(v, a) = Restored(e, p)
      BY <3>4, <3>6 DEF getStateObject
    <3>8. ObjectCovers(a, Restored(e, o), Restored(e, p))
      BY <2>6, <3>2, <3>3, RestoredCovers
    <3>9. QED
      BY <3>4, <3>6, <3>7, <3>8 DEF AccountCovers, Exist
  <2>7. CASE ~(e.type = "createObject" /\ e.account = a) /\ ~(e.type \in ObjectTypes /\ e.account = a /\ Exist(s, a))
    <3>1. u.objs[a] = s.objs[a]
      BY <2>2, <2>3, <2>7 DEF UndoneObjs
    <3>2. v.objs[a] = t.objs[a]
      BY <2>1, <2>2, <2>3, <2>7 DEF UndoneObjs, AccountCovers
    <3>3. QED
      BY <2>4, <3>1, <3>2
  <2>8. QED
    BY <2>5, <2>6, <2>7
<1>8. QED
  BY <1>1, <1>6, <1>7 DEF Covers

(***************************************************************************)
(* Undoing the end of the journal.                                         *)
(***************************************************************************)
\* What undoing an entry never touches.
SameJournal(u, s) ==
    /\ u.journal = s.journal /\ u.validRevisions = s.validRevisions
    /\ u.nextRevisionID = s.nextRevisionID
    /\ u.precompileCallsCounter = s.precompileCallsCounter

\* FoldRight of Undo undoes the last entry first: it[i .. n] is the state with the entries
\* from the i-th on undone.
LEMMA FoldUndo ==
    ASSUME store \in Store, NEW es, es \in Seq(Entry), NEW s \in Db
    PROVE  \E it : /\ FoldRight(Undo, es, s) = it[1 .. Len(es)]
                   /\ it[{}] = s
                   /\ \A i \in 1 .. Len(es) : it[i .. Len(es)] = Undo(es[i], it[i + 1 .. Len(es)])
                   /\ \A x \in SUBSET (1 .. Len(es)) : it[x] \in Db /\ SameJournal(it[x], s)
<1> DEFINE Iter(it) == it = [x \in SUBSET (DOMAIN es) |->
                                IF x = {} THEN s ELSE Undo(es[Min(x)], it[x \ {Min(x)}])]
           iter == CHOOSE it : Iter(it)
<1>1. PICK S, n : S = DOMAIN es /\ n = Len(es)
  OBVIOUS
<1>2. S = 1 .. n /\ n \in Nat /\ IsFiniteSet(S)
  <2>1. S = 1 .. n /\ n \in Nat
    BY <1>1
  <2>2. IsFiniteSet(1 .. n)
    BY <2>1, FS_Interval
  <2>3. QED
    BY <2>1, <2>2
<1>3. \A x \in SUBSET S : x # {} => Min(x) \in x
  <2>1. \A x \in SUBSET S : x \in SUBSET Nat
    BY <1>2
  <2>2. QED
    BY <2>1, FirstIndex
<1>4. \A i \in S : es[i] \in Entry
  BY <1>1
<1> DEFINE T == {u \in Db : SameJournal(u, s)}
           F == [p \in S \X Db |-> Undo(es[p[1]], p[2])]
           pick == [x \in SUBSET S |-> Min(x)]
<1>5. s \in T
  BY DEF SameJournal
<1>6. ASSUME NEW i \in S, NEW u \in T PROVE Undo(es[i], u) \in T /\ F[<<i, u>>] = Undo(es[i], u)
  <2>1. u \in Db /\ SameJournal(u, s) /\ es[i] \in Entry
    BY <1>4
  <2>2. Undo(es[i], u) \in Db
    BY <2>1, UndoType
  <2>3. SameJournal(Undo(es[i], u), u)
    BY <2>1, UndoFields DEF FieldsUndone, SameJournal
  <2>4. SameJournal(Undo(es[i], u), s)
    BY <2>1, <2>3 DEF SameJournal
  <2>5. F[<<i, u>>] = Undo(es[i], u)
    BY <2>1
  <2>6. QED
    BY <2>2, <2>4, <2>5
<1> HIDE DEF F, T
<1>7. PICK it : IsFold(S, F, pick, s, it)
  <2>1. \A x \in SUBSET S : x # {} => pick[x] \in x
    BY <1>3
  <2> HIDE DEF pick
  <2>2. QED
    BY <1>2, <2>1, FoldExists
<1>8. \A x \in SUBSET S : it[x] = IF x = {} THEN s ELSE F[<<Min(x), it[x \ {Min(x)}]>>]
  BY <1>7 DEF IsFold
<1>9. \A x \in SUBSET S : it[x] \in T
  <2>1. it[{}] \in T
    BY <1>5, <1>8
  <2>2. ASSUME NEW x \in SUBSET S, x # {}
        PROVE  pick[x] \in x /\ (it[x \ {pick[x]}] \in T => it[x] \in T)
    <3>1. PICK i : i = Min(x)
      OBVIOUS
    <3>2. i \in x /\ pick[x] = i
      BY <1>3, <2>2, <3>1
    <3>3. it[x] = F[<<i, it[x \ {i}]>>]
      BY <1>8, <2>2, <3>1
    <3>4. i \in S
      BY <3>2
    <3>5. PICK v : v = it[x \ {i}]
      OBVIOUS
    <3>6. v \in T => F[<<i, v>>] \in T
      BY <1>6, <3>4
    <3>7. QED
      BY <3>2, <3>3, <3>5, <3>6
  <2> HIDE DEF pick
  <2>3. QED
    BY <1>2, <2>1, <2>2, FoldsInto
<1>10. Iter(it)
  <2>1. ASSUME NEW x \in SUBSET S
        PROVE  it[x] = IF x = {} THEN s ELSE Undo(es[Min(x)], it[x \ {Min(x)}])
    <3>1. CASE x # {}
      <4>1. PICK i, y : i = Min(x) /\ y = x \ {i}
        OBVIOUS
      <4>2. i \in S /\ y \in SUBSET S
        BY <1>3, <3>1, <4>1
      <4>3. it[y] \in T
        BY <1>9, <4>2
      <4>4. it[x] = F[<<i, it[y]>>]
        BY <1>8, <3>1, <4>1
      <4>5. QED
        BY <1>6, <3>1, <4>1, <4>2, <4>3, <4>4
    <3>2. QED
      BY <1>8, <3>1
  <2>2. it = [x \in SUBSET S |-> it[x]]
    BY <1>7 DEF IsFold
  <2>3. QED
    BY <1>1, <2>1, <2>2
<1>11. Iter(iter)
  BY <1>10
<1>12. FoldRight(Undo, es, s) = iter[DOMAIN es]
  BY DEF FoldRight, MapThenFoldSet
<1> HIDE DEF iter
<1>13. \A x \in SUBSET S : iter[x] = IF x = {} THEN s ELSE Undo(es[Min(x)], iter[x \ {Min(x)}])
  BY <1>1, <1>11
<1>14. \A x \in SUBSET S : iter[x] \in T
  <2>1. iter[{}] \in T
    BY <1>5, <1>13
  <2>2. ASSUME NEW x \in SUBSET S, x # {}
        PROVE  pick[x] \in x /\ (iter[x \ {pick[x]}] \in T => iter[x] \in T)
    <3>1. PICK i : i = Min(x)
      OBVIOUS
    <3>2. i \in x /\ pick[x] = i
      BY <1>3, <2>2, <3>1
    <3>3. iter[x] = Undo(es[i], iter[x \ {i}])
      BY <1>13, <2>2, <3>1
    <3>4. i \in S
      BY <3>2
    <3>5. QED
      BY <1>6, <3>2, <3>3, <3>4
  <2> HIDE DEF pick
  <2>3. QED
    BY <1>2, <2>1, <2>2, FoldsInto
<1>15. ASSUME NEW i \in 1 .. n PROVE iter[i .. n] = Undo(es[i], iter[i + 1 .. n])
  <2>1. PICK x : x = i .. n
    OBVIOUS
  <2>2. x \in SUBSET S /\ x # {} /\ x \in SUBSET Nat /\ i \in x /\ x \ {i} = i + 1 .. n
    <3>1. n \in Nat /\ i \in Nat /\ 1 <= i /\ i <= n
      BY <1>2
    <3>2. i \in i .. n /\ (i .. n) \ {i} = i + 1 .. n /\ \A j \in i .. n : j \in 1 .. n /\ j \in Nat
      BY <3>1
    <3>3. QED
      BY <1>2, <2>1, <3>2
  <2>3. Min(x) = i
    <3>1. Min(x) \in x /\ Min(x) <= i
      BY <2>2, FirstIndex
    <3>2. QED
      BY <1>2, <2>1, <3>1
  <2>4. QED
    BY <1>13, <2>1, <2>2, <2>3
<1>16. iter[{}] = s
  BY <1>13
<1>17. \A x \in SUBSET S : iter[x] \in Db /\ SameJournal(iter[x], s)
  BY <1>14 DEF T
<1>18. QED
  BY <1>1, <1>2, <1>12, <1>15, <1>16, <1>17

\* What is left of a sequence after its first p elements.
LEMMA RestOfSeq ==
    ASSUME NEW S, NEW es, es \in Seq(S), NEW p \in 0 .. Len(es)
    PROVE  /\ SubSeq(es, p + 1, Len(es)) \in Seq(S)
           /\ Len(SubSeq(es, p + 1, Len(es))) = Len(es) - p
           /\ \A i \in 1 .. Len(es) - p : SubSeq(es, p + 1, Len(es))[i] = es[p + i]
<1>1. PICK m, n : m = p + 1 /\ n = Len(es)
  OBVIOUS
<1>2. /\ m \in Int /\ n \in Int /\ n - m + 1 = n - p /\ (IF m <= n THEN n - m + 1 ELSE 0) = n - p
      /\ \A i \in Int : m + i - 1 = p + i
  BY <1>1
<1>3. \A i \in m .. n : es[i] \in S
  BY <1>1
<1>4. SubSeq(es, m, n) \in Seq(S)
  BY <1>2, <1>3, SubSeqProperties, Zenon
<1>5. /\ Len(SubSeq(es, m, n)) = n - p
      /\ \A i \in 1 .. n - p : SubSeq(es, m, n)[i] = es[p + i]
  BY <1>2
<1>6. QED
  BY <1>1, <1>4, <1>5

\* Undoing the journal down to n entries gives a state that covers the one it led back to,
\* with the same history below it.
LEMMA RevertCovers ==
    ASSUME store \in Store, NEW s \in Db, NEW c, History(s, c), NEW n \in 0 .. Len(s.journal)
    PROVE  /\ RevertJournal(s, n) \in Db /\ Covers(RevertJournal(s, n), c[n])
           /\ History(RevertJournal(s, n), c)
           /\ RevertJournal(s, n).journal = SubSeq(s.journal, 1, n)
           /\ RevertJournal(s, n).validRevisions = s.validRevisions
           /\ RevertJournal(s, n).nextRevisionID = s.nextRevisionID
           /\ RevertJournal(s, n).precompileCallsCounter = s.precompileCallsCounter
<1>1. PICK L, m, es : L = Len(s.journal) /\ m = L - n /\ es = SubSeq(s.journal, n + 1, L)
  OBVIOUS
<1>2. s.journal \in Seq(Entry) /\ L \in Nat /\ n \in Nat /\ n <= L /\ m \in Nat /\ n + m = L
  BY <1>1 DEF Db
<1>3. es \in Seq(Entry) /\ Len(es) = m /\ \A i \in 1 .. m : es[i] = s.journal[n + i]
  BY <1>1, <1>2, RestOfSeq
<1>4. PICK it : /\ FoldRight(Undo, es, s) = it[1 .. m] /\ it[{}] = s
                /\ \A i \in 1 .. m : it[i .. m] = Undo(es[i], it[i + 1 .. m])
                /\ \A x \in SUBSET (1 .. m) : it[x] \in Db /\ SameJournal(it[x], s)
  BY <1>3, FoldUndo, ZenonT(60)
<1> DEFINE bad == {j \in Nat : j <= m /\ ~Covers(it[m - j + 1 .. m], c[L - j])}
<1>5. bad = {}
  <2> SUFFICES ASSUME bad # {} PROVE FALSE
    OBVIOUS
  <2>1. PICK j \in bad : \A k \in bad : j <= k
    <3>1. bad \in SUBSET Nat
      OBVIOUS
    <3> HIDE DEF bad
    <3>2. QED
      BY <3>1, LeastNumber
  <2>2. j \in Nat /\ j <= m /\ ~Covers(it[m - j + 1 .. m], c[L - j])
    BY <2>1
  <2>3. CASE j = 0
    <3>1. m - j + 1 .. m = {} /\ L - j = L
      BY <1>2, <2>3
    <3>2. QED
      BY <1>1, <1>4, <2>2, <3>1 DEF History
  <2>4. CASE j # 0
    <3>1. PICK i, k : i = m - j + 1 /\ k = L - j + 1
      OBVIOUS
    <3>2. /\ i \in 1 .. m /\ k \in 1 .. L /\ k = n + i /\ k - 1 = L - j
          /\ j - 1 \in Nat /\ j - 1 <= m /\ m - (j - 1) + 1 = i + 1 /\ L - (j - 1) = k
          /\ ~(j <= j - 1)
      BY <1>2, <2>2, <2>4, <3>1
    <3>3. Covers(it[i + 1 .. m], c[k])
      <4>1. j - 1 \notin bad
        BY <2>1, <3>2
      <4>2. Covers(it[m - (j - 1) + 1 .. m], c[L - (j - 1)])
        BY <3>2, <4>1
      <4>3. QED
        BY <3>2, <4>2
    <3>4. it[i .. m] = Undo(s.journal[k], it[i + 1 .. m]) /\ s.journal[k] \in Entry
      <4>1. es[i] = s.journal[k] /\ it[i .. m] = Undo(es[i], it[i + 1 .. m])
        BY <1>3, <1>4, <3>2
      <4>2. s.journal[k] \in Entry
        <5>1. PICK log : log = s.journal
          OBVIOUS
        <5>2. log \in Seq(Entry) /\ k \in 1 .. Len(log)
          BY <1>1, <1>2, <3>2, <5>1
        <5>3. QED
          BY <5>1, <5>2
      <4>3. QED
        BY <4>1, <4>2
    <3>5. it[i + 1 .. m] \in Db
      <4>1. i + 1 .. m \in SUBSET (1 .. m)
        BY <1>2, <3>2
      <4>2. QED
        BY <1>4, <4>1
    <3>6. c[k] \in Db /\ Covers(Undo(s.journal[k], c[k]), c[k - 1])
      <4>1. k \in 0 .. Len(s.journal) /\ k \in 1 .. Len(s.journal)
        BY <1>1, <1>2, <3>2
      <4>2. QED
        BY <4>1 DEF History
    <3>7. Covers(Undo(s.journal[k], it[i + 1 .. m]), Undo(s.journal[k], c[k]))
      BY <3>3, <3>4, <3>5, <3>6, UndoCovers
    <3>8. Covers(it[i .. m], c[k - 1])
      BY <3>4, <3>6, <3>7, CoversTransitive
    <3>9. QED
      BY <2>2, <3>1, <3>2, <3>8
  <2>5. QED
    BY <2>3, <2>4
<1>6. PICK w : w = it[1 .. m]
  OBVIOUS
<1>7. w \in Db /\ SameJournal(w, s) /\ Covers(w, c[n])
  <2>1. m \notin bad /\ m - m + 1 = 1 /\ L - m = n /\ m <= m
    <3>1. m - m + 1 = 1 /\ L - m = n /\ m <= m
      BY <1>2
    <3> HIDE DEF bad
    <3>2. QED
      BY <1>5, <3>1
  <2>2. Covers(it[m - m + 1 .. m], c[L - m])
    BY <1>2, <2>1
  <2>3. 1 .. m \in SUBSET (1 .. m)
    OBVIOUS
  <2>4. QED
    BY <1>4, <1>6, <2>1, <2>2, <2>3
<1>8. PICK u : u = RevertJournal(s, n)
  OBVIOUS
<1>9. u = [w EXCEPT !.journal = SubSeq(w.journal, 1, n)]
  BY <1>1, <1>4, <1>6, <1>8 DEF RevertJournal
<1>10. w.journal = s.journal /\ SubSeq(s.journal, 1, n) \in Seq(Entry) /\ Len(SubSeq(s.journal, 1, n)) = n
       /\ \A i \in 1 .. n : SubSeq(s.journal, 1, n)[i] = s.journal[i]
  BY <1>1, <1>2, <1>7 DEF SameJournal
<1>11. u \in Db /\ u.journal = SubSeq(s.journal, 1, n) /\ u.objs = w.objs /\ RestSame(u, w)
  BY <1>7, <1>9, <1>10 DEF Db, RestSame
<1>12. /\ u.validRevisions = s.validRevisions /\ u.nextRevisionID = s.nextRevisionID
       /\ u.precompileCallsCounter = s.precompileCallsCounter
  BY <1>7, <1>9 DEF Db, SameJournal
<1>13. Covers(u, w)
  <2>1. \A a \in Addr : getStateObject(u, a) = getStateObject(w, a)
    BY <1>11 DEF getStateObject
  <2>2. QED
    BY <1>11, <2>1 DEF Covers, AccountCovers, ObjectCovers, Exist
<1>14. Covers(u, c[n])
  BY <1>7, <1>13, CoversTransitive
<1>15. History(u, c)
  <2>1. Len(u.journal) = n /\ \A i \in 1 .. n : u.journal[i] = s.journal[i]
    BY <1>10, <1>11
  <2>2. \A i \in 0 .. n : i \in 0 .. L
    BY <1>2
  <2>3. \A i \in 1 .. n : i \in 1 .. L
    BY <1>2
  <2>4. QED
    BY <1>1, <1>14, <2>1, <2>2, <2>3 DEF History
<1>16. QED
  BY <1>8, <1>11, <1>12, <1>14, <1>15

(***************************************************************************)
(* What the EVM sees does not tell a state from one that covers it.        *)
(***************************************************************************)
\* The cache context reads the same in both, made already or not.
LEMMA CoversCurrent ==
    ASSUME NEW s, NEW t, Covers(s, t)
    PROVE  Current(s) = Current(t)
<1>1. CASE s.cache = t.cache
  BY <1>1 DEF Current
<1>2. CASE s.cache = <<store>> /\ t.cache = << >>
  BY <1>2 DEF Current, Last
<1>3. QED
  BY <1>1, <1>2 DEF Covers, RestSame

\* Accounts and slots read the same in both.
LEMMA CoversRead ==
    ASSUME store \in Store, NEW s \in Db, NEW t \in Db, Covers(s, t), NEW a \in Addr
    PROVE  /\ Exist(s, a) <=> Exist(t, a)
           /\ Exist(s, a) => /\ getStateObject(s, a).account = getStateObject(t, a).account
                             /\ getStateObject(s, a).destructed = getStateObject(t, a).destructed
                             /\ getStateObject(s, a).newContract = getStateObject(t, a).newContract
           /\ \A k \in Slot : GetState(s, a, k) = GetState(t, a, k)
           /\ \A k \in Slot : Loaded(t, a, k) => Loaded(s, a, k)
           /\ t.objs[a] # Missing => s.objs[a] # Missing
<1>1. AccountCovers(s, t, a)
  BY DEF Covers
<1>2. \A k \in Slot : GetState(s, a, k) = GetState(t, a, k)
  BY <1>1, ReadSlot DEF AccountCovers, ObjectCovers
<1>3. ASSUME NEW k \in Slot, Loaded(t, a, k) PROVE Loaded(s, a, k)
  <2>1. t.objs[a] # Missing /\ s.objs[a] # Missing
    BY <1>1, <1>3 DEF Loaded, AccountCovers
  <2>2. getStateObject(t, a) = t.objs[a] /\ getStateObject(s, a) = s.objs[a] /\ Exist(t, a)
    BY <2>1 DEF getStateObject, Exist
  <2>3. QED
    BY <1>1, <1>3, <2>1, <2>2 DEF Loaded, AccountCovers, ObjectCovers
<1>4. QED
  BY <1>1, <1>2, <1>3 DEF AccountCovers, ObjectCovers

\* A state that covers a good one is good.
LEMMA CoversGood ==
    ASSUME store \in Store, NEW s \in Db, NEW t \in Db, Covers(s, t), Good(t)
    PROVE  Good(s)
<1>1. RestSame(s, t) /\ Current(s) = Current(t)
  BY CoversCurrent DEF Covers
<1>2. Synced(t)
  BY DEF Good
<1>3. ASSUME NEW a \in Addr
      PROVE  /\ s.dirties[a] \in Nat
             /\ s.dirties[a] > 0 => s.objs[a] # Missing
             /\ Exist(s, a) /\ getStateObject(s, a).destructed => s.dirties[a] > 0
  BY <1>1, <1>2, CoversRead DEF Synced, RestSame
<1>4. ASSUME NEW a \in Addr \ Blocked
      PROVE  /\ s.dirties[a] = 0 =>
                   /\ Current(s).acct[a] = IF Exist(s, a) THEN getStateObject(s, a).account ELSE Missing
                   /\ \A k \in Slot : Current(s).storage[a][k] = GetState(s, a, k)
             /\ \A k \in Slot : ~Loaded(s, a, k) => Current(s).storage[a][k] = store.storage[a][k]
  <2>1. /\ t.dirties[a] = 0 =>
              /\ Current(t).acct[a] = IF Exist(t, a) THEN getStateObject(t, a).account ELSE Missing
              /\ \A k \in Slot : Current(t).storage[a][k] = GetState(t, a, k)
        /\ \A k \in Slot : ~Loaded(t, a, k) => Current(t).storage[a][k] = store.storage[a][k]
    BY <1>2 DEF Synced
  <2>2. QED
    BY <1>1, <2>1, CoversRead DEF RestSame
<1>5. QED
  BY <1>1, <1>3, <1>4 DEF Good, Synced, RestSame

\* The EVM sees the same in both.
LEMMA CoversView ==
    ASSUME store \in Store, NEW s \in Db, NEW t \in Db, Covers(s, t)
    PROVE  View(s) = View(t)
<1>1. RestSame(s, t) /\ Current(s) = Current(t)
  BY CoversCurrent DEF Covers
<1>2. \A a \in Addr : VisibleAccount(s, a) = VisibleAccount(t, a)
  BY CoversRead DEF VisibleAccount, Exist
<1>3. \A a \in Addr : \A k \in Slot : GetState(s, a, k) = GetState(t, a, k)
  BY CoversRead
<1>4. [a \in Addr |-> VisibleAccount(s, a)] = [a \in Addr |-> VisibleAccount(t, a)]
  BY <1>2
<1>5. [a \in Addr |-> [k \in Slot |-> GetState(s, a, k)]] = [a \in Addr |-> [k \in Slot |-> GetState(t, a, k)]]
  BY <1>3
<1>6. s.accessList = t.accessList /\ s.transient = t.transient /\ s.refund = t.refund /\ s.logs = t.logs
  BY <1>1 DEF RestSame
<1>7. QED
  BY <1>1, <1>4, <1>5, <1>6, Zenon DEF View

(***************************************************************************)
(* Writing: the journal grows, and leads back.                             *)
(***************************************************************************)
\* The state after a write keeps the history and the revisions, and counts what it
\* makes dirty.
Continues(s, t) ==
    /\ Len(s.journal) <= Len(t.journal)
    /\ \A i \in 1 .. Len(s.journal) : t.journal[i] = s.journal[i]
    /\ t.validRevisions = s.validRevisions /\ t.nextRevisionID = s.nextRevisionID
    /\ \A c : History(s, c) => \E d : History(t, d) /\ \A i \in 0 .. Len(s.journal) : d[i] = c[i]
    /\ CountsAt(s, s.journal, Len(s.journal)) => CountsAt(t, t.journal, Len(t.journal))

\* A state continues itself.
LEMMA ContinuesReflexive ==
    ASSUME NEW s \in Db
    PROVE  Continues(s, s)
<1>1. Len(s.journal) \in Nat
  BY DEF Db
<1>2. QED
  BY <1>1 DEF Continues

\* What continues a continuation continues the first state.
LEMMA ContinuesTransitive ==
    ASSUME NEW s \in Db, NEW t \in Db, NEW u \in Db, Continues(s, t), Continues(t, u)
    PROVE  Continues(s, u)
<1>1. Len(s.journal) \in Nat /\ Len(t.journal) \in Nat /\ Len(u.journal) \in Nat
  <2>1. \A v \in Db : Len(v.journal) \in Nat
    BY DEF Db
  <2>2. QED
    BY <2>1
<1>2. Len(s.journal) <= Len(t.journal) /\ Len(t.journal) <= Len(u.journal)
  BY DEF Continues
<1>3. Len(s.journal) <= Len(u.journal) /\ \A i \in 1 .. Len(s.journal) : i \in 1 .. Len(t.journal)
  BY <1>1, <1>2
<1>4. \A i \in 1 .. Len(s.journal) : u.journal[i] = s.journal[i]
  BY <1>3 DEF Continues
<1>5. ASSUME NEW c, History(s, c)
      PROVE  \E d : History(u, d) /\ \A i \in 0 .. Len(s.journal) : d[i] = c[i]
  <2>1. PICK b : History(t, b) /\ \A i \in 0 .. Len(s.journal) : b[i] = c[i]
    BY <1>5 DEF Continues
  <2>2. PICK d : History(u, d) /\ \A i \in 0 .. Len(t.journal) : d[i] = b[i]
    BY <2>1 DEF Continues
  <2>3. \A i \in 0 .. Len(s.journal) : i \in 0 .. Len(t.journal)
    BY <1>1, <1>2
  <2>4. QED
    BY <2>1, <2>2, <2>3
<1>6. QED
  BY <1>3, <1>4, <1>5 DEF Continues

\* The fields after append.
LEMMA AppendFields ==
    ASSUME NEW s \in Db, NEW e \in Entry
    PROVE  /\ append(s, e) \in Db
           /\ append(s, e).journal = Append(s.journal, e)
           /\ append(s, e).dirties = IF e.type \in DirtyTypes THEN [s.dirties EXCEPT ![e.account] = @ + 1]
                                     ELSE s.dirties
           /\ append(s, e).objs = s.objs /\ append(s, e).refund = s.refund /\ append(s, e).logs = s.logs
           /\ append(s, e).transient = s.transient /\ append(s, e).accessList = s.accessList
           /\ append(s, e).cache = s.cache /\ append(s, e).panic = s.panic
           /\ append(s, e).validRevisions = s.validRevisions
           /\ append(s, e).nextRevisionID = s.nextRevisionID
           /\ append(s, e).precompileCallsCounter = s.precompileCallsCounter
<1>1. PICK j : j = [s EXCEPT !.journal = Append(s.journal, e)]
  OBVIOUS
<1>2. Append(s.journal, e) \in Seq(Entry)
  BY DEF Db
<1>3. /\ j \in Db /\ j.journal = Append(s.journal, e) /\ j.dirties = s.dirties
      /\ j.objs = s.objs /\ j.refund = s.refund /\ j.logs = s.logs
      /\ j.transient = s.transient /\ j.accessList = s.accessList
      /\ j.cache = s.cache /\ j.panic = s.panic /\ j.validRevisions = s.validRevisions
      /\ j.nextRevisionID = s.nextRevisionID
      /\ j.precompileCallsCounter = s.precompileCallsCounter
  BY <1>1, <1>2 DEF Db
<1>4. append(s, e) = IF Dirtied(e) = Missing THEN j ELSE [j EXCEPT !.dirties[e.account] = @ + 1]
  BY <1>1 DEF append
<1>5. CASE e.type \in DirtyTypes
  <2>1. append(s, e) = [j EXCEPT !.dirties[e.account] = @ + 1] /\ e.account \in Addr
    BY <1>4, <1>5, DirtiedBy
  <2>2. j.dirties \in [Addr -> Int]
    BY <1>3 DEF Db
  <2>3. [j.dirties EXCEPT ![e.account] = @ + 1] \in [Addr -> Int]
    BY <2>1, <2>2
  <2>4. QED
    BY <1>3, <1>5, <2>1, <2>3 DEF Db
<1>6. CASE e.type \notin DirtyTypes
  <2>1. append(s, e) = j
    BY <1>4, <1>6, DirtiedBy
  <2>2. QED
    BY <1>3, <1>6, <2>1
<1>7. QED
  BY <1>5, <1>6

\* The state t follows s by one journaled change that undoing its entry undoes.
Journaled(s, t, e) ==
    /\ t.journal = Append(s.journal, e)
    /\ t.dirties = IF e.type \in DirtyTypes THEN [s.dirties EXCEPT ![e.account] = @ + 1] ELSE s.dirties
    /\ t.validRevisions = s.validRevisions /\ t.nextRevisionID = s.nextRevisionID
    /\ Covers(Undo(e, t), s)

\* An entry more is counted where it makes dirty.
LEMMA OneMoreCounted ==
    ASSUME NEW s \in Db, NEW t \in Db, NEW e \in Entry, Journaled(s, t, e),
           CountsAt(s, s.journal, Len(s.journal))
    PROVE  CountsAt(t, t.journal, Len(t.journal))
<1> SUFFICES ASSUME NEW a \in Addr
             PROVE  t.dirties[a] = Cardinality(DirtyEntries(t.journal, Len(t.journal), a))
  BY DEF CountsAt
<1>1. PICK n, j, k : n = Len(s.journal) /\ j = s.journal /\ k = t.journal
  OBVIOUS
<1>2. /\ n \in Nat /\ j \in Seq(Entry) /\ Len(k) = n + 1 /\ k[n + 1] = e
      /\ \A i \in 1 .. n : k[i] = j[i]
  BY <1>1 DEF Db, Journaled
<1>3. PICK S, T : S = DirtyEntries(j, n, a) /\ T = DirtyEntries(k, n + 1, a)
  OBVIOUS
<1>4. n + 1 \notin S /\ T = IF Dirtied(e) = a THEN S \cup {n + 1} ELSE S
  BY <1>2, <1>3 DEF DirtyEntries
<1>5. IsFiniteSet(S) /\ Cardinality(S) \in Nat
  <2>1. IsFiniteSet(1 .. n) /\ S \subseteq 1 .. n
    BY <1>2, <1>3, FS_Interval DEF DirtyEntries
  <2>2. QED
    BY <2>1, FS_Subset, FS_CardinalityType
<1>6. Cardinality(T) = IF Dirtied(e) = a THEN Cardinality(S) + 1 ELSE Cardinality(S)
  BY <1>4, <1>5, FS_AddElement
<1>7. s.dirties[a] = Cardinality(S)
  BY <1>1, <1>3 DEF CountsAt
<1>8. t.dirties[a] = IF Dirtied(e) = a THEN s.dirties[a] + 1 ELSE s.dirties[a]
  <2>1. s.dirties \in [Addr -> Int]
    BY DEF Db
  <2>2. CASE e.type \in DirtyTypes
    <3>1. Dirtied(e) = e.account /\ e.account \in Addr
      BY <2>2, DirtiedBy
    <3>2. QED
      BY <2>1, <2>2, <3>1 DEF Journaled
  <2>3. CASE e.type \notin DirtyTypes
    <3>1. Dirtied(e) # a
      BY <2>3, DirtiedBy, MissingAssumption
    <3>2. QED
      BY <2>3, <3>1 DEF Journaled
  <2>4. QED
    BY <2>2, <2>3
<1>9. QED
  BY <1>1, <1>2, <1>3, <1>6, <1>7, <1>8

\* A write that appends the entry to undo it continues the state.
LEMMA JournaledContinues ==
    ASSUME NEW s \in Db, NEW t \in Db, NEW e \in Entry, Journaled(s, t, e)
    PROVE  Continues(s, t)
<1>1. PICK n, j, k : n = Len(s.journal) /\ j = s.journal /\ k = t.journal
  OBVIOUS
<1>2. /\ n \in Nat /\ j \in Seq(Entry) /\ Len(k) = n + 1 /\ k[n + 1] = e
      /\ \A i \in 1 .. n : k[i] = j[i]
  BY <1>1 DEF Db, Journaled
<1>3. ASSUME NEW c, History(s, c)
      PROVE  \E d : History(t, d) /\ \A i \in 0 .. n : d[i] = c[i]
  <2>1. PICK d : d = [i \in 0 .. n + 1 |-> IF i <= n THEN c[i] ELSE t]
    OBVIOUS
  <2>2. d[n + 1] = t /\ \A i \in 0 .. n : d[i] = c[i]
    BY <1>2, <2>1
  <2>3. \A i \in 0 .. n + 1 : d[i] \in Db
    BY <1>1, <1>2, <1>3, <2>1 DEF History
  <2>4. Covers(t, d[n + 1])
    BY <2>2, CoversReflexive
  <2>5. ASSUME NEW i \in 1 .. n + 1 PROVE Covers(Undo(k[i], d[i]), d[i - 1])
    <3>1. CASE i = n + 1
      <4>1. Covers(Undo(e, t), s) /\ Covers(s, c[n])
        BY <1>1, <1>3 DEF Journaled, History
      <4>2. d[i - 1] = c[n] /\ k[i] = e /\ d[i] = t
        BY <1>2, <2>2, <3>1
      <4>3. QED
        BY <4>1, <4>2, CoversTransitive
    <3>2. CASE i \in 1 .. n
      <4>1. i \in 0 .. n /\ i - 1 \in 0 .. n /\ k[i] = j[i]
        BY <1>2, <3>2
      <4>2. Covers(Undo(j[i], c[i]), c[i - 1])
        BY <1>1, <1>3, <3>2 DEF History
      <4>3. QED
        BY <2>2, <4>1, <4>2
    <3>3. QED
      BY <1>2, <3>1, <3>2
  <2>6. History(t, d)
    BY <1>1, <1>2, <2>3, <2>4, <2>5 DEF History
  <2>7. QED
    BY <2>2, <2>6
<1>4. t.validRevisions = s.validRevisions /\ t.nextRevisionID = s.nextRevisionID
  BY DEF Journaled
<1>5. n <= Len(k)
  BY <1>2
<1>6. QED
  BY <1>1, <1>2, <1>3, <1>4, <1>5, OneMoreCounted DEF Continues

\* A new object for an account that is missing.
LEMMA Created ==
    ASSUME store \in Store, NEW s \in Db, NEW a \in Addr, ~Exist(s, a)
    PROVE  /\ createObject(s, a) \in Db /\ Continues(s, createObject(s, a))
           /\ getStateObject(createObject(s, a), a) = newObject(NewAccount)
           /\ createObject(s, a).objs = [s.objs EXCEPT ![a] = newObject(NewAccount)]
           /\ createObject(s, a).dirties = [s.dirties EXCEPT ![a] = @ + 1]
           /\ \A b \in Addr : b # a => getStateObject(createObject(s, a), b) = getStateObject(s, b)
           /\ createObject(s, a).cache = s.cache /\ createObject(s, a).panic = s.panic
           /\ createObject(s, a).logs = s.logs /\ createObject(s, a).accessList = s.accessList
           /\ createObject(s, a).precompileCallsCounter = s.precompileCallsCounter
           /\ Len(createObject(s, a).journal) = Len(s.journal) + 1
<1>1. PICK e : e = [type |-> "createObject", account |-> a]
  OBVIOUS
<1>2. e \in Entry /\ e.type = "createObject" /\ e.account = a /\ e.type \in DirtyTypes
  BY <1>1 DEF Entry, DirtyTypes
<1>3. PICK o : o = newObject(NewAccount)
  OBVIOUS
<1>4. NewAccount \in Account
  BY DEF NewAccount, Account
<1>5. o \in Object /\ o # Missing
  BY <1>3, <1>4, NewObjectType, ObjectFields
<1>6. PICK r, t : r = append(s, e) /\ t = setStateObject(r, a, o)
  OBVIOUS
<1>7. createObject(s, a) = t
  BY <1>1, <1>3, <1>6 DEF createObject, Exist
<1>8. /\ r \in Db /\ r.journal = Append(s.journal, e) /\ r.dirties = [s.dirties EXCEPT ![a] = @ + 1]
      /\ r.objs = s.objs /\ r.refund = s.refund /\ r.logs = s.logs
      /\ r.transient = s.transient /\ r.accessList = s.accessList
      /\ r.cache = s.cache /\ r.panic = s.panic /\ r.validRevisions = s.validRevisions
      /\ r.nextRevisionID = s.nextRevisionID
      /\ r.precompileCallsCounter = s.precompileCallsCounter
  BY <1>2, <1>6, AppendFields
<1>9. /\ t \in Db /\ t.objs = [r.objs EXCEPT ![a] = o] /\ getStateObject(t, a) = o
      /\ \A b \in Addr : b # a => getStateObject(t, b) = getStateObject(r, b)
      /\ RestSame(t, r) /\ t.journal = r.journal /\ t.validRevisions = r.validRevisions
      /\ t.nextRevisionID = r.nextRevisionID
      /\ t.precompileCallsCounter = r.precompileCallsCounter /\ t.cache = r.cache
  BY <1>5, <1>6, <1>8, SetObject
<1>10. /\ t.dirties = [s.dirties EXCEPT ![a] = @ + 1] /\ t.refund = s.refund /\ t.logs = s.logs
       /\ t.transient = s.transient /\ t.accessList = s.accessList /\ t.panic = s.panic
  BY <1>8, <1>9 DEF RestSame
<1>11. \A b \in Addr : getStateObject(r, b) = getStateObject(s, b)
  BY <1>8 DEF getStateObject
<1>12. s.objs[a] = Missing /\ s.objs \in [Addr -> Object \cup {Missing}] /\ s.dirties \in [Addr -> Int]
  BY DEF Exist, getStateObject, Db
<1>13. PICK u : u = Undo(e, t)
  OBVIOUS
<1>14. FieldsUndone(e, t, u, UndoneDirties(e, t))
  BY <1>2, <1>9, <1>13, UndoFields
<1>15. ~UndoPanics(e, t)
  BY <1>2 DEF UndoPanics, ObjectTypes
<1>16. u.objs = s.objs
  BY <1>2, <1>8, <1>9, <1>12, <1>14 DEF FieldsUndone, UndoneObjs
<1>17. u.dirties = s.dirties
  BY <1>2, <1>10, <1>12, <1>14 DEF FieldsUndone, UndoneDirties
<1>18. RestSame(u, s)
  BY <1>2, <1>8, <1>9, <1>10, <1>14, <1>15, <1>17
     DEF FieldsUndone, UndoneAccess, UndoneTransient, UndoneCache, RestSame, Db
<1>19. Covers(u, s)
  <2>1. \A b \in Addr : getStateObject(u, b) = getStateObject(s, b)
    BY <1>16 DEF getStateObject
  <2>2. QED
    BY <1>16, <1>18, <2>1 DEF Covers, AccountCovers, ObjectCovers, Exist
<1>20. Journaled(s, t, e)
  BY <1>2, <1>8, <1>9, <1>10, <1>13, <1>19 DEF Journaled
<1>21. Continues(s, t)
  BY <1>2, <1>9, <1>20, JournaledContinues
<1>22. Len(t.journal) = Len(s.journal) + 1
  BY <1>8, <1>9 DEF Db
<1>23. QED
  BY <1>3, <1>7, <1>8, <1>9, <1>10, <1>11, <1>21, <1>22

\* The object of an account is changed, by a write that an entry undoes.
LEMMA Written ==
    ASSUME store \in Store, NEW s \in Db, NEW a \in Addr, Exist(s, a), NEW o \in Object,
           NEW e \in Entry, e.type \in ObjectTypes, e.account = a,
           ObjectCovers(a, Restored(e, o), getStateObject(s, a)),
           NEW t, t = setStateObject(append(s, e), a, o)
    PROVE  /\ t \in Db /\ Continues(s, t) /\ getStateObject(t, a) = o
           /\ t.objs = [s.objs EXCEPT ![a] = o]
           /\ t.dirties = IF e.type \in DirtyTypes THEN [s.dirties EXCEPT ![a] = @ + 1] ELSE s.dirties
           /\ \A b \in Addr : b # a => getStateObject(t, b) = getStateObject(s, b)
           /\ t.cache = s.cache /\ t.panic = s.panic /\ t.logs = s.logs /\ t.accessList = s.accessList
           /\ t.precompileCallsCounter = s.precompileCallsCounter
           /\ Len(t.journal) = Len(s.journal) + 1
<1>1. o # Missing
  BY ObjectFields
<1>2. PICK r : r = append(s, e)
  OBVIOUS
<1>3. /\ r \in Db /\ r.journal = Append(s.journal, e)
      /\ r.dirties = IF e.type \in DirtyTypes THEN [s.dirties EXCEPT ![a] = @ + 1] ELSE s.dirties
      /\ r.objs = s.objs /\ r.refund = s.refund /\ r.logs = s.logs
      /\ r.transient = s.transient /\ r.accessList = s.accessList
      /\ r.cache = s.cache /\ r.panic = s.panic /\ r.validRevisions = s.validRevisions
      /\ r.nextRevisionID = s.nextRevisionID
      /\ r.precompileCallsCounter = s.precompileCallsCounter
  BY <1>2, AppendFields
<1>4. /\ t \in Db /\ t.objs = [r.objs EXCEPT ![a] = o] /\ getStateObject(t, a) = o
      /\ \A b \in Addr : b # a => getStateObject(t, b) = getStateObject(r, b)
      /\ RestSame(t, r) /\ t.journal = r.journal /\ t.validRevisions = r.validRevisions
      /\ t.nextRevisionID = r.nextRevisionID
      /\ t.precompileCallsCounter = r.precompileCallsCounter /\ t.cache = r.cache
  BY <1>2, <1>3, SetObject
<1>5. /\ t.dirties = r.dirties /\ t.refund = s.refund /\ t.logs = s.logs
      /\ t.transient = s.transient /\ t.accessList = s.accessList /\ t.panic = s.panic
  BY <1>3, <1>4 DEF RestSame
<1>6. \A b \in Addr : getStateObject(r, b) = getStateObject(s, b)
  BY <1>3 DEF getStateObject
<1>7. s.objs \in [Addr -> Object \cup {Missing}] /\ s.dirties \in [Addr -> Int]
  BY DEF Db
<1>8. PICK u, x : u = Undo(e, t) /\ x = Restored(e, o)
  OBVIOUS
<1>9. FieldsUndone(e, t, u, UndoneDirties(e, t))
  BY <1>4, <1>8, UndoFields
<1>10. Exist(t, a) /\ ~UndoPanics(e, t)
  BY <1>1, <1>4 DEF Exist, UndoPanics, ObjectTypes
<1>11. x \in Object /\ x # Missing
  BY <1>8, RestoredFields, ObjectFields
<1>12. u.objs = [s.objs EXCEPT ![a] = x]
  BY <1>3, <1>4, <1>7, <1>8, <1>9, <1>10 DEF FieldsUndone, UndoneObjs, ObjectTypes
<1>13. u.dirties = s.dirties
  <2>1. u.dirties = IF e.type \in DirtyTypes THEN [t.dirties EXCEPT ![a] = @ - 1] ELSE t.dirties
    BY <1>9 DEF FieldsUndone, UndoneDirties
  <2>2. CASE e.type \in DirtyTypes
    <3>1. t.dirties = [s.dirties EXCEPT ![a] = @ + 1] /\ u.dirties = [t.dirties EXCEPT ![a] = @ - 1]
      BY <1>3, <1>5, <2>1, <2>2
    <3>2. s.dirties[a] + 1 - 1 = s.dirties[a]
      BY <1>7
    <3>3. QED
      BY <1>7, <3>1, <3>2
  <2>3. QED
    BY <1>3, <1>5, <2>1, <2>2
<1>14. RestSame(u, s)
  BY <1>3, <1>4, <1>5, <1>9, <1>10, <1>13
     DEF FieldsUndone, UndoneAccess, UndoneTransient, UndoneCache, RestSame, Db, ObjectTypes
<1>15. Covers(u, s)
  <2>1. ASSUME NEW b \in Addr PROVE AccountCovers(u, s, b)
    <3>1. CASE b = a
      <4>1. u.objs[a] = x
        BY <1>7, <1>12
      <4>2. getStateObject(u, a) = x
        BY <1>11, <4>1 DEF getStateObject
      <4>3. QED
        BY <1>8, <1>11, <3>1, <4>1, <4>2 DEF AccountCovers, Exist
    <3>2. CASE b # a
      <4>1. u.objs[b] = s.objs[b]
        BY <1>7, <1>12, <3>2
      <4>2. getStateObject(u, b) = getStateObject(s, b)
        BY <4>1 DEF getStateObject
      <4>3. QED
        BY <4>1, <4>2 DEF AccountCovers, ObjectCovers, Exist
    <3>3. QED
      BY <3>1, <3>2
  <2>2. QED
    BY <1>14, <2>1 DEF Covers
<1>16. Journaled(s, t, e)
  BY <1>3, <1>4, <1>5, <1>8, <1>15 DEF Journaled
<1>17. Continues(s, t)
  BY <1>4, <1>16, JournaledContinues
<1>18. Len(t.journal) = Len(s.journal) + 1
  BY <1>3, <1>4 DEF Db
<1>19. QED
  BY <1>3, <1>4, <1>5, <1>6, <1>17, <1>18

(***************************************************************************)
(* The object of one account is replaced by o, which makes it dirty.       *)
(***************************************************************************)
Dirties(s, t, a, o) ==
    /\ t \in Db /\ o \in Object /\ Continues(s, t)
    /\ t.objs = [s.objs EXCEPT ![a] = o]
    /\ \E m \in Nat \ {0} : t.dirties = [s.dirties EXCEPT ![a] = @ + m]
    /\ \A k \in Slot : Loaded(s, a, k) => k \in DOMAIN o.dirty
    /\ t.cache = s.cache /\ t.panic = s.panic /\ t.logs = s.logs /\ t.accessList = s.accessList
    /\ t.precompileCallsCounter = s.precompileCallsCounter

\* The account's object is the one written, the others are as they were.
LEMMA DirtiesObjects ==
    ASSUME store \in Store, NEW s \in Db, NEW a \in Addr, NEW t, NEW o, Dirties(s, t, a, o)
    PROVE  /\ t.objs[a] = o /\ o # Missing /\ Exist(t, a) /\ getStateObject(t, a) = o
           /\ t.dirties[a] \in Int /\ s.dirties[a] \in Int /\ t.dirties[a] > s.dirties[a]
           /\ \A b \in Addr : b # a => /\ t.objs[b] = s.objs[b] /\ t.dirties[b] = s.dirties[b]
                                       /\ getStateObject(t, b) = getStateObject(s, b)
<1>1. s.objs \in [Addr -> Object \cup {Missing}] /\ s.dirties \in [Addr -> Int]
  BY DEF Db
<1>2. o \in Object /\ t.objs = [s.objs EXCEPT ![a] = o]
  BY DEF Dirties
<1>3. t.objs[a] = o /\ \A b \in Addr : b # a => t.objs[b] = s.objs[b]
  BY <1>1, <1>2
<1>4. PICK m \in Nat \ {0} : t.dirties = [s.dirties EXCEPT ![a] = @ + m]
  BY DEF Dirties
<1>5. t.dirties[a] = s.dirties[a] + m /\ s.dirties[a] \in Int /\ \A b \in Addr : b # a => t.dirties[b] = s.dirties[b]
  BY <1>1, <1>4
<1>6. t.dirties[a] \in Int /\ t.dirties[a] > s.dirties[a]
  BY <1>4, <1>5
<1>7. o # Missing
  BY <1>2, ObjectFields
<1>8. getStateObject(t, a) = o /\ Exist(t, a)
  BY <1>3, <1>7 DEF getStateObject, Exist
<1>9. \A b \in Addr : b # a => getStateObject(t, b) = getStateObject(s, b)
  BY <1>3 DEF getStateObject
<1>10. QED
  BY <1>3, <1>5, <1>6, <1>7, <1>8, <1>9

\* Two writes to one account.
LEMMA DirtiesTwice ==
    ASSUME store \in Store, NEW s \in Db, NEW a \in Addr, NEW t, NEW u, NEW o, NEW p,
           Dirties(s, t, a, o), Dirties(t, u, a, p)
    PROVE  Dirties(s, u, a, p)
<1>1. t \in Db /\ u \in Db /\ p \in Object
  BY DEF Dirties
<1>2. Continues(s, u)
  BY <1>1, ContinuesTransitive DEF Dirties
<1>3. s.objs \in [Addr -> Object \cup {Missing}] /\ s.dirties \in [Addr -> Int]
  BY DEF Db
<1>4. u.objs = [s.objs EXCEPT ![a] = p]
  <2>1. t.objs = [s.objs EXCEPT ![a] = o] /\ u.objs = [t.objs EXCEPT ![a] = p]
    BY DEF Dirties
  <2>2. QED
    BY <1>3, <2>1
<1>5. \E m \in Nat \ {0} : u.dirties = [s.dirties EXCEPT ![a] = @ + m]
  <2>1. PICK m \in Nat \ {0} : t.dirties = [s.dirties EXCEPT ![a] = @ + m]
    BY DEF Dirties
  <2>2. PICK n \in Nat \ {0} : u.dirties = [t.dirties EXCEPT ![a] = @ + n]
    BY DEF Dirties
  <2>3. m + n \in Nat \ {0} /\ (s.dirties[a] + m) + n = s.dirties[a] + (m + n)
    BY <1>3, <2>1, <2>2
  <2>4. t.dirties[a] = s.dirties[a] + m /\ DOMAIN t.dirties = Addr
    BY <1>3, <2>1
  <2>5. u.dirties = [s.dirties EXCEPT ![a] = s.dirties[a] + (m + n)]
    BY <1>3, <2>1, <2>2, <2>3, <2>4
  <2>6. QED
    BY <2>3, <2>5
<1>6. \A k \in Slot : Loaded(s, a, k) => k \in DOMAIN p.dirty
  <2>1. t.objs[a] = o /\ o # Missing
    BY DirtiesObjects
  <2>2. \A k \in Slot : k \in DOMAIN o.dirty => Loaded(t, a, k)
    BY <2>1 DEF Loaded
  <2>3. QED
    BY <2>2 DEF Dirties
<1>7. QED
  BY <1>1, <1>2, <1>4, <1>5, <1>6 DEF Dirties

\* Good but for the accounts in X, which may differ in the cache context although nothing
\* makes them dirty yet.
GoodBut(s, X) ==
    /\ ~s.panic /\ s.logs \in Nat /\ AccessSound(s.accessList)
    /\ \A a \in Addr :
          /\ s.dirties[a] \in Nat
          /\ s.dirties[a] > 0 => s.objs[a] # Missing
          /\ Exist(s, a) /\ getStateObject(s, a).destructed => s.dirties[a] > 0
    /\ \A a \in Addr \ Blocked :
          /\ a \notin X /\ s.dirties[a] = 0 =>
                /\ Current(s).acct[a] = IF Exist(s, a) THEN getStateObject(s, a).account ELSE Missing
                /\ \A k \in Slot : Current(s).storage[a][k] = GetState(s, a, k)
          /\ \A k \in Slot : ~Loaded(s, a, k) => Current(s).storage[a][k] = store.storage[a][k]

\* Synced does not speak of blocked accounts.
LEMMA GoodButNone ==
    ASSUME NEW s, NEW X, X \subseteq Blocked
    PROVE  GoodBut(s, X) <=> Good(s)
BY DEF GoodBut, Good, Synced

\* Once the account is dirty, it no longer matters what the cache context has of it.
LEMMA DirtiesGoodBut ==
    ASSUME store \in Store, NEW s \in Db, NEW a \in Addr, NEW t, NEW o, Dirties(s, t, a, o),
           NEW X, GoodBut(s, X)
    PROVE  GoodBut(t, X \ {a})
<1>1. /\ t.objs[a] = o /\ o # Missing /\ Exist(t, a) /\ getStateObject(t, a) = o
      /\ t.dirties[a] \in Int /\ s.dirties[a] \in Int /\ t.dirties[a] > s.dirties[a]
      /\ \A b \in Addr : b # a => /\ t.objs[b] = s.objs[b] /\ t.dirties[b] = s.dirties[b]
                                  /\ getStateObject(t, b) = getStateObject(s, b)
  BY DirtiesObjects
<1>2. Current(t) = Current(s)
  BY DEF Dirties, Current
<1>3. s.dirties[a] \in Nat
  BY DEF GoodBut
<1>4. t.dirties[a] \in Nat /\ t.dirties[a] > 0
  BY <1>1, <1>3
<1>5. ASSUME NEW b \in Addr
      PROVE  /\ t.dirties[b] \in Nat
             /\ t.dirties[b] > 0 => t.objs[b] # Missing
             /\ Exist(t, b) /\ getStateObject(t, b).destructed => t.dirties[b] > 0
  <2>1. CASE b = a
    BY <1>1, <1>4, <2>1
  <2>2. CASE b # a
    BY <1>1, <2>2 DEF GoodBut, Exist
  <2>3. QED
    BY <2>1, <2>2
<1>6. ASSUME NEW b \in Addr \ Blocked
      PROVE  /\ b \notin X \ {a} /\ t.dirties[b] = 0 =>
                   /\ Current(t).acct[b] = IF Exist(t, b) THEN getStateObject(t, b).account ELSE Missing
                   /\ \A k \in Slot : Current(t).storage[b][k] = GetState(t, b, k)
             /\ \A k \in Slot : ~Loaded(t, b, k) => Current(t).storage[b][k] = store.storage[b][k]
  <2>1. CASE b = a
    <3>1. t.dirties[b] # 0
      BY <1>4, <2>1
    <3>2. \A k \in Slot : ~Loaded(t, a, k) => ~Loaded(s, a, k)
      BY <1>1 DEF Loaded, Dirties
    <3>3. QED
      BY <1>2, <2>1, <3>1, <3>2 DEF GoodBut
  <2>2. CASE b # a
    <3>1. getStateObject(t, b) = getStateObject(s, b) /\ t.objs[b] = s.objs[b] /\ t.dirties[b] = s.dirties[b]
      BY <1>1, <2>2
    <3>2. \A k \in Slot : GetState(t, b, k) = GetState(s, b, k) /\ (Loaded(t, b, k) <=> Loaded(s, b, k))
      BY <3>1 DEF GetState, Loaded
    <3>3. QED
      BY <1>2, <2>2, <3>1, <3>2 DEF GoodBut, Exist
  <2>3. QED
    BY <2>1, <2>2
<1>7. QED
  BY <1>5, <1>6 DEF Dirties, GoodBut

\* Objects and cache context agree after such a write.
LEMMA DirtiesGood ==
    ASSUME store \in Store, NEW s \in Db, NEW a \in Addr, NEW t, NEW o, Dirties(s, t, a, o), Good(s)
    PROVE  Good(t)
<1>1. GoodBut(s, {})
  BY GoodButNone
<1>2. GoodBut(t, {} \ {a})
  BY <1>1, DirtiesGoodBut
<1>3. QED
  BY <1>2, GoodButNone

\* A new object makes its account dirty.
LEMMA CreatedDirties ==
    ASSUME store \in Store, NEW s \in Db, NEW a \in Addr, ~Exist(s, a)
    PROVE  Dirties(s, createObject(s, a), a, newObject(NewAccount))
<1>1. newObject(NewAccount) \in Object
  <2>1. NewAccount \in Account
    BY DEF NewAccount, Account
  <2>2. QED
    BY <2>1, NewObjectType
<1>2. \A k \in Slot : ~Loaded(s, a, k)
  BY DEF Exist, getStateObject, Loaded
<1>3. \E m \in Nat \ {0} : createObject(s, a).dirties = [s.dirties EXCEPT ![a] = @ + m]
  <2>1. createObject(s, a).dirties = [s.dirties EXCEPT ![a] = @ + 1]
    BY Created
  <2>2. 1 \in Nat \ {0}
    OBVIOUS
  <2>3. QED
    BY <2>1, <2>2
<1>4. QED
  BY <1>1, <1>2, <1>3, Created DEF Dirties

\* A write to an object, undone by an entry that makes dirty.
LEMMA WrittenDirties ==
    ASSUME store \in Store, NEW s \in Db, NEW a \in Addr, Exist(s, a), NEW o \in Object,
           NEW e \in Entry, e.type \in ObjectTypes, e.type \in DirtyTypes, e.account = a,
           ObjectCovers(a, Restored(e, o), getStateObject(s, a)),
           DOMAIN getStateObject(s, a).dirty \subseteq DOMAIN o.dirty
    PROVE  Dirties(s, setStateObject(append(s, e), a, o), a, o)
<1>1. PICK t : t = setStateObject(append(s, e), a, o)
  OBVIOUS
<1>2. /\ t \in Db /\ Continues(s, t) /\ getStateObject(t, a) = o
      /\ t.objs = [s.objs EXCEPT ![a] = o]
      /\ t.dirties = [s.dirties EXCEPT ![a] = @ + 1]
      /\ t.cache = s.cache /\ t.panic = s.panic /\ t.logs = s.logs /\ t.accessList = s.accessList
      /\ t.precompileCallsCounter = s.precompileCallsCounter
  BY <1>1, Written
<1>3. \A k \in Slot : Loaded(s, a, k) => k \in DOMAIN o.dirty
  BY DEF Loaded, getStateObject
<1>4. QED
  BY <1>1, <1>2, <1>3 DEF Dirties

(***************************************************************************)
(* The setters of one account.                                             *)
(***************************************************************************)
\* The object is made first if it is missing.
LEMMA GetOrNew ==
    ASSUME store \in Store, NEW s \in Db, NEW a \in Addr
    PROVE  /\ getOrNew(s, a) \in Db /\ Exist(getOrNew(s, a), a)
           /\ getStateObject(getOrNew(s, a), a) =
                 IF Exist(s, a) THEN getStateObject(s, a) ELSE newObject(NewAccount)
           /\ getOrNew(s, a) = s \/ Dirties(s, getOrNew(s, a), a, newObject(NewAccount))
<1>1. CASE Exist(s, a)
  BY <1>1 DEF getOrNew
<1>2. CASE ~Exist(s, a)
  <2>1. getOrNew(s, a) = createObject(s, a)
    BY <1>2 DEF getOrNew
  <2>2. Dirties(s, createObject(s, a), a, newObject(NewAccount))
    BY <1>2, CreatedDirties
  <2>3. /\ createObject(s, a) \in Db /\ Exist(createObject(s, a), a)
        /\ getStateObject(createObject(s, a), a) = newObject(NewAccount)
    <3>1. createObject(s, a) \in Db
      BY <2>2 DEF Dirties
    <3>2. QED
      BY <2>2, <3>1, DirtiesObjects
  <2>4. QED
    BY <1>2, <2>1, <2>2, <2>3
<1>3. QED
  BY <1>1, <1>2

\* A write after the object was made if missing.
LEMMA ThenWrites ==
    ASSUME store \in Store, NEW s \in Db, NEW a \in Addr, NEW u, NEW o,
           Dirties(getOrNew(s, a), u, a, o)
    PROVE  Dirties(s, u, a, o)
<1>1. getOrNew(s, a) = s \/ Dirties(s, getOrNew(s, a), a, newObject(NewAccount))
  BY GetOrNew
<1>2. QED
  BY <1>1, DirtiesTwice

\* What is read after append is what was read before.
LEMMA AppendReads ==
    ASSUME NEW s \in Db, NEW e \in Entry
    PROVE  \A a : getStateObject(append(s, e), a) = getStateObject(s, a)
<1>1. append(s, e).objs = s.objs
  BY AppendFields
<1>2. QED
  BY <1>1 DEF getStateObject

\* The object with another account.
WithAccount(o, account) == [o EXCEPT !.account = account]

\* The fields of an object with another account.
LEMMA WithAccountFields ==
    ASSUME NEW o \in Object, NEW account \in Account
    PROVE  /\ WithAccount(o, account) \in Object /\ WithAccount(o, account).account = account
           /\ WithAccount(o, account).dirty = o.dirty /\ WithAccount(o, account).destructed = o.destructed
           /\ WithAccount(o, account).newContract = o.newContract
BY DEF WithAccount, Object

\* An entry for a field of the account, then the account with that field changed.
LEMMA AccountWrites ==
    ASSUME store \in Store, NEW s \in Db, NEW a \in Addr, Exist(s, a), NEW g, g = getStateObject(s, a),
           NEW b \in Account, NEW e \in Entry, e.type \in {"balance", "nonce", "code"}, e.account = a,
           g.account = IF e.type = "balance" THEN [b EXCEPT !.bal = e.prev]
                       ELSE IF e.type = "nonce" THEN [b EXCEPT !.nonce = e.prev]
                       ELSE [b EXCEPT !.code = e.prev]
    PROVE  /\ g \in Object
           /\ Dirties(s, setStateObject(append(s, e), a, WithAccount(g, b)), a, WithAccount(g, b))
<1>1. g \in Object
  BY GetObject DEF Exist
<1>2. PICK o : o = WithAccount(g, b)
  OBVIOUS
<1>3. /\ o \in Object /\ o.account = b /\ o.dirty = g.dirty /\ o.destructed = g.destructed
      /\ o.newContract = g.newContract
  BY <1>1, <1>2, WithAccountFields
<1>4. e.type \in ObjectTypes /\ e.type \in DirtyTypes
  BY DEF ObjectTypes, DirtyTypes
<1>5. ObjectCovers(a, Restored(e, o), g)
  <2> DEFINE old(q) == IF e.type = "balance" THEN [q EXCEPT !.bal = e.prev]
                       ELSE IF e.type = "nonce" THEN [q EXCEPT !.nonce = e.prev]
                       ELSE [q EXCEPT !.code = e.prev]
  <2>1. /\ Restored(e, o).account = old(o.account) /\ Restored(e, o).dirty = o.dirty
        /\ Restored(e, o).destructed = o.destructed /\ Restored(e, o).newContract = o.newContract
    BY <1>3, <1>4, RestoredFields
  <2>2. old(o.account) = old(b) /\ g.account = old(b)
    BY <1>3, Zenon
  <2> HIDE DEF old
  <2>3. QED
    BY <1>3, <2>1, <2>2 DEF ObjectCovers, SlotValue
<1>6. Dirties(s, setStateObject(append(s, e), a, o), a, o)
  BY <1>3, <1>4, <1>5, WrittenDirties
<1>7. QED
  BY <1>1, <1>2, <1>6

\* SetBalance writes the balance alone.
LEMMA SetBalanceWrites ==
    ASSUME store \in Store, NEW s \in Db, NEW a \in Addr, Exist(s, a), NEW n \in Nat
    PROVE  Dirties(s, SetBalance(s, a, n), a,
                   WithAccount(getStateObject(s, a), [getStateObject(s, a).account EXCEPT !.bal = n]))
<1>1. PICK g : g = getStateObject(s, a)
  OBVIOUS
<1>2. g \in Object
  BY <1>1, GetObject DEF Exist
<1>3. g.account \in Account
  BY <1>2, ObjectFields
<1>4. PICK b, e : /\ b = [g.account EXCEPT !.bal = n]
                  /\ e = [type |-> "balance", account |-> a, prev |-> g.account.bal]
  OBVIOUS
<1>5. /\ b \in Account /\ [b EXCEPT !.bal = e.prev] = g.account
      /\ e \in Entry /\ e.type = "balance" /\ e.account = a
  BY <1>3, <1>4 DEF Account, Entry
<1>6. SetBalance(s, a, n) = setStateObject(append(s, e), a, WithAccount(g, b))
  <2>1. getStateObject(append(s, e), a) = g
    BY <1>1, <1>5, AppendReads
  <2>2. SetBalance(s, a, n) = setStateObject(append(s, e), a, [getStateObject(append(s, e), a) EXCEPT !.account.bal = n])
    BY <1>1, <1>4 DEF SetBalance, Write
  <2>3. [g EXCEPT !.account.bal = n] = WithAccount(g, b)
    BY <1>2, <1>4 DEF WithAccount, Object
  <2>4. QED
    BY <2>1, <2>2, <2>3
<1>7. Dirties(s, setStateObject(append(s, e), a, WithAccount(g, b)), a, WithAccount(g, b))
  BY <1>1, <1>5, AccountWrites
<1>8. QED
  BY <1>1, <1>4, <1>6, <1>7

\* SetNonce makes the account dirty.
LEMMA SetNonceWrites ==
    ASSUME store \in Store, NEW s \in Db, NEW a \in Addr, NEW n \in Nat
    PROVE  \E o : Dirties(s, SetNonce(s, a, n), a, o)
<1>1. PICK t, g : t = getOrNew(s, a) /\ g = getStateObject(t, a)
  OBVIOUS
<1>2. t \in Db /\ Exist(t, a)
  BY <1>1, GetOrNew
<1>3. g \in Object
  BY <1>1, <1>2, GetObject DEF Exist
<1>4. g.account \in Account
  BY <1>3, ObjectFields
<1>5. PICK b, e : /\ b = [g.account EXCEPT !.nonce = n]
                  /\ e = [type |-> "nonce", account |-> a, prev |-> g.account.nonce]
  OBVIOUS
<1>6. /\ b \in Account /\ [b EXCEPT !.nonce = e.prev] = g.account
      /\ e \in Entry /\ e.type = "nonce" /\ e.account = a
  BY <1>4, <1>5 DEF Account, Entry
<1>7. SetNonce(s, a, n) = setStateObject(append(t, e), a, WithAccount(g, b))
  <2>1. getStateObject(append(t, e), a) = g
    BY <1>1, <1>2, <1>6, AppendReads
  <2>2. SetNonce(s, a, n) = setStateObject(append(t, e), a, [getStateObject(append(t, e), a) EXCEPT !.account.nonce = n])
    BY <1>1, <1>5 DEF SetNonce, Write
  <2>3. [g EXCEPT !.account.nonce = n] = WithAccount(g, b)
    BY <1>3, <1>5 DEF WithAccount, Object
  <2>4. QED
    BY <2>1, <2>2, <2>3
<1>8. Dirties(t, setStateObject(append(t, e), a, WithAccount(g, b)), a, WithAccount(g, b))
  BY <1>1, <1>2, <1>6, AccountWrites
<1>9. QED
  BY <1>1, <1>7, <1>8, ThenWrites

\* SetCode makes the account dirty.
LEMMA SetCodeWrites ==
    ASSUME store \in Store, NEW s \in Db, NEW a \in Addr, NEW c \in Code
    PROVE  \E o : Dirties(s, SetCode(s, a, c), a, o)
<1>1. PICK t, g : t = getOrNew(s, a) /\ g = getStateObject(t, a)
  OBVIOUS
<1>2. t \in Db /\ Exist(t, a)
  BY <1>1, GetOrNew
<1>3. g \in Object
  BY <1>1, <1>2, GetObject DEF Exist
<1>4. g.account \in Account
  BY <1>3, ObjectFields
<1>5. PICK b, e : /\ b = [g.account EXCEPT !.code = c]
                  /\ e = [type |-> "code", account |-> a, prev |-> g.account.code]
  OBVIOUS
<1>6. /\ b \in Account /\ [b EXCEPT !.code = e.prev] = g.account
      /\ e \in Entry /\ e.type = "code" /\ e.account = a
  BY <1>4, <1>5 DEF Account, Entry
<1>7. SetCode(s, a, c) = setStateObject(append(t, e), a, WithAccount(g, b))
  <2>1. getStateObject(append(t, e), a) = g
    BY <1>1, <1>2, <1>6, AppendReads
  <2>2. SetCode(s, a, c) = setStateObject(append(t, e), a, [getStateObject(append(t, e), a) EXCEPT !.account.code = c])
    BY <1>1, <1>5 DEF SetCode, Write
  <2>3. [g EXCEPT !.account.code = c] = WithAccount(g, b)
    BY <1>3, <1>5 DEF WithAccount, Object
  <2>4. QED
    BY <2>1, <2>2, <2>3
<1>8. Dirties(t, setStateObject(append(t, e), a, WithAccount(g, b)), a, WithAccount(g, b))
  BY <1>1, <1>2, <1>6, AccountWrites
<1>9. QED
  BY <1>1, <1>7, <1>8, ThenWrites

\* The object with another balance.
WithBalance(o, n) == WithAccount(o, [o.account EXCEPT !.bal = n])

\* AddBalance and SubBalance write the balance of the object, made first if it is missing.
LEMMA AddBalanceWrites ==
    ASSUME store \in Store, NEW s \in Db, NEW a \in Addr, NEW n \in Nat, n # 0, NEW g,
           g = getStateObject(getOrNew(s, a), a)
    PROVE  Dirties(s, AddBalance(s, a, n), a, WithBalance(g, g.account.bal + n))
<1>1. PICK t : t = getOrNew(s, a)
  OBVIOUS
<1>2. t \in Db /\ Exist(t, a) /\ g = getStateObject(t, a)
  BY <1>1, GetOrNew
<1>3. g \in Object
  BY <1>2, GetObject DEF Exist
<1>4. g.account \in Account
  BY <1>3, ObjectFields
<1>5. g.account.bal + n \in Nat
  BY <1>4 DEF Account
<1>6. Dirties(t, SetBalance(t, a, g.account.bal + n), a, WithBalance(g, g.account.bal + n))
  BY <1>2, <1>5, SetBalanceWrites DEF WithBalance
<1>7. AddBalance(s, a, n) = SetBalance(t, a, g.account.bal + n)
  BY <1>1, <1>2 DEF AddBalance
<1>8. QED
  BY <1>1, <1>6, <1>7, ThenWrites

\* SubBalance makes its account dirty with the balance less n.
LEMMA SubBalanceWrites ==
    ASSUME store \in Store, NEW s \in Db, NEW a \in Addr, NEW n \in Nat, n # 0, NEW g,
           g = getStateObject(getOrNew(s, a), a), n <= g.account.bal
    PROVE  Dirties(s, SubBalance(s, a, n), a, WithBalance(g, g.account.bal - n))
<1>1. PICK t : t = getOrNew(s, a)
  OBVIOUS
<1>2. t \in Db /\ Exist(t, a) /\ g = getStateObject(t, a)
  BY <1>1, GetOrNew
<1>3. g \in Object
  BY <1>2, GetObject DEF Exist
<1>4. g.account \in Account
  BY <1>3, ObjectFields
<1>5. g.account.bal - n \in Nat
  BY <1>4 DEF Account
<1>6. Dirties(t, SetBalance(t, a, g.account.bal - n), a, WithBalance(g, g.account.bal - n))
  BY <1>2, <1>5, SetBalanceWrites DEF WithBalance
<1>7. SubBalance(s, a, n) = SetBalance(t, a, g.account.bal - n)
  BY <1>1, <1>2 DEF SubBalance
<1>8. QED
  BY <1>1, <1>6, <1>7, ThenWrites

\* The object with slot k written.
WithSlot(o, k, v) == [o EXCEPT !.dirty = [j \in DOMAIN @ \cup {k} |-> IF j = k THEN v ELSE @[j]]]

\* The fields of an object with another value of a slot.
LEMMA WithSlotFields ==
    ASSUME NEW o \in Object, NEW k \in Slot, NEW v \in Value
    PROVE  /\ WithSlot(o, k, v) \in Object /\ WithSlot(o, k, v).account = o.account
           /\ WithSlot(o, k, v).destructed = o.destructed
           /\ WithSlot(o, k, v).newContract = o.newContract
           /\ DOMAIN WithSlot(o, k, v).dirty = DOMAIN o.dirty \cup {k}
           /\ \A j \in DOMAIN o.dirty : j # k => WithSlot(o, k, v).dirty[j] = o.dirty[j]
<1>1. PICK d : d = [j \in DOMAIN o.dirty \cup {k} |-> IF j = k THEN v ELSE o.dirty[j]]
  OBVIOUS
<1>2. d \in [DOMAIN o.dirty \cup {k} -> Value] /\ DOMAIN o.dirty \cup {k} \in SUBSET Slot
  BY <1>1, ObjectFields
<1>3. d \in UNION {[D -> Value] : D \in SUBSET Slot}
  BY <1>2
<1>4. WithSlot(o, k, v) = [o EXCEPT !.dirty = d]
  BY <1>1 DEF WithSlot
<1>5. /\ WithSlot(o, k, v) \in Object /\ WithSlot(o, k, v).account = o.account
      /\ WithSlot(o, k, v).destructed = o.destructed
      /\ WithSlot(o, k, v).newContract = o.newContract /\ WithSlot(o, k, v).dirty = d
  BY <1>3, <1>4 DEF Object
<1>6. QED
  BY <1>1, <1>5

\* SetState leaves the value as it is, or makes the account dirty.
LEMMA SetStateWrites ==
    ASSUME store \in Store, NEW s \in Db, NEW a \in Addr, NEW k \in Slot, NEW v \in Value
    PROVE  SetState(s, a, k, v) = getOrNew(s, a) \/ \E o : Dirties(s, SetState(s, a, k, v), a, o)
<1>1. PICK t, g : t = getOrNew(s, a) /\ g = getStateObject(t, a)
  OBVIOUS
<1>2. t \in Db /\ Exist(t, a)
  BY <1>1, GetOrNew
<1>3. g \in Object
  BY <1>1, <1>2, GetObject DEF Exist
<1>4. PICK p : p = GetState(t, a, k)
  OBVIOUS
<1>5. p \in Value /\ p = SlotValue(a, g, k)
  BY <1>1, <1>2, <1>4, ReadSlot
<1>6. PICK o, e : /\ o = WithSlot(g, k, v)
                  /\ e = [type |-> "storage", account |-> a, key |-> k, prev |-> p]
  OBVIOUS
<1>7. /\ e \in Entry /\ e.type = "storage" /\ e.account = a /\ e.key = k /\ e.prev = p
      /\ e.type \in ObjectTypes /\ e.type \in DirtyTypes
  BY <1>5, <1>6 DEF Entry, ObjectTypes, DirtyTypes
<1>8. /\ o \in Object /\ o.account = g.account /\ o.destructed = g.destructed
      /\ o.newContract = g.newContract /\ DOMAIN o.dirty = DOMAIN g.dirty \cup {k}
      /\ \A j \in DOMAIN g.dirty : j # k => o.dirty[j] = g.dirty[j]
  BY <1>3, <1>6, WithSlotFields
<1>9. ObjectCovers(a, Restored(e, o), g)
  <2>1. PICK r : r = Restored(e, o)
    OBVIOUS
  <2>2. /\ r.account = g.account /\ r.destructed = g.destructed /\ r.newContract = g.newContract
        /\ DOMAIN r.dirty = DOMAIN g.dirty \cup {k}
        /\ \A j \in DOMAIN r.dirty : r.dirty[j] = IF j = k THEN p ELSE o.dirty[j]
    <3>1. /\ r.account = o.account /\ r.destructed = o.destructed /\ r.newContract = o.newContract
          /\ DOMAIN r.dirty = DOMAIN o.dirty \cup {e.key}
          /\ \A j \in DOMAIN o.dirty \cup {e.key} : r.dirty[j] = IF j = e.key THEN e.prev ELSE o.dirty[j]
      BY <1>7, <1>8, <2>1, RestoredFields
    <3>2. QED
      BY <1>7, <1>8, <3>1
  <2>3. \A j \in Slot : SlotValue(a, r, j) = SlotValue(a, g, j)
    BY <1>5, <1>8, <2>2 DEF SlotValue
  <2>4. QED
    BY <2>1, <2>2, <2>3 DEF ObjectCovers
<1>10. CASE p = v
  BY <1>1, <1>4, <1>10 DEF SetState
<1>11. CASE p # v
  <2>1. getStateObject(append(t, e), a) = g
    BY <1>1, <1>2, <1>7, AppendReads
  <2>2. SetState(s, a, k, v) = setStateObject(append(t, e), a, WithSlot(getStateObject(append(t, e), a), k, v))
    BY <1>1, <1>4, <1>6, <1>11 DEF SetState, Write, WithSlot
  <2>3. Dirties(t, setStateObject(append(t, e), a, o), a, o)
    BY <1>1, <1>2, <1>7, <1>8, <1>9, WrittenDirties
  <2>4. QED
    BY <1>1, <1>6, <2>1, <2>2, <2>3, ThenWrites
<1>12. QED
  BY <1>10, <1>11

\* SelfDestruct makes the account dirty.
LEMMA SelfDestructWrites ==
    ASSUME store \in Store, NEW s \in Db, NEW a \in Addr
    PROVE  SelfDestruct6780(s, a) = s \/ \E o : Dirties(s, SelfDestruct6780(s, a), a, o)
<1>1. PICK g : g = getStateObject(s, a)
  OBVIOUS
<1>2. CASE Exist(s, a) /\ g.newContract
  <2>1. g \in Object
    BY <1>1, <1>2, GetObject DEF Exist
  <2>2. g.account \in Account /\ g.destructed \in BOOLEAN
    BY <2>1, ObjectFields
  <2>3. PICK o, e : /\ o = [g EXCEPT !.destructed = TRUE, !.account.bal = 0]
                    /\ e = [type |-> "selfDestruct", account |-> a, prev |-> g.destructed,
                            prevBalance |-> g.account.bal]
    OBVIOUS
  <2>4. g.account.bal \in Nat
    BY <2>2 DEF Account
  <2>5. /\ e \in Entry /\ e.type = "selfDestruct" /\ e.account = a /\ e.prev = g.destructed
        /\ e.prevBalance = g.account.bal /\ e.type \in ObjectTypes /\ e.type \in DirtyTypes
    BY <2>2, <2>3, <2>4 DEF Entry, ObjectTypes, DirtyTypes
  <2>6. /\ o.account = [g.account EXCEPT !.bal = 0] /\ o.account \in Account
        /\ o.dirty = g.dirty /\ o.destructed = TRUE /\ o.newContract = g.newContract /\ o \in Object
    BY <2>1, <2>3 DEF Object, Account
  <2>7. [o.account EXCEPT !.bal = g.account.bal] = g.account
    BY <2>2, <2>6 DEF Account
  <2>8. ObjectCovers(a, Restored(e, o), g)
    <3>1. /\ Restored(e, o).account = [o.account EXCEPT !.bal = e.prevBalance]
          /\ Restored(e, o).dirty = o.dirty
          /\ Restored(e, o).destructed = e.prev /\ Restored(e, o).newContract = o.newContract
      <4>1. o \in Object /\ e \in Entry /\ e.type \in ObjectTypes /\ e.type = "selfDestruct"
        BY <2>5, <2>6
      <4>2. QED
        BY <4>1, RestoredFields
    <3>2. Restored(e, o).account = g.account
      BY <2>5, <2>7, <3>1, Zenon
    <3>3. QED
      BY <2>5, <2>6, <3>1, <3>2 DEF ObjectCovers, SlotValue
  <2>9. SelfDestruct6780(s, a) = setStateObject(append(s, e), a, o)
    <3>1. getStateObject(append(s, e), a) = g
      BY <1>1, <2>5, AppendReads
    <3>2. SelfDestruct6780(s, a) = SelfDestruct(s, a) /\ g # Missing
      BY <1>1, <1>2 DEF SelfDestruct6780, Exist
    <3>3. SelfDestruct(s, a) = setStateObject(append(s, e), a, [getStateObject(append(s, e), a)
                                                                   EXCEPT !.destructed = TRUE, !.account.bal = 0])
      BY <1>1, <2>3, <3>2 DEF SelfDestruct, Write
    <3>4. QED
      BY <2>3, <3>1, <3>2, <3>3
  <2>10. Dirties(s, setStateObject(append(s, e), a, o), a, o)
    BY <1>1, <1>2, <2>5, <2>6, <2>8, WrittenDirties
  <2>11. QED
    BY <2>9, <2>10
<1>3. QED
  BY <1>1, <1>2 DEF SelfDestruct6780

(***************************************************************************)
(* The other setters.                                                      *)
(***************************************************************************)
\* A method that writes: what was sound stays so, and the journal leads back.
Writes(s, t) ==
    /\ t \in Db /\ Continues(s, t) /\ (Good(s) => Good(t))
    /\ t.precompileCallsCounter = s.precompileCallsCounter

\* Writing nothing is a write.
LEMMA WritesNothing ==
    ASSUME NEW s \in Db
    PROVE  Writes(s, s)
BY ContinuesReflexive DEF Writes

\* Making an account dirty is a write.
LEMMA DirtiesWrites ==
    ASSUME store \in Store, NEW s \in Db, NEW a \in Addr, NEW t, NEW o, Dirties(s, t, a, o)
    PROVE  Writes(s, t)
BY DirtiesGood DEF Dirties, Writes

\* Two writes, one after the other, are one.
LEMMA WritesTwice ==
    ASSUME NEW s \in Db, NEW t, NEW u, Writes(s, t), Writes(t, u)
    PROVE  Writes(s, u)
<1>1. t \in Db /\ u \in Db
  BY DEF Writes
<1>2. Continues(s, u)
  BY <1>1, ContinuesTransitive DEF Writes
<1>3. QED
  BY <1>1, <1>2 DEF Writes

\* CreateContract marks the object and makes nothing dirty.
LEMMA CreateContractWrites ==
    ASSUME store \in Store, NEW s \in Db, NEW a \in Addr, Exist(s, a)
    PROVE  Writes(s, CreateContract(s, a))
<1>1. PICK g : g = getStateObject(s, a)
  OBVIOUS
<1>2. g \in Object
  BY <1>1, GetObject DEF Exist
<1>3. CASE g.newContract
  BY <1>1, <1>3, WritesNothing DEF CreateContract
<1>4. CASE ~g.newContract
  <2>1. PICK o, e : o = [g EXCEPT !.newContract = TRUE] /\ e = [type |-> "createContract", account |-> a]
    OBVIOUS
  <2>2. /\ e \in Entry /\ e.type = "createContract" /\ e.account = a
        /\ e.type \in ObjectTypes /\ e.type \notin DirtyTypes
    BY <2>1 DEF Entry, ObjectTypes, DirtyTypes
  <2>3. /\ o.account = g.account /\ o.dirty = g.dirty /\ o.destructed = g.destructed /\ o \in Object
        /\ g.newContract = FALSE
    BY <1>2, <1>4, <2>1 DEF Object
  <2>4. ObjectCovers(a, Restored(e, o), g)
    <3>1. /\ Restored(e, o).account = o.account /\ Restored(e, o).dirty = o.dirty
          /\ Restored(e, o).destructed = o.destructed /\ Restored(e, o).newContract = FALSE
      BY <2>2, <2>3, RestoredFields
    <3>2. QED
      BY <2>3, <3>1 DEF ObjectCovers, SlotValue
  <2>5. PICK t : t = setStateObject(append(s, e), a, o)
    OBVIOUS
  <2>6. CreateContract(s, a) = t
    <3>1. getStateObject(append(s, e), a) = g
      BY <1>1, <2>2, AppendReads
    <3>2. CreateContract(s, a) = setStateObject(append(s, e), a, [getStateObject(append(s, e), a)
                                                                     EXCEPT !.newContract = TRUE])
      BY <1>1, <1>4, <2>1 DEF CreateContract, Write
    <3>3. QED
      BY <2>1, <2>5, <3>1, <3>2
  <2>7. /\ t \in Db /\ Continues(s, t) /\ getStateObject(t, a) = o
        /\ t.objs = [s.objs EXCEPT ![a] = o] /\ t.dirties = s.dirties
        /\ \A b \in Addr : b # a => getStateObject(t, b) = getStateObject(s, b)
        /\ t.cache = s.cache /\ t.panic = s.panic /\ t.logs = s.logs /\ t.accessList = s.accessList
        /\ t.precompileCallsCounter = s.precompileCallsCounter
    <3>1. /\ o \in Object /\ e \in Entry /\ e.type \in ObjectTypes /\ e.account = a
          /\ ObjectCovers(a, Restored(e, o), getStateObject(s, a))
      BY <1>1, <2>2, <2>3, <2>4
    <3>2. /\ t \in Db /\ Continues(s, t) /\ getStateObject(t, a) = o
          /\ t.objs = [s.objs EXCEPT ![a] = o]
          /\ t.dirties = IF e.type \in DirtyTypes THEN [s.dirties EXCEPT ![a] = @ + 1] ELSE s.dirties
          /\ \A b \in Addr : b # a => getStateObject(t, b) = getStateObject(s, b)
          /\ t.cache = s.cache /\ t.panic = s.panic /\ t.logs = s.logs /\ t.accessList = s.accessList
          /\ t.precompileCallsCounter = s.precompileCallsCounter
      BY <2>5, <3>1, Written
    <3>3. QED
      BY <2>2, <3>2
  <2>8. ASSUME Good(s) PROVE Good(t)
    <3>1. o # Missing /\ g # Missing
      BY <1>2, <2>3, ObjectFields
    <3>2. t.objs[a] = o /\ \A b \in Addr : b # a => t.objs[b] = s.objs[b]
      BY <2>7 DEF Db
    <3>3. Current(t) = Current(s)
      BY <2>7 DEF Current
    <3>4. ASSUME NEW b \in Addr
          PROVE  /\ Exist(t, b) <=> Exist(s, b)
                 /\ Exist(s, b) => /\ getStateObject(t, b).account = getStateObject(s, b).account
                                   /\ getStateObject(t, b).destructed = getStateObject(s, b).destructed
                 /\ s.objs[b] # Missing => t.objs[b] # Missing
                 /\ \A k \in Slot : GetState(t, b, k) = GetState(s, b, k)
                 /\ \A k \in Slot : Loaded(s, b, k) => Loaded(t, b, k)
      <4>1. CASE b = a
        <5>1. \A k \in Slot : GetState(t, a, k) = GetState(s, a, k)
          BY <1>1, <2>3, <2>7, <3>1 DEF GetState
        <5>2. \A k \in Slot : Loaded(s, a, k) => Loaded(t, a, k)
          BY <1>1, <2>3, <3>1, <3>2 DEF Loaded, getStateObject
        <5>3. QED
          BY <1>1, <2>3, <2>7, <3>1, <3>2, <4>1, <5>1, <5>2 DEF Exist
      <4>2. CASE b # a
        <5>1. getStateObject(t, b) = getStateObject(s, b) /\ t.objs[b] = s.objs[b]
          BY <2>7, <3>2, <4>2
        <5>2. QED
          BY <5>1 DEF Exist, GetState, Loaded
      <4>3. QED
        BY <4>1, <4>2
    <3>5. Synced(t)
      BY <2>7, <2>8, <3>3, <3>4 DEF Good, Synced
    <3>6. QED
      BY <2>7, <2>8, <3>5 DEF Good
  <2>9. QED
    BY <2>6, <2>7, <2>8 DEF Writes
<1>5. QED
  BY <1>3, <1>4

\* A write that touches neither objects nor cache context.
LEMMA Elsewhere ==
    ASSUME store \in Store, NEW s \in Db, NEW t \in Db, NEW e \in Entry, e.type \notin DirtyTypes,
           t.journal = Append(s.journal, e), t.dirties = s.dirties,
           t.objs = s.objs, t.cache = s.cache, t.panic = s.panic,
           t.validRevisions = s.validRevisions, t.nextRevisionID = s.nextRevisionID,
           t.precompileCallsCounter = s.precompileCallsCounter,
           NEW u, u = Undo(e, t), u.objs = s.objs, u.dirties = s.dirties, u.refund = s.refund,
           u.logs = s.logs, u.transient = s.transient, u.accessList = s.accessList,
           u.panic = s.panic, u.cache = s.cache,
           Good(s) => t.logs \in Nat /\ AccessSound(t.accessList)
    PROVE  Writes(s, t)
<1>1. \A b \in Addr : getStateObject(u, b) = getStateObject(s, b)
  BY DEF getStateObject
<1>2. Covers(u, s)
  BY <1>1 DEF Covers, RestSame, AccountCovers, ObjectCovers, Exist
<1>3. Continues(s, t)
  BY <1>2, JournaledContinues DEF Journaled
<1>4. ASSUME Good(s) PROVE Good(t)
  <2>1. \A b \in Addr : getStateObject(t, b) = getStateObject(s, b)
    BY DEF getStateObject
  <2>2. \A b \in Addr : /\ Exist(t, b) <=> Exist(s, b)
                        /\ \A k \in Slot : GetState(t, b, k) = GetState(s, b, k)
    BY <2>1 DEF Exist, GetState
  <2>3. \A b \in Addr : \A k \in Slot : Loaded(t, b, k) <=> Loaded(s, b, k)
    BY DEF Loaded
  <2>4. Current(t) = Current(s)
    BY DEF Current
  <2>5. Synced(t)
    BY <1>4, <2>1, <2>2, <2>3, <2>4 DEF Good, Synced
  <2>6. QED
    BY <1>4, <2>5 DEF Good
<1>5. QED
  BY <1>3, <1>4 DEF Writes

\* SetTransientState is a write.
LEMMA SetTransientWrites ==
    ASSUME store \in Store, NEW s \in Db, NEW a \in Addr, NEW k \in Slot, NEW v \in Value
    PROVE  Writes(s, SetTransientState(s, a, k, v))
<1>1. s.transient \in [Addr -> [Slot -> Value]]
  BY DEF Db
<1>2. CASE s.transient[a][k] = v
  BY <1>2, WritesNothing DEF SetTransientState
<1>3. CASE s.transient[a][k] # v
  <2>1. PICK e, r : /\ e = [type |-> "transient", account |-> a, key |-> k, prev |-> s.transient[a][k]]
                    /\ r = append(s, e)
    OBVIOUS
  <2>2. s.transient[a][k] \in Value
    BY <1>1
  <2>3. /\ e \in Entry /\ e.type = "transient" /\ e.account = a /\ e.key = k /\ e.prev = s.transient[a][k]
        /\ e.type \notin DirtyTypes /\ e.type \notin ObjectTypes
    BY <2>1, <2>2 DEF Entry, DirtyTypes, ObjectTypes
  <2>4. /\ r \in Db /\ r.journal = Append(s.journal, e) /\ r.dirties = s.dirties
        /\ r.objs = s.objs /\ r.refund = s.refund /\ r.logs = s.logs
        /\ r.transient = s.transient /\ r.accessList = s.accessList
        /\ r.cache = s.cache /\ r.panic = s.panic /\ r.validRevisions = s.validRevisions
        /\ r.nextRevisionID = s.nextRevisionID
        /\ r.precompileCallsCounter = s.precompileCallsCounter
    BY <2>1, <2>3, AppendFields
  <2>5. PICK t, x : x = [s.transient EXCEPT ![a][k] = v] /\ t = [r EXCEPT !.transient = x]
    OBVIOUS
  <2>6. SetTransientState(s, a, k, v) = t
    BY <1>3, <2>1, <2>4, <2>5 DEF SetTransientState
  <2>7. x \in [Addr -> [Slot -> Value]] /\ [x EXCEPT ![a][k] = s.transient[a][k]] = s.transient
    BY <1>1, <2>5
  <2>8. /\ t \in Db /\ t.journal = r.journal /\ t.dirties = r.dirties
        /\ t.objs = r.objs /\ t.refund = r.refund /\ t.logs = r.logs
        /\ t.transient = x /\ t.accessList = r.accessList
        /\ t.cache = r.cache /\ t.panic = r.panic /\ t.validRevisions = r.validRevisions
        /\ t.nextRevisionID = r.nextRevisionID
        /\ t.precompileCallsCounter = r.precompileCallsCounter
    BY <2>4, <2>5, <2>7 DEF Db
  <2>9. PICK u : u = Undo(e, t)
    OBVIOUS
  <2>10. FieldsUndone(e, t, u, UndoneDirties(e, t))
    BY <2>3, <2>8, <2>9, UndoFields
  <2>11. /\ u.objs = t.objs /\ u.dirties = t.dirties /\ u.refund = t.refund /\ u.logs = t.logs
         /\ u.accessList = t.accessList /\ u.panic = t.panic /\ u.cache = t.cache
    <3>1. ~UndoPanics(e, t)
      BY <2>3 DEF UndoPanics
    <3>2. QED
      BY <2>3, <2>8, <2>10, <3>1 DEF FieldsUndone, UndoneObjs, UndoneDirties, UndoneAccess, UndoneCache, Db
  <2>12. u.transient = s.transient
    BY <2>3, <2>7, <2>8, <2>10 DEF FieldsUndone, UndoneTransient
  <2>13. Good(s) => t.logs \in Nat /\ AccessSound(t.accessList)
    BY <2>4, <2>8 DEF Good
  <2>14. Writes(s, t)
    BY <2>3, <2>4, <2>8, <2>9, <2>11, <2>12, <2>13, Elsewhere
  <2>15. QED
    BY <2>6, <2>14
<1>4. QED
  BY <1>2, <1>3

\* The gas refund is set to n.
LEMMA RefundWrites ==
    ASSUME store \in Store, NEW s \in Db, NEW n \in Nat, NEW t,
           t = [append(s, [type |-> "refund", prev |-> s.refund]) EXCEPT !.refund = n]
    PROVE  Writes(s, t)
<1>1. PICK e, r : e = [type |-> "refund", prev |-> s.refund] /\ r = append(s, e)
  OBVIOUS
<1>2. s.refund \in Nat
  BY DEF Db
<1>3. /\ e \in Entry /\ e.type = "refund" /\ e.prev = s.refund
      /\ e.type \notin DirtyTypes /\ e.type \notin ObjectTypes
  BY <1>1, <1>2 DEF Entry, DirtyTypes, ObjectTypes
<1>4. /\ r \in Db /\ r.journal = Append(s.journal, e) /\ r.dirties = s.dirties
      /\ r.objs = s.objs /\ r.refund = s.refund /\ r.logs = s.logs
      /\ r.transient = s.transient /\ r.accessList = s.accessList
      /\ r.cache = s.cache /\ r.panic = s.panic /\ r.validRevisions = s.validRevisions
      /\ r.nextRevisionID = s.nextRevisionID
      /\ r.precompileCallsCounter = s.precompileCallsCounter
  BY <1>1, <1>3, AppendFields
<1>5. /\ t \in Db /\ t.journal = r.journal /\ t.dirties = r.dirties
      /\ t.objs = r.objs /\ t.logs = r.logs
      /\ t.transient = r.transient /\ t.accessList = r.accessList
      /\ t.cache = r.cache /\ t.panic = r.panic /\ t.validRevisions = r.validRevisions
      /\ t.nextRevisionID = r.nextRevisionID
      /\ t.precompileCallsCounter = r.precompileCallsCounter
  BY <1>1, <1>4 DEF Db
<1>6. PICK u : u = Undo(e, t)
  OBVIOUS
<1>7. FieldsUndone(e, t, u, UndoneDirties(e, t))
  BY <1>3, <1>5, <1>6, UndoFields
<1>8. /\ u.objs = t.objs /\ u.dirties = t.dirties /\ u.refund = s.refund /\ u.logs = t.logs
      /\ u.transient = t.transient
      /\ u.accessList = t.accessList /\ u.panic = t.panic /\ u.cache = t.cache
  <2>1. ~UndoPanics(e, t)
    BY <1>3 DEF UndoPanics
  <2>2. QED
    BY <1>3, <1>5, <1>7, <2>1
       DEF FieldsUndone, UndoneObjs, UndoneDirties, UndoneAccess, UndoneTransient, UndoneCache, Db
<1>9. Good(s) => t.logs \in Nat /\ AccessSound(t.accessList)
  BY <1>4, <1>5 DEF Good
<1>10. /\ t \in Db /\ t.journal = Append(s.journal, e) /\ t.dirties = s.dirties
       /\ t.objs = s.objs /\ t.cache = s.cache /\ t.panic = s.panic
       /\ t.validRevisions = s.validRevisions /\ t.nextRevisionID = s.nextRevisionID
       /\ t.precompileCallsCounter = s.precompileCallsCounter
  BY <1>4, <1>5, Zenon
<1>11. /\ u.objs = s.objs /\ u.dirties = s.dirties /\ u.refund = s.refund /\ u.logs = s.logs
       /\ u.transient = s.transient
       /\ u.accessList = s.accessList /\ u.panic = s.panic /\ u.cache = s.cache
  BY <1>4, <1>5, <1>8, Zenon
<1>12. QED
  BY <1>3, <1>6, <1>9, <1>10, <1>11, Elsewhere

\* AddLog is a write.
LEMMA AddLogWrites ==
    ASSUME store \in Store, NEW s \in Db
    PROVE  Writes(s, AddLog(s))
<1>1. PICK e, r : e = [type |-> "log"] /\ r = append(s, e)
  OBVIOUS
<1>2. /\ e \in Entry /\ e.type = "log"
      /\ e.type \notin DirtyTypes /\ e.type \notin ObjectTypes
  BY <1>1 DEF Entry, DirtyTypes, ObjectTypes
<1>3. /\ r \in Db /\ r.journal = Append(s.journal, e) /\ r.dirties = s.dirties
      /\ r.objs = s.objs /\ r.refund = s.refund /\ r.logs = s.logs
      /\ r.transient = s.transient /\ r.accessList = s.accessList
      /\ r.cache = s.cache /\ r.panic = s.panic /\ r.validRevisions = s.validRevisions
      /\ r.nextRevisionID = s.nextRevisionID
      /\ r.precompileCallsCounter = s.precompileCallsCounter
  BY <1>1, <1>2, AppendFields
<1>4. PICK t : t = [r EXCEPT !.logs = @ + 1]
  OBVIOUS
<1>5. AddLog(s) = t
  BY <1>1, <1>4 DEF AddLog
<1>6. s.logs \in Int
  BY DEF Db
<1>7. /\ t \in Db /\ t.journal = r.journal /\ t.dirties = r.dirties
      /\ t.objs = r.objs /\ t.logs = s.logs + 1 /\ t.refund = r.refund
      /\ t.transient = r.transient /\ t.accessList = r.accessList
      /\ t.cache = r.cache /\ t.panic = r.panic /\ t.validRevisions = r.validRevisions
      /\ t.nextRevisionID = r.nextRevisionID
      /\ t.precompileCallsCounter = r.precompileCallsCounter
  <2>1. PICK n : n = s.logs + 1
    OBVIOUS
  <2>2. n \in Int /\ t = [r EXCEPT !.logs = n]
    BY <1>3, <1>4, <1>6, <2>1
  <2>3. QED
    BY <1>3, <2>1, <2>2 DEF Db
<1>8. PICK u : u = Undo(e, t)
  OBVIOUS
<1>9. FieldsUndone(e, t, u, UndoneDirties(e, t))
  BY <1>2, <1>7, <1>8, UndoFields
<1>10. u.logs = s.logs
  BY <1>2, <1>6, <1>7, <1>9 DEF FieldsUndone
<1>11. /\ u.objs = t.objs /\ u.dirties = t.dirties /\ u.refund = t.refund
       /\ u.transient = t.transient
       /\ u.accessList = t.accessList /\ u.panic = t.panic /\ u.cache = t.cache
  <2>1. ~UndoPanics(e, t)
    BY <1>2 DEF UndoPanics
  <2>2. QED
    BY <1>2, <1>7, <1>9, <2>1
       DEF FieldsUndone, UndoneObjs, UndoneDirties, UndoneAccess, UndoneTransient, UndoneCache, Db
<1>12. Good(s) => t.logs \in Nat /\ AccessSound(t.accessList)
  BY <1>3, <1>7 DEF Good
<1>13. QED
  BY <1>2, <1>3, <1>5, <1>7, <1>8, <1>10, <1>11, <1>12, Elsewhere

(***************************************************************************)
(* The access list.                                                        *)
(***************************************************************************)
\* An access list is its two parts.
LEMMA AccessParts ==
    ASSUME NEW al \in AccessList
    PROVE  /\ al = [addresses |-> al.addresses, slots |-> al.slots]
           /\ al.slots \in Seq(SUBSET Slot) /\ Len(al.slots) \in Nat
           /\ DOMAIN al.addresses \subseteq Addr /\ al.addresses \in [DOMAIN al.addresses -> Nat]
<1>1. al = [addresses |-> al.addresses, slots |-> al.slots] /\ al.slots \in Seq(SUBSET Slot)
  BY DEF AccessList
<1>2. PICK D \in SUBSET Addr : al.addresses \in [D -> Nat]
  BY DEF AccessList
<1>3. QED
  BY <1>1, <1>2

\* Two parts make an access list.
LEMMA MakeAccess ==
    ASSUME NEW D \in SUBSET Addr, NEW f \in [D -> Nat], NEW q \in Seq(SUBSET Slot)
    PROVE  [addresses |-> f, slots |-> q] \in AccessList
<1>1. f \in UNION {[C -> Nat] : C \in SUBSET Addr}
  OBVIOUS
<1>2. QED
  BY <1>1 DEF AccessList

\* A new address has no slots.
LEMMA AddAddressAccess ==
    ASSUME NEW al \in AccessList, NEW a \in Addr
    PROVE  /\ AddAddress(al, a) \in AccessList /\ AddAddress(al, a).slots = al.slots
           /\ DOMAIN AddAddress(al, a).addresses = DOMAIN al.addresses \cup {a}
           /\ \A b \in DOMAIN al.addresses : AddAddress(al, a).addresses[b] = al.addresses[b]
           /\ a \notin DOMAIN al.addresses => AddAddress(al, a).addresses[a] = 0
           /\ AccessSound(al) => AccessSound(AddAddress(al, a))
           /\ a \notin DOMAIN al.addresses => DeleteAddress(AddAddress(al, a), a) = al
           /\ a \in DOMAIN al.addresses => AddAddress(al, a) = al
<1>1. /\ al = [addresses |-> al.addresses, slots |-> al.slots]
      /\ al.slots \in Seq(SUBSET Slot) /\ Len(al.slots) \in Nat
      /\ DOMAIN al.addresses \subseteq Addr /\ al.addresses \in [DOMAIN al.addresses -> Nat]
  BY AccessParts
<1>2. PICK D, f, q, g : /\ D = DOMAIN al.addresses /\ f = al.addresses /\ q = al.slots
                        /\ g = [b \in D \cup {a} |-> IF b \in D THEN f[b] ELSE 0]
  OBVIOUS
<1>3. g \in [D \cup {a} -> Nat] /\ D \cup {a} \in SUBSET Addr
  BY <1>1, <1>2
<1>4. AddAddress(al, a) = [addresses |-> g, slots |-> q]
  BY <1>1, <1>2 DEF AddAddress
<1>5. AddAddress(al, a) \in AccessList
  BY <1>1, <1>2, <1>3, <1>4, MakeAccess
<1>6. AddAddress(al, a).slots = q /\ AddAddress(al, a).addresses = g
  BY <1>4
<1>7. DOMAIN g = D \cup {a} /\ (\A b \in D : g[b] = f[b]) /\ (a \notin D => g[a] = 0)
  BY <1>2, <1>3
<1>8. ASSUME AccessSound(al) PROVE AccessSound(AddAddress(al, a))
  <2>1. \A b \in D \cup {a} : g[b] \in 0 .. Len(q)
    BY <1>1, <1>2, <1>7, <1>8 DEF AccessSound
  <2>2. QED
    BY <1>2, <1>6, <1>7, <1>8, <2>1 DEF AccessSound
<1>9. ASSUME a \notin D PROVE DeleteAddress(AddAddress(al, a), a) = al
  <2>1. (D \cup {a}) \ {a} = D
    BY <1>9
  <2>2. DeleteAddress(AddAddress(al, a), a) = [addresses |-> [b \in D |-> g[b]], slots |-> q]
    BY <1>4, <1>7, <2>1 DEF DeleteAddress
  <2>3. [b \in D |-> g[b]] = f
    BY <1>1, <1>2, <1>7
  <2>4. QED
    BY <1>1, <1>2, <2>2, <2>3
<1>10. ASSUME a \in D PROVE AddAddress(al, a) = al
  <2>1. g = f
    BY <1>1, <1>2, <1>10
  <2>2. QED
    BY <1>1, <1>2, <1>4, <2>1
<1>11. QED
  BY <1>2, <1>5, <1>6, <1>7, <1>8, <1>9, <1>10

\* A slot is listed with its address, and deleting it again leaves the list as it was.
LEMMA AddSlotAccess ==
    ASSUME NEW al \in AccessList, AccessSound(al), NEW a \in Addr, NEW k \in Slot
    PROVE  /\ AddSlot(al, a, k) \in AccessList /\ AccessSound(AddSlot(al, a, k))
           /\ a \in DOMAIN AddSlot(al, a, k).addresses
           /\ AddSlot(al, a, k).addresses[a] \in DOMAIN AddSlot(al, a, k).slots
           /\ a \in DOMAIN al.addresses /\ ~SlotListed(al, a, k) =>
                 DeleteSlot(AddSlot(al, a, k), a, k) = al
           /\ a \notin DOMAIN al.addresses => AddSlot(al, a, k) = AddSlot(AddAddress(al, a), a, k)
<1>1. /\ al = [addresses |-> al.addresses, slots |-> al.slots]
      /\ al.slots \in Seq(SUBSET Slot) /\ Len(al.slots) \in Nat
      /\ DOMAIN al.addresses \subseteq Addr /\ al.addresses \in [DOMAIN al.addresses -> Nat]
  BY AccessParts
<1>2. PICK D, f, q, n : /\ D = DOMAIN al.addresses /\ f = al.addresses /\ q = al.slots /\ n = Len(q)
  OBVIOUS
<1>3. /\ D \in SUBSET Addr /\ f \in [D -> Nat] /\ q \in Seq(SUBSET Slot) /\ n \in Nat
      /\ DOMAIN q = 1 .. n /\ (\A b \in D : f[b] \in 0 .. n) /\ \A i \in 1 .. n : q[i] # {}
      /\ al = [addresses |-> f, slots |-> q]
  BY <1>1, <1>2 DEF AccessSound
<1>4. PICK new : new = AddSlot(al, a, k)
  OBVIOUS
<1>5. CASE a \in D /\ f[a] # 0
  <2>1. PICK i, r : i = f[a] /\ r = [q EXCEPT ![i] = @ \cup {k}]
    OBVIOUS
  <2>2. i \in 1 .. n
    BY <1>3, <1>5, <2>1
  <2>3. r \in Seq(SUBSET Slot) /\ Len(r) = n /\ DOMAIN r = 1 .. n /\ r[i] = q[i] \cup {k}
        /\ \A j \in 1 .. n : j # i => r[j] = q[j]
    BY <1>2, <1>3, <2>1, <2>2
  <2>4. new = [addresses |-> f, slots |-> r]
    BY <1>2, <1>3, <1>4, <1>5, <2>1 DEF AddSlot
  <2>5. new \in AccessList
    BY <1>3, <2>3, <2>4, MakeAccess
  <2>6. new.addresses = f /\ new.slots = r
    BY <2>4
  <2>7. AccessSound(new)
    <3>1. \A j \in 1 .. n : r[j] # {}
      BY <1>3, <2>3
    <3>2. QED
      BY <1>3, <2>3, <2>6, <3>1 DEF AccessSound
  <2>8. ASSUME ~SlotListed(al, a, k) PROVE DeleteSlot(new, a, k) = al
    <3>1. k \notin q[i]
      BY <1>2, <1>5, <2>1, <2>8 DEF SlotListed
    <3>2. r[i] \ {k} = q[i] /\ q[i] # {}
      BY <1>3, <2>2, <2>3, <3>1
    <3>3. [r EXCEPT ![i] = q[i]] = q
      <4>1. q \in [1 .. n -> SUBSET Slot]
        BY <1>2, <1>3
      <4>2. QED
        BY <2>1, <2>2, <4>1
    <3>4. DeleteSlot(new, a, k) = [new EXCEPT !.slots[i] = q[i]]
      BY <2>1, <2>6, <3>2 DEF DeleteSlot
    <3>5. [new EXCEPT !.slots[i] = q[i]] = [addresses |-> f, slots |-> [r EXCEPT ![i] = q[i]]]
      BY <2>4
    <3>6. QED
      BY <1>3, <3>3, <3>4, <3>5
  <2>9. QED
    BY <1>2, <1>4, <1>5, <2>1, <2>2, <2>3, <2>5, <2>6, <2>7, <2>8
<1>6. CASE ~(a \in D /\ f[a] # 0)
  <2>1. PICK g, h, r : /\ g = AddAddress(al, a).addresses /\ h = [g EXCEPT ![a] = n + 1]
                       /\ r = Append(q, {k})
    OBVIOUS
  <2>2. /\ AddAddress(al, a) \in AccessList /\ AddAddress(al, a).slots = q /\ DOMAIN g = D \cup {a}
        /\ \A b \in D : g[b] = f[b]
    BY <1>2, <2>1, AddAddressAccess
  <2>3. g \in [D \cup {a} -> Nat] /\ D \cup {a} \in SUBSET Addr
    BY <1>3, <2>1, <2>2, AccessParts
  <2>4. h \in [D \cup {a} -> Nat] /\ h[a] = n + 1 /\ \A b \in D : b # a => h[b] = f[b]
    BY <1>3, <2>1, <2>2, <2>3
  <2>5. /\ r \in Seq(SUBSET Slot) /\ Len(r) = n + 1 /\ DOMAIN r = 1 .. n + 1
        /\ r[n + 1] = {k} /\ \A j \in 1 .. n : r[j] = q[j]
    BY <1>2, <1>3, <2>1
  <2>6. new = [addresses |-> h, slots |-> r]
    BY <1>2, <1>4, <1>6, <2>1 DEF AddSlot
  <2>7. new \in AccessList
    BY <2>3, <2>4, <2>5, <2>6, MakeAccess
  <2>8. new.addresses = h /\ new.slots = r /\ DOMAIN h = D \cup {a}
    BY <2>4, <2>6
  <2>9. AccessSound(new)
    <3>1. \A j \in 1 .. n + 1 : r[j] # {}
      BY <1>3, <2>5
    <3>2. \A b \in D \cup {a} : h[b] \in 0 .. n + 1
      BY <1>3, <2>4
    <3>3. QED
      BY <2>5, <2>8, <3>1, <3>2 DEF AccessSound
  <2>10. ASSUME a \in D PROVE DeleteSlot(new, a, k) = al
    <3>1. f[a] = 0 /\ D \cup {a} = D
      BY <1>6, <2>10
    <3>2. r[n + 1] \ {k} = {}
      BY <2>5
    <3>3. DeleteSlot(new, a, k) = [addresses |-> [h EXCEPT ![a] = 0], slots |-> SubSeq(r, 1, (n + 1) - 1)]
      BY <2>4, <2>8, <3>2 DEF DeleteSlot
    <3>4. [h EXCEPT ![a] = 0] = f
      BY <1>3, <2>4, <2>10, <3>1
    <3>5. SubSeq(r, 1, (n + 1) - 1) = q
      <4>1. (n + 1) - 1 = n
        BY <1>3
      <4>2. SubSeq(r, 1, n) = q
        BY <1>2, <1>3, <2>5, SubSeqProperties
      <4>3. QED
        BY <4>1, <4>2
    <3>6. QED
      BY <1>3, <3>3, <3>4, <3>5
  <2>11. ASSUME a \notin D PROVE AddSlot(AddAddress(al, a), a, k) = new
    <3>1. g[a] = 0
      BY <1>2, <2>1, <2>11, AddAddressAccess
    <3>2. AddAddress(AddAddress(al, a), a) = AddAddress(al, a)
      BY <2>2, <2>1, AddAddressAccess
    <3>3. QED
      BY <1>2, <2>1, <2>2, <2>6, <3>1, <3>2 DEF AddSlot
  <2>12. a \in DOMAIN new.addresses /\ new.addresses[a] \in DOMAIN new.slots
    BY <1>3, <2>4, <2>5, <2>8
  <2>13. QED
    BY <1>2, <1>4, <2>7, <2>9, <2>10, <2>11, <2>12
<1>7. QED
  BY <1>5, <1>6

\* AddAddressToAccessList warms an address.
LEMMA AddAddressWrites ==
    ASSUME store \in Store, NEW s \in Db, NEW a \in Addr
    PROVE  /\ Writes(s, AddAddressToAccessList(s, a))
           /\ a \notin DOMAIN s.accessList.addresses =>
                 AddAddressToAccessList(s, a).accessList = AddAddress(s.accessList, a)
<1>1. PICK al : al = s.accessList
  OBVIOUS
<1>2. al \in AccessList
  BY <1>1 DEF Db
<1>3. CASE a \in DOMAIN al.addresses
  BY <1>1, <1>3, WritesNothing DEF AddAddressToAccessList
<1>4. CASE a \notin DOMAIN al.addresses
  <2>1. PICK e, r, x : /\ e = [type |-> "accessAddress", account |-> a] /\ r = append(s, e)
                       /\ x = AddAddress(al, a)
    OBVIOUS
  <2>2. /\ e \in Entry /\ e.type = "accessAddress" /\ e.account = a
        /\ e.type \notin DirtyTypes /\ e.type \notin ObjectTypes
    BY <2>1 DEF Entry, DirtyTypes, ObjectTypes
  <2>3. /\ r \in Db /\ r.journal = Append(s.journal, e) /\ r.dirties = s.dirties
        /\ r.objs = s.objs /\ r.refund = s.refund /\ r.logs = s.logs
        /\ r.transient = s.transient /\ r.accessList = al
        /\ r.cache = s.cache /\ r.panic = s.panic /\ r.validRevisions = s.validRevisions
        /\ r.nextRevisionID = s.nextRevisionID
        /\ r.precompileCallsCounter = s.precompileCallsCounter
    BY <1>1, <2>1, <2>2, AppendFields
  <2>4. x \in AccessList /\ (AccessSound(al) => AccessSound(x)) /\ DeleteAddress(x, a) = al
    BY <1>2, <1>4, <2>1, AddAddressAccess
  <2>5. PICK t : t = [r EXCEPT !.accessList = x]
    OBVIOUS
  <2>6. AddAddressToAccessList(s, a) = t
    BY <1>1, <1>4, <2>1, <2>3, <2>5 DEF AddAddressToAccessList
  <2>7. /\ t \in Db /\ t.journal = r.journal /\ t.dirties = r.dirties
        /\ t.objs = r.objs /\ t.refund = r.refund /\ t.logs = r.logs
        /\ t.transient = r.transient /\ t.accessList = x
        /\ t.cache = r.cache /\ t.panic = r.panic /\ t.validRevisions = r.validRevisions
        /\ t.nextRevisionID = r.nextRevisionID
        /\ t.precompileCallsCounter = r.precompileCallsCounter
    BY <2>3, <2>4, <2>5 DEF Db
  <2>8. PICK u : u = Undo(e, t)
    OBVIOUS
  <2>9. FieldsUndone(e, t, u, UndoneDirties(e, t))
    BY <2>2, <2>7, <2>8, UndoFields
  <2>10. /\ u.objs = t.objs /\ u.dirties = t.dirties /\ u.refund = t.refund /\ u.logs = t.logs
         /\ u.transient = t.transient /\ u.panic = t.panic /\ u.cache = t.cache
    <3>1. ~UndoPanics(e, t)
      BY <2>2 DEF UndoPanics
    <3>2. QED
      BY <2>2, <2>7, <2>9, <3>1 DEF FieldsUndone, UndoneObjs, UndoneDirties, UndoneTransient, UndoneCache, Db
  <2>11. u.accessList = al
    BY <2>2, <2>4, <2>7, <2>9 DEF FieldsUndone, UndoneAccess
  <2>12. Good(s) => t.logs \in Nat /\ AccessSound(t.accessList)
    BY <1>1, <2>3, <2>4, <2>7 DEF Good
  <2>13. Writes(s, t)
    BY <1>1, <2>2, <2>3, <2>7, <2>8, <2>10, <2>11, <2>12, Elsewhere
  <2>14. QED
    BY <1>1, <2>1, <2>6, <2>7, <2>13
<1>5. QED
  BY <1>3, <1>4

\* An entry for a slot of an address that is listed, then the list with the slot.
LEMMA SlotWrites ==
    ASSUME store \in Store, NEW s \in Db, Good(s), NEW a \in Addr, NEW k \in Slot,
           a \in DOMAIN s.accessList.addresses, ~SlotListed(s.accessList, a, k),
           NEW t \in Db,
           t.journal = Append(s.journal, [type |-> "accessSlot", account |-> a, key |-> k]),
           t.dirties = s.dirties, t.objs = s.objs, t.refund = s.refund, t.logs = s.logs,
           t.transient = s.transient, t.accessList = AddSlot(s.accessList, a, k),
           t.cache = s.cache, t.panic = s.panic, t.validRevisions = s.validRevisions,
           t.nextRevisionID = s.nextRevisionID,
           t.precompileCallsCounter = s.precompileCallsCounter
    PROVE  Writes(s, t)
<1>1. PICK al, x, e : /\ al = s.accessList /\ x = AddSlot(al, a, k)
                      /\ e = [type |-> "accessSlot", account |-> a, key |-> k]
  OBVIOUS
<1>2. al \in AccessList /\ AccessSound(al)
  BY <1>1 DEF Db, Good
<1>3. /\ e \in Entry /\ e.type = "accessSlot" /\ e.account = a /\ e.key = k
      /\ e.type \notin DirtyTypes /\ e.type \notin ObjectTypes
  BY <1>1 DEF Entry, DirtyTypes, ObjectTypes
<1>4. /\ x \in AccessList /\ AccessSound(x) /\ a \in DOMAIN x.addresses
      /\ x.addresses[a] \in DOMAIN x.slots /\ DeleteSlot(x, a, k) = al
  BY <1>1, <1>2, AddSlotAccess
<1>5. PICK u : u = Undo(e, t)
  OBVIOUS
<1>6. FieldsUndone(e, t, u, UndoneDirties(e, t))
  BY <1>3, <1>5, UndoFields
<1>7. ~UndoPanics(e, t)
  BY <1>1, <1>3, <1>4 DEF UndoPanics
<1>8. /\ u.objs = t.objs /\ u.dirties = t.dirties /\ u.refund = t.refund /\ u.logs = t.logs
      /\ u.transient = t.transient /\ u.panic = t.panic /\ u.cache = t.cache
  BY <1>3, <1>6, <1>7 DEF FieldsUndone, UndoneObjs, UndoneDirties, UndoneTransient, UndoneCache, Db
<1>9. u.accessList = al
  BY <1>1, <1>3, <1>4, <1>6, <1>7 DEF FieldsUndone, UndoneAccess
<1>10. t.logs \in Nat /\ AccessSound(t.accessList)
  BY <1>1, <1>4 DEF Good
<1>11. QED
  BY <1>1, <1>3, <1>5, <1>8, <1>9, <1>10, Elsewhere

\* AddSlotToAccessList warms a slot, and its address first.
LEMMA AddSlotWrites ==
    ASSUME store \in Store, NEW s \in Db, Good(s), NEW a \in Addr, NEW k \in Slot
    PROVE  Writes(s, AddSlotToAccessList(s, a, k))
<1>1. PICK al, e : al = s.accessList /\ e = [type |-> "accessSlot", account |-> a, key |-> k]
  OBVIOUS
<1>2. al \in AccessList /\ AccessSound(al)
  BY <1>1 DEF Db, Good
<1>3. e \in Entry /\ e.type = "accessSlot" /\ e.type \notin DirtyTypes
  BY <1>1 DEF Entry, DirtyTypes
<1>4. CASE SlotListed(al, a, k)
  BY <1>1, <1>4, WritesNothing DEF AddSlotToAccessList
<1>5. CASE ~SlotListed(al, a, k)
  <2>1. PICK p, r, x, t : /\ p = (IF a \in DOMAIN al.addresses THEN s
                                  ELSE append(s, [type |-> "accessAddress", account |-> a]))
                          /\ r = append(p, e) /\ x = AddSlot(al, a, k) /\ t = [r EXCEPT !.accessList = x]
    OBVIOUS
  <2>2. PICK q : q = AddAddressToAccessList(s, a)
    OBVIOUS
  <2>3. /\ p \in Db /\ q \in Db /\ Writes(s, q) /\ p.journal = q.journal /\ p.dirties = q.dirties
        /\ p.objs = q.objs /\ p.refund = q.refund /\ p.logs = q.logs
        /\ p.transient = q.transient /\ p.accessList = al
        /\ p.cache = q.cache /\ p.panic = q.panic /\ p.validRevisions = q.validRevisions
        /\ p.nextRevisionID = q.nextRevisionID
        /\ p.precompileCallsCounter = q.precompileCallsCounter
    <3>1. Writes(s, q) /\ q \in Db
      BY <2>2, AddAddressWrites DEF Writes
    <3>2. CASE a \in DOMAIN al.addresses
      <4>1. p = s /\ q = s
        BY <1>1, <2>1, <2>2, <3>2 DEF AddAddressToAccessList
      <4>2. QED
        BY <1>1, <3>1, <4>1
    <3>3. CASE a \notin DOMAIN al.addresses
      <4>1. PICK y, d : d = [type |-> "accessAddress", account |-> a] /\ y = AddAddress(al, a)
        OBVIOUS
      <4>2. d \in Entry
        BY <4>1 DEF Entry
      <4>3. p = append(s, d)
        BY <2>1, <3>3, <4>1
      <4>4. p \in Db /\ p.accessList = al
        BY <1>1, <4>2, <4>3, AppendFields
      <4>5. q = [p EXCEPT !.accessList = y]
        BY <1>1, <2>2, <3>3, <4>1, <4>3, <4>4 DEF AddAddressToAccessList
      <4>6. QED
        BY <3>1, <4>4, <4>5 DEF Db
    <3>4. QED
      BY <3>2, <3>3
  <2>4. q.accessList = AddAddress(al, a)
    <3>1. CASE a \in DOMAIN al.addresses
      <4>1. q = s /\ AddAddress(al, a) = al
        BY <1>1, <1>2, <2>2, <3>1, AddAddressAccess DEF AddAddressToAccessList
      <4>2. QED
        BY <1>1, <4>1
    <3>2. QED
      BY <1>1, <2>2, <3>1, AddAddressWrites
  <2>5. Good(q)
    BY <2>3 DEF Writes
  <2>6. /\ a \in DOMAIN q.accessList.addresses /\ ~SlotListed(q.accessList, a, k)
        /\ x = AddSlot(q.accessList, a, k)
    <3>1. CASE a \in DOMAIN al.addresses
      <4>1. q.accessList = al
        BY <1>2, <2>4, <3>1, AddAddressAccess
      <4>2. QED
        BY <1>5, <2>1, <3>1, <4>1
    <3>2. CASE a \notin DOMAIN al.addresses
      <4>1. a \in DOMAIN q.accessList.addresses /\ q.accessList.addresses[a] = 0
        BY <1>2, <2>4, <3>2, AddAddressAccess
      <4>2. x = AddSlot(q.accessList, a, k)
        BY <1>2, <2>1, <2>4, <3>2, AddSlotAccess
      <4>3. QED
        BY <4>1, <4>2 DEF SlotListed
    <3>3. QED
      BY <3>1, <3>2
  <2>7. /\ r \in Db /\ r.journal = Append(p.journal, e) /\ r.dirties = p.dirties
        /\ r.objs = p.objs /\ r.refund = p.refund /\ r.logs = p.logs
        /\ r.transient = p.transient /\ r.accessList = p.accessList
        /\ r.cache = p.cache /\ r.panic = p.panic /\ r.validRevisions = p.validRevisions
        /\ r.nextRevisionID = p.nextRevisionID
        /\ r.precompileCallsCounter = p.precompileCallsCounter
    <3>1. p \in Db /\ r = append(p, e)
      BY <2>1, <2>3
    <3>2. QED
      BY <1>3, <3>1, AppendFields
  <2>8. x \in AccessList
    BY <1>2, <2>1, AddSlotAccess
  <2>9. /\ t \in Db /\ t.journal = r.journal /\ t.dirties = r.dirties
        /\ t.objs = r.objs /\ t.refund = r.refund /\ t.logs = r.logs
        /\ t.transient = r.transient /\ t.accessList = x
        /\ t.cache = r.cache /\ t.panic = r.panic /\ t.validRevisions = r.validRevisions
        /\ t.nextRevisionID = r.nextRevisionID
        /\ t.precompileCallsCounter = r.precompileCallsCounter
    BY <2>1, <2>7, <2>8 DEF Db
  <2>10. /\ t \in Db /\ t.journal = Append(q.journal, e) /\ t.dirties = q.dirties
         /\ t.objs = q.objs /\ t.refund = q.refund /\ t.logs = q.logs
         /\ t.transient = q.transient /\ t.accessList = AddSlot(q.accessList, a, k)
         /\ t.cache = q.cache /\ t.panic = q.panic /\ t.validRevisions = q.validRevisions
         /\ t.nextRevisionID = q.nextRevisionID
         /\ t.precompileCallsCounter = q.precompileCallsCounter
    BY <2>3, <2>6, <2>7, <2>9, Zenon
  <2>11. Writes(q, t)
    BY <1>1, <2>3, <2>5, <2>6, <2>10, SlotWrites
  <2>12. Writes(s, t)
    BY <2>3, <2>11, WritesTwice
  <2>13. AddSlotToAccessList(s, a, k) = t
    <3>1. AddSlotToAccessList(s, a, k) = [r EXCEPT !.accessList = AddSlot(@, a, k)]
      BY <1>1, <1>5, <2>1 DEF AddSlotToAccessList
    <3>2. r.accessList = al
      BY <2>3, <2>7
    <3>3. QED
      BY <2>1, <3>1, <3>2
  <2>14. QED
    BY <2>12, <2>13
<1>6. QED
  BY <1>4, <1>5

(***************************************************************************)
(* What commitWithCtx writes.                                              *)
(***************************************************************************)
Deleted(st, D) ==
    [acct |-> [a \in Addr |-> IF a \in D THEN Missing ELSE st.acct[a]],
     storage |-> [a \in Addr |-> IF a \in D THEN NoStorage ELSE st.storage[a]],
     native |-> st.native]

WrittenSlots(s, st, a) ==
    [k \in Slot |-> IF k \in DOMAIN s.objs[a].dirty THEN s.objs[a].dirty[k] ELSE st.storage[a][k]]

Stored(st, s, K) ==
    [acct |-> [a \in Addr |-> IF a \in K THEN s.objs[a].account ELSE st.acct[a]],
     storage |-> [a \in Addr |-> IF a \in K THEN WrittenSlots(s, st, a) ELSE st.storage[a]],
     native |-> st.native]

DeleteAll(st, D) == FoldSet(LAMBDA a, t : DeleteAccount(t, a), st, D)
StoreAll(st, s, K) == FoldSet(LAMBDA a, t : SetAccount(t, a, s.objs[a]), st, K)

\* A store with other accounts and other storage.
LEMMA StoreWith ==
    ASSUME NEW A, NEW B, NEW n, NEW C, NEW D, NEW st, st = [acct |-> A, storage |-> B, native |-> n]
    PROVE  [st EXCEPT !.acct = C, !.storage = D] = [acct |-> C, storage |-> D, native |-> n]
<1>1. PICK u : u = [st EXCEPT !.acct = C]
  OBVIOUS
<1>2. u = [acct |-> C, storage |-> B, native |-> n]
  BY <1>1
<1>3. [st EXCEPT !.acct = C, !.storage = D] = [u EXCEPT !.storage = D]
  BY <1>1
<1>4. QED
  BY <1>2, <1>3

\* Accounts deleted one by one.
LEMMA FoldDelete ==
    ASSUME NEW st \in Store, NEW D \in SUBSET Addr
    PROVE  DeleteAll(st, D) = Deleted(st, D)
<1> DEFINE Iter(it) == it = [x \in SUBSET D |->
                                IF x = {} THEN st
                                ELSE DeleteAccount(it[x \ {CHOOSE y \in x : TRUE}], CHOOSE y \in x : TRUE)]
           iter == CHOOSE it : Iter(it)
           closed == [x \in SUBSET D |-> Deleted(st, x)]
           pick == [x \in SUBSET D |-> CHOOSE y \in x : TRUE]
<1>1. IsFiniteSet(D)
  BY ParameterAssumption, FS_Subset
<1>2. st \in [acct: [Addr -> Account \cup {Missing}], storage: [Addr -> [Slot -> Value]], native: Nat]
  BY DEF Store
<1>3. closed[{}] = st
  <2>1. Deleted(st, {}) = st
    BY <1>2 DEF Deleted
  <2>2. QED
    BY <2>1
<1>4. ASSUME NEW x \in SUBSET D, NEW p \in x
      PROVE  closed[x] = DeleteAccount(closed[x \ {p}], p)
  <2>1. PICK y : y = x \ {p}
    OBVIOUS
  <2>2. closed[x] = Deleted(st, x) /\ closed[y] = Deleted(st, y)
    BY <2>1
  <2>3. [Deleted(st, y).acct EXCEPT ![p] = Missing] = Deleted(st, x).acct
    BY <2>1 DEF Deleted
  <2>4. [Deleted(st, y).storage EXCEPT ![p] = NoStorage] = Deleted(st, x).storage
    BY <2>1 DEF Deleted
  <2>5. DeleteAccount(Deleted(st, y), p) =
            [acct |-> [Deleted(st, y).acct EXCEPT ![p] = Missing],
             storage |-> [Deleted(st, y).storage EXCEPT ![p] = NoStorage],
             native |-> st.native]
    <3>1. PICK u, A, B : u = Deleted(st, y) /\ A = u.acct /\ B = u.storage
      OBVIOUS
    <3>2. u = [acct |-> A, storage |-> B, native |-> st.native]
      BY <3>1 DEF Deleted
    <3>3. DeleteAccount(u, p) = [u EXCEPT !.acct = [A EXCEPT ![p] = Missing], !.storage = [B EXCEPT ![p] = NoStorage]]
      BY <3>1 DEF DeleteAccount
    <3>4. DeleteAccount(u, p) = [acct |-> [A EXCEPT ![p] = Missing], storage |-> [B EXCEPT ![p] = NoStorage],
                                 native |-> st.native]
      <4>1. PICK C, E : C = [A EXCEPT ![p] = Missing] /\ E = [B EXCEPT ![p] = NoStorage]
        OBVIOUS
      <4>2. DeleteAccount(u, p) = [u EXCEPT !.acct = C, !.storage = E]
        BY <3>3, <4>1
      <4>3. DeleteAccount(u, p) = [acct |-> C, storage |-> E, native |-> st.native]
        BY <3>2, <4>2, StoreWith, Zenon
      <4>4. QED
        BY <4>1, <4>3
    <3>5. QED
      BY <3>1, <3>4
  <2>6. Deleted(st, x) = [acct |-> Deleted(st, x).acct, storage |-> Deleted(st, x).storage, native |-> st.native]
    BY DEF Deleted
  <2>7. QED
    BY <2>1, <2>2, <2>3, <2>4, <2>5, <2>6
<1>5. \A x \in SUBSET D : x # {} => (CHOOSE y \in x : TRUE) \in x
  OBVIOUS
<1>6. closed = [x \in SUBSET D |-> closed[x]] /\ closed[D] = Deleted(st, D)
  OBVIOUS
<1> HIDE DEF closed
<1>7. Iter(closed)
  BY <1>3, <1>4, <1>5, <1>6
<1>8. Iter(iter)
  BY <1>7
<1>9. DeleteAll(st, D) = iter[D]
  BY DEF DeleteAll, FoldSet, MapThenFoldSet
<1> HIDE DEF iter
<1>10. \A x \in SUBSET D : iter[x] = IF x = {} THEN st
                                     ELSE DeleteAccount(iter[x \ {pick[x]}], pick[x])
  BY <1>8
<1>11. \A x \in SUBSET D : x # {} => pick[x] \in x
  BY <1>5
<1> HIDE DEF pick
<1>12. \A x \in SUBSET D : iter[x] = closed[x]
  <2>1. ASSUME NEW x \in SUBSET D, x # {}
        PROVE  /\ pick[x] \in x
               /\ iter[x \ {pick[x]}] = closed[x \ {pick[x]}] => iter[x] = closed[x]
    <3>1. PICK p : p = pick[x]
      OBVIOUS
    <3>2. p \in x /\ iter[x] = DeleteAccount(iter[x \ {p}], p)
      BY <1>10, <1>11, <2>1, <3>1
    <3>3. closed[x] = DeleteAccount(closed[x \ {p}], p)
      BY <1>4, <3>2
    <3>4. QED
      BY <3>1, <3>2, <3>3
  <2>2. iter[{}] = closed[{}]
    BY <1>3, <1>10
  <2>3. SameSteps(D, pick, iter, closed)
    BY <2>1, <2>2 DEF SameSteps
  <2>4. QED
    BY <1>1, <2>3, FoldIs
<1>13. iter[D] = Deleted(st, D)
  BY <1>6, <1>12
<1>14. QED
  BY <1>9, <1>13

\* Objects written one by one.
LEMMA FoldStore ==
    ASSUME NEW st \in Store, NEW s, NEW K \in SUBSET Addr
    PROVE  StoreAll(st, s, K) = Stored(st, s, K)
<1> DEFINE Iter(it) == it = [x \in SUBSET K |->
                                IF x = {} THEN st
                                ELSE SetAccount(it[x \ {CHOOSE y \in x : TRUE}], CHOOSE y \in x : TRUE,
                                                s.objs[CHOOSE y \in x : TRUE])]
           iter == CHOOSE it : Iter(it)
           closed == [x \in SUBSET K |-> Stored(st, s, x)]
           pick == [x \in SUBSET K |-> CHOOSE y \in x : TRUE]
<1>1. IsFiniteSet(K)
  BY ParameterAssumption, FS_Subset
<1>2. st \in [acct: [Addr -> Account \cup {Missing}], storage: [Addr -> [Slot -> Value]], native: Nat]
  BY DEF Store
<1>3. closed[{}] = st
  <2>1. Stored(st, s, {}) = st
    BY <1>2 DEF Stored
  <2>2. QED
    BY <2>1
<1>4. ASSUME NEW x \in SUBSET K, NEW p \in x
      PROVE  closed[x] = SetAccount(closed[x \ {p}], p, s.objs[p])
  <2>1. PICK y, u : y = x \ {p} /\ u = Stored(st, s, y)
    OBVIOUS
  <2>2. closed[x] = Stored(st, s, x) /\ closed[y] = u
    BY <2>1
  <2>3. [u.acct EXCEPT ![p] = s.objs[p].account] = Stored(st, s, x).acct
    BY <2>1 DEF Stored
  <2>4. u.storage[p] = st.storage[p]
    BY <2>1 DEF Stored
  <2>5. [u.storage EXCEPT ![p] = WrittenSlots(s, st, p)] = Stored(st, s, x).storage
    BY <2>1 DEF Stored
  <2>6. SetAccount(u, p, s.objs[p]) =
            [acct |-> [u.acct EXCEPT ![p] = s.objs[p].account],
             storage |-> [u.storage EXCEPT ![p] = WrittenSlots(s, st, p)],
             native |-> st.native]
    <3>1. PICK A, B : A = u.acct /\ B = u.storage
      OBVIOUS
    <3>2. u = [acct |-> A, storage |-> B, native |-> st.native]
      BY <2>1, <3>1 DEF Stored
    <3>3. SetAccount(u, p, s.objs[p]) =
              [u EXCEPT !.acct = [A EXCEPT ![p] = s.objs[p].account],
                        !.storage = [B EXCEPT ![p] = [k \in Slot |-> IF k \in DOMAIN s.objs[p].dirty
                                                                     THEN s.objs[p].dirty[k] ELSE B[p][k]]]]
      BY <3>1 DEF SetAccount
    <3>4. [k \in Slot |-> IF k \in DOMAIN s.objs[p].dirty THEN s.objs[p].dirty[k] ELSE B[p][k]]
              = WrittenSlots(s, st, p)
      BY <2>4, <3>1 DEF WrittenSlots
    <3>5. PICK C, E : C = [A EXCEPT ![p] = s.objs[p].account] /\ E = [B EXCEPT ![p] = WrittenSlots(s, st, p)]
      OBVIOUS
    <3>6. SetAccount(u, p, s.objs[p]) = [u EXCEPT !.acct = C, !.storage = E]
      BY <3>3, <3>4, <3>5
    <3>7. SetAccount(u, p, s.objs[p]) = [acct |-> C, storage |-> E, native |-> st.native]
      BY <3>2, <3>6, StoreWith, Zenon
    <3>8. QED
      BY <3>1, <3>5, <3>7
  <2>7. Stored(st, s, x) = [acct |-> Stored(st, s, x).acct, storage |-> Stored(st, s, x).storage, native |-> st.native]
    BY DEF Stored
  <2>8. QED
    BY <2>1, <2>2, <2>3, <2>5, <2>6, <2>7
<1>5. \A x \in SUBSET K : x # {} => (CHOOSE y \in x : TRUE) \in x
  OBVIOUS
<1>6. closed = [x \in SUBSET K |-> closed[x]] /\ closed[K] = Stored(st, s, K)
  OBVIOUS
<1> HIDE DEF closed
<1>7. Iter(closed)
  BY <1>3, <1>4, <1>5, <1>6
<1>8. Iter(iter)
  BY <1>7
<1>9. StoreAll(st, s, K) = iter[K]
  BY DEF StoreAll, FoldSet, MapThenFoldSet
<1> HIDE DEF iter
<1>10. \A x \in SUBSET K : iter[x] = IF x = {} THEN st
                                     ELSE SetAccount(iter[x \ {pick[x]}], pick[x], s.objs[pick[x]])
  BY <1>8
<1>11. \A x \in SUBSET K : x # {} => pick[x] \in x
  BY <1>5
<1> HIDE DEF pick
<1>12. \A x \in SUBSET K : iter[x] = closed[x]
  <2>1. ASSUME NEW x \in SUBSET K, x # {}
        PROVE  /\ pick[x] \in x
               /\ iter[x \ {pick[x]}] = closed[x \ {pick[x]}] => iter[x] = closed[x]
    <3>1. PICK p : p = pick[x]
      OBVIOUS
    <3>2. p \in x /\ iter[x] = SetAccount(iter[x \ {p}], p, s.objs[p])
      BY <1>10, <1>11, <2>1, <3>1
    <3>3. closed[x] = SetAccount(closed[x \ {p}], p, s.objs[p])
      BY <1>4, <3>2
    <3>4. QED
      BY <3>1, <3>2, <3>3
  <2>2. iter[{}] = closed[{}]
    BY <1>3, <1>10
  <2>3. SameSteps(K, pick, iter, closed)
    BY <2>1, <2>2 DEF SameSteps
  <2>4. QED
    BY <1>1, <2>3, FoldIs
<1>13. iter[K] = Stored(st, s, K)
  BY <1>6, <1>12
<1>14. QED
  BY <1>9, <1>13

\* The accounts commitWithCtx looks at, those it deletes and those it writes.
Live(s, a) == s.dirties[a] > 0 /\ s.objs[a] # Missing
Goes(s, st, a) == Live(s, a) /\ s.objs[a].destructed /\ CanDelete(st, a)
Stays(s, st, a) == Live(s, a) /\ ~s.objs[a].destructed /\ CanSet(st, a, s.objs[a])

\* What commitWithCtx leaves in the store for each account, and when it succeeds.
LEMMA CommitStore ==
    ASSUME NEW s \in Db, NEW st \in Store, NEW c, c = commitWithCtx(s, st)
    PROVE  /\ c.st \in Store /\ c.st.native = st.native
           /\ \A a \in Addr :
                 /\ c.st.acct[a] = IF Stays(s, st, a) THEN s.objs[a].account
                                   ELSE IF Goes(s, st, a) THEN Missing ELSE st.acct[a]
                 /\ c.st.storage[a] = IF Stays(s, st, a) THEN WrittenSlots(s, st, a)
                                      ELSE IF Goes(s, st, a) THEN NoStorage ELSE st.storage[a]
           /\ c.ok <=> \A a \in Addr : Live(s, a) => IF s.objs[a].destructed THEN CanDelete(st, a)
                                                     ELSE CanSet(st, a, s.objs[a])
<1>1. PICK G, K : /\ G = {a \in Addr : Goes(s, st, a)} /\ K = {a \in Addr : Stays(s, st, a)}
  OBVIOUS
<1>2. PICK d, u : d = Deleted(st, G) /\ u = Stored(d, s, K)
  OBVIOUS
<1>3. /\ st.acct \in [Addr -> Account \cup {Missing}] /\ st.storage \in [Addr -> [Slot -> Value]]
      /\ st.native \in Nat
  BY DEF Store
<1>4. NoStorage \in [Slot -> Value]
  BY ParameterAssumption DEF NoStorage
<1>5. d \in Store /\ d.native = st.native
      /\ \A a \in Addr : /\ d.acct[a] = IF a \in G THEN Missing ELSE st.acct[a]
                         /\ d.storage[a] = IF a \in G THEN NoStorage ELSE st.storage[a]
  BY <1>2, <1>3, <1>4 DEF Deleted, Store
<1>6. \A a \in K : s.objs[a] \in Object
  <2>1. s.objs \in [Addr -> Object \cup {Missing}]
    BY DEF Db
  <2>2. QED
    BY <1>1, <2>1 DEF Stays, Live
<1>7. \A a \in K : s.objs[a].account \in Account /\ \A k \in DOMAIN s.objs[a].dirty : s.objs[a].dirty[k] \in Value
  BY <1>6, ObjectFields
<1>8. /\ d.acct \in [Addr -> Account \cup {Missing}] /\ d.storage \in [Addr -> [Slot -> Value]]
      /\ d.native \in Nat
  BY <1>5 DEF Store
<1>9. \A a \in K : WrittenSlots(s, d, a) \in [Slot -> Value]
  <2> SUFFICES ASSUME NEW a \in K PROVE WrittenSlots(s, d, a) \in [Slot -> Value]
    OBVIOUS
  <2>1. a \in Addr
    BY <1>1
  <2>2. \A k \in Slot : d.storage[a][k] \in Value
    BY <1>8, <2>1
  <2>3. QED
    BY <1>7, <2>2 DEF WrittenSlots
<1>10. u \in Store /\ u.native = st.native
       /\ \A a \in Addr : /\ u.acct[a] = IF a \in K THEN s.objs[a].account ELSE d.acct[a]
                          /\ u.storage[a] = IF a \in K THEN WrittenSlots(s, d, a) ELSE d.storage[a]
  <2>1. PICK A, B : /\ A = [a \in Addr |-> IF a \in K THEN s.objs[a].account ELSE d.acct[a]]
                    /\ B = [a \in Addr |-> IF a \in K THEN WrittenSlots(s, d, a) ELSE d.storage[a]]
    OBVIOUS
  <2>2. A \in [Addr -> Account \cup {Missing}]
    BY <1>7, <1>8, <2>1
  <2>3. B \in [Addr -> [Slot -> Value]]
    BY <1>8, <1>9, <2>1
  <2>4. u = [acct |-> A, storage |-> B, native |-> d.native]
    BY <1>2, <2>1 DEF Stored
  <2>5. QED
    BY <1>5, <1>8, <2>1, <2>2, <2>3, <2>4 DEF Store
<1>11. \A a \in K : WrittenSlots(s, d, a) = WrittenSlots(s, st, a)
  <2> SUFFICES ASSUME NEW a \in K PROVE WrittenSlots(s, d, a) = WrittenSlots(s, st, a)
    OBVIOUS
  <2>1. a \in Addr /\ a \notin G
    BY <1>1 DEF Goes, Stays
  <2>2. d.storage[a] = st.storage[a]
    BY <1>5, <2>1
  <2>3. QED
    BY <2>2 DEF WrittenSlots
<1>12. c.st = StoreAll(DeleteAll(st, G), s, K)
  <2>1. PICK live : live = {a \in DirtyAddrs(s) : s.objs[a] # Missing}
    OBVIOUS
  <2>2. PICK gone, kept : gone = {a \in live : s.objs[a].destructed} /\ kept = live \ gone
    OBVIOUS
  <2>3. PICK X, Y : /\ X = {a \in gone : CanDelete(st, a)}
                    /\ Y = {a \in kept : CanSet(st, a, s.objs[a])}
    OBVIOUS
  <2>4. X = G /\ Y = K
    BY <1>1, <2>1, <2>2, <2>3 DEF Goes, Stays, Live, DirtyAddrs
  <2>5. c.st = StoreAll(DeleteAll(st, X), s, Y)
    BY <2>1, <2>2, <2>3 DEF commitWithCtx, StoreAll, DeleteAll, FoldSet, MapThenFoldSet
  <2>6. QED
    BY <2>4, <2>5
<1>13. c.st = u
  <2>1. G \in SUBSET Addr /\ K \in SUBSET Addr
    BY <1>1
  <2>2. DeleteAll(st, G) = d
    BY <1>2, <2>1, FoldDelete
  <2>3. StoreAll(d, s, K) = u
    BY <1>2, <1>5, <2>1, FoldStore
  <2>4. QED
    BY <1>12, <2>2, <2>3
<1>14. c.ok <=> \A a \in Addr : Live(s, a) => IF s.objs[a].destructed THEN CanDelete(st, a)
                                              ELSE CanSet(st, a, s.objs[a])
  <2>1. PICK live : live = {a \in DirtyAddrs(s) : s.objs[a] # Missing}
    OBVIOUS
  <2>2. PICK gone, kept : gone = {a \in live : s.objs[a].destructed} /\ kept = live \ gone
    OBVIOUS
  <2>3. c.ok <=> (\A a \in gone : CanDelete(st, a)) /\ \A a \in kept : CanSet(st, a, s.objs[a])
    BY <2>1, <2>2 DEF commitWithCtx, FoldSet, MapThenFoldSet
  <2>4. \A a : a \in gone <=> a \in Addr /\ Live(s, a) /\ s.objs[a].destructed
    BY <2>1, <2>2 DEF Live, DirtyAddrs
  <2>5. \A a : a \in kept <=> a \in Addr /\ Live(s, a) /\ ~s.objs[a].destructed
    BY <2>1, <2>2 DEF Live, DirtyAddrs
  <2>6. QED
    BY <2>3, <2>4, <2>5
<1>15. QED
  BY <1>1, <1>5, <1>10, <1>11, <1>13, <1>14

\* The cache context, or the store without one, is a store.
LEMMA CurrentType ==
    ASSUME store \in Store, NEW s \in Db
    PROVE  Current(s) \in Store
<1>1. s.cache \in Seq(Store)
  BY DEF Db
<1>2. QED
  BY <1>1 DEF Current, Last

\* A commit that is not refused leaves what the EVM sees.
LEMMA CommitShows ==
    ASSUME store \in Store, NEW s \in Db, Good(s), NEW c, c = commitWithCtx(s, Current(s)), c.ok,
           NEW a \in Addr \ Blocked
    PROVE  IF Exist(s, a) /\ getStateObject(s, a).destructed
           THEN c.st.acct[a] = Missing /\ c.st.storage[a] = NoStorage
           ELSE /\ c.st.acct[a] = IF Exist(s, a) THEN getStateObject(s, a).account ELSE Missing
                /\ \A k \in Slot : c.st.storage[a][k] = GetState(s, a, k)
<1>1. PICK st, o : st = Current(s) /\ o = s.objs[a]
  OBVIOUS
<1>2. st \in Store
  BY <1>1, CurrentType
<1>3. /\ c.st.acct[a] = IF Stays(s, st, a) THEN o.account
                        ELSE IF Goes(s, st, a) THEN Missing ELSE st.acct[a]
      /\ c.st.storage[a] = IF Stays(s, st, a) THEN WrittenSlots(s, st, a)
                           ELSE IF Goes(s, st, a) THEN NoStorage ELSE st.storage[a]
      /\ Live(s, a) => IF o.destructed THEN CanDelete(st, a) ELSE CanSet(st, a, o)
  BY <1>1, <1>2, CommitStore
<1>4. s.dirties[a] \in Nat
  BY DEF Good, Synced
<1>5. CASE s.dirties[a] > 0
  <2>1. o # Missing /\ getStateObject(s, a) = o /\ Exist(s, a) /\ Live(s, a)
    BY <1>1, <1>5 DEF Good, Synced, getStateObject, Exist, Live
  <2>2. CASE o.destructed
    <3>1. Goes(s, st, a) /\ ~Stays(s, st, a)
      BY <1>1, <1>3, <2>1, <2>2 DEF Goes, Stays
    <3>2. QED
      BY <1>3, <2>1, <2>2, <3>1
  <2>3. CASE ~o.destructed
    <3>1. Stays(s, st, a)
      BY <1>1, <1>3, <2>1, <2>3 DEF Stays
    <3>2. c.st.acct[a] = o.account /\ c.st.storage[a] = WrittenSlots(s, st, a)
      BY <1>3, <3>1
    <3>3. ASSUME NEW k \in Slot PROVE WrittenSlots(s, st, a)[k] = GetState(s, a, k)
      <4>1. k \notin DOMAIN o.dirty => st.storage[a][k] = store.storage[a][k]
        BY <1>1 DEF Good, Synced, Loaded
      <4>2. QED
        BY <1>1, <2>1, <4>1 DEF WrittenSlots, GetState
    <3>4. QED
      BY <2>1, <2>3, <3>2, <3>3
  <2>4. QED
    BY <2>2, <2>3
<1>6. CASE s.dirties[a] = 0
  <2>1. ~Stays(s, st, a) /\ ~Goes(s, st, a)
    BY <1>6 DEF Stays, Goes, Live
  <2>2. c.st.acct[a] = st.acct[a] /\ c.st.storage[a] = st.storage[a]
    BY <1>3, <2>1
  <2>3. ~ (Exist(s, a) /\ getStateObject(s, a).destructed)
    BY <1>6 DEF Good, Synced
  <2>4. QED
    BY <1>1, <1>6, <2>2, <2>3 DEF Good, Synced
<1>7. QED
  BY <1>4, <1>5, <1>6

\* The same objects on what a commit wrote, but for the accounts in X.
LEMMA CommitKeepsGood ==
    ASSUME store \in Store, store.storage = [a \in Addr |-> NoStorage], NEW s \in Db, Good(s),
           NEW c, c = commitWithCtx(s, Current(s)), NEW X, NEW t \in Db,
           t.objs = s.objs, t.dirties = s.dirties, t.panic = s.panic, t.logs = s.logs,
           t.accessList = s.accessList,
           \A a \in Addr \ X : Current(t).acct[a] = c.st.acct[a],
           Current(t).storage = c.st.storage
    PROVE  GoodBut(t, X)
<1>1. PICK st, cur : st = Current(s) /\ cur = Current(t)
  OBVIOUS
<1>2. st \in Store
  BY <1>1, CurrentType
<1>3. \A a \in Addr : getStateObject(t, a) = getStateObject(s, a)
  BY DEF getStateObject
<1>4. \A a \in Addr : /\ Exist(t, a) <=> Exist(s, a)
                      /\ \A k \in Slot : /\ GetState(t, a, k) = GetState(s, a, k)
                                         /\ Loaded(t, a, k) <=> Loaded(s, a, k)
  BY <1>3 DEF Exist, GetState, Loaded
<1>5. ASSUME NEW a \in Addr \ Blocked
      PROVE  /\ a \notin X /\ t.dirties[a] = 0 =>
                   /\ cur.acct[a] = IF Exist(t, a) THEN getStateObject(t, a).account ELSE Missing
                   /\ \A k \in Slot : cur.storage[a][k] = GetState(t, a, k)
             /\ \A k \in Slot : ~Loaded(t, a, k) => cur.storage[a][k] = store.storage[a][k]
  <2>1. /\ c.st.acct[a] = IF Stays(s, st, a) THEN s.objs[a].account
                          ELSE IF Goes(s, st, a) THEN Missing ELSE st.acct[a]
        /\ c.st.storage[a] = IF Stays(s, st, a) THEN WrittenSlots(s, st, a)
                             ELSE IF Goes(s, st, a) THEN NoStorage ELSE st.storage[a]
    BY <1>1, <1>2, CommitStore
  <2>2. ASSUME a \notin X, t.dirties[a] = 0
        PROVE  /\ cur.acct[a] = IF Exist(t, a) THEN getStateObject(t, a).account ELSE Missing
               /\ \A k \in Slot : cur.storage[a][k] = GetState(t, a, k)
    <3>1. ~Stays(s, st, a) /\ ~Goes(s, st, a)
      BY <2>2 DEF Stays, Goes, Live
    <3>2. cur.acct[a] = st.acct[a] /\ cur.storage[a] = st.storage[a]
      BY <1>1, <2>1, <2>2, <3>1
    <3>3. /\ st.acct[a] = IF Exist(s, a) THEN getStateObject(s, a).account ELSE Missing
          /\ \A k \in Slot : st.storage[a][k] = GetState(s, a, k)
      BY <1>1, <2>2 DEF Good, Synced
    <3>4. QED
      BY <1>3, <1>4, <3>2, <3>3
  <2>3. ASSUME NEW k \in Slot, ~Loaded(t, a, k) PROVE cur.storage[a][k] = store.storage[a][k]
    <3>1. ~Loaded(s, a, k) /\ st.storage[a][k] = store.storage[a][k]
      BY <1>1, <1>4, <2>3 DEF Good, Synced
    <3>2. cur.storage[a] = c.st.storage[a]
      BY <1>1
    <3>3. CASE Stays(s, st, a)
      <4>1. k \notin DOMAIN s.objs[a].dirty
        BY <3>1, <3>3 DEF Loaded, Stays, Live
      <4>2. QED
        BY <2>1, <3>1, <3>2, <3>3, <4>1 DEF WrittenSlots
    <3>4. CASE ~Stays(s, st, a) /\ Goes(s, st, a)
      BY <2>1, <3>2, <3>4 DEF NoStorage
    <3>5. CASE ~Stays(s, st, a) /\ ~Goes(s, st, a)
      BY <2>1, <3>1, <3>2, <3>5
    <3>6. QED
      BY <3>3, <3>4, <3>5
  <2>4. QED
    BY <2>2, <2>3
<1>6. \A a \in Addr :
          /\ t.dirties[a] \in Nat
          /\ t.dirties[a] > 0 => t.objs[a] # Missing
          /\ Exist(t, a) /\ getStateObject(t, a).destructed => t.dirties[a] > 0
  BY <1>3, <1>4 DEF Good, Synced
<1>7. ~t.panic /\ t.logs \in Nat /\ AccessSound(t.accessList)
  BY DEF Good
<1>8. QED
  BY <1>1, <1>5, <1>6, <1>7 DEF GoodBut

(***************************************************************************)
(* Precompile calls.                                                       *)
(***************************************************************************)
\* A state that covers s, with the journal of s, continues s.
LEMMA CoversContinues ==
    ASSUME NEW s \in Db, NEW t \in Db, Covers(t, s), t.journal = s.journal,
           t.validRevisions = s.validRevisions, t.nextRevisionID = s.nextRevisionID
    PROVE  Continues(s, t)
<1>1. Len(s.journal) \in Nat
  BY DEF Db
<1>2. ASSUME NEW c, History(s, c) PROVE History(t, c)
  <2>1. Covers(t, c[Len(s.journal)])
    BY <1>2, CoversTransitive DEF History
  <2>2. QED
    BY <1>2, <2>1 DEF History
<1>3. CountsAt(s, s.journal, Len(s.journal)) => CountsAt(t, t.journal, Len(t.journal))
  BY DEF CountsAt, Covers, RestSame
<1>4. QED
  BY <1>1, <1>2, <1>3 DEF Continues

\* Making the cache context changes nothing the EVM sees.
LEMMA CacheMade ==
    ASSUME store \in Store, NEW s \in Db, NEW t, t = GetCacheContext(s)
    PROVE  /\ t \in Db /\ Covers(t, s) /\ t.cache # << >>
           /\ t.objs = s.objs /\ t.journal = s.journal /\ t.dirties = s.dirties
           /\ t.validRevisions = s.validRevisions /\ t.nextRevisionID = s.nextRevisionID
           /\ t.precompileCallsCounter = s.precompileCallsCounter
<1>1. CASE s.cache # << >>
  BY <1>1, CoversReflexive DEF GetCacheContext
<1>2. CASE s.cache = << >>
  <2>1. t = [s EXCEPT !.cache = <<store>>]
    BY <1>2 DEF GetCacheContext
  <2>2. <<store>> \in Seq(Store) /\ <<store>> # << >>
    OBVIOUS
  <2>3. /\ t \in Db /\ t.cache = <<store>> /\ t.objs = s.objs /\ t.journal = s.journal
        /\ t.dirties = s.dirties /\ t.refund = s.refund /\ t.logs = s.logs
        /\ t.transient = s.transient /\ t.accessList = s.accessList /\ t.panic = s.panic
        /\ t.validRevisions = s.validRevisions /\ t.nextRevisionID = s.nextRevisionID
        /\ t.precompileCallsCounter = s.precompileCallsCounter
    BY <2>1, <2>2 DEF Db
  <2>4. \A a \in Addr : getStateObject(t, a) = getStateObject(s, a)
    BY <2>3 DEF getStateObject
  <2>5. Covers(t, s)
    BY <1>2, <2>3, <2>4 DEF Covers, RestSame, AccountCovers, ObjectCovers, Exist
  <2>6. QED
    BY <2>2, <2>3, <2>5
<1>3. QED
  BY <1>1, <1>2

\* In t a call runs on the cache context of s, and st is what it has written.
Calls(s, t, st) ==
    /\ t \in Db /\ t.objs = s.objs /\ t.dirties = s.dirties
    /\ t.journal = Append(s.journal, [type |-> "precompile", snapshot |-> Len(s.cache)])
    /\ t.cache = Append(s.cache, st)
    /\ t.refund = s.refund /\ t.logs = s.logs /\ t.transient = s.transient
    /\ t.accessList = s.accessList /\ t.panic = s.panic
    /\ t.validRevisions = s.validRevisions /\ t.nextRevisionID = s.nextRevisionID

\* Whatever the call wrote, undoing its entry goes back to the snapshot.
LEMMA CallContinues ==
    ASSUME store \in Store, NEW s \in Db, s.cache # << >>, NEW st \in Store, NEW t, Calls(s, t, st)
    PROVE  Continues(s, t) /\ Current(t) = st /\ Len(t.journal) = Len(s.journal) + 1
<1>1. PICK e : e = [type |-> "precompile", snapshot |-> Len(s.cache)]
  OBVIOUS
<1>2. s.cache \in Seq(Store) /\ Len(s.cache) \in Nat \ {0} /\ s.journal \in Seq(Entry)
  BY DEF Db
<1>3. /\ e \in Entry /\ e.type = "precompile" /\ e.snapshot = Len(s.cache)
      /\ e.type \notin DirtyTypes /\ e.type \notin ObjectTypes
  BY <1>1, <1>2 DEF Entry, DirtyTypes, ObjectTypes
<1>4. PICK q : q = t.cache
  OBVIOUS
<1>5. q = Append(s.cache, st) /\ Len(q) = Len(s.cache) + 1 /\ q # << >>
  BY <1>2, <1>4 DEF Calls
<1>6. PICK u : u = Undo(e, t)
  OBVIOUS
<1>7. FieldsUndone(e, t, u, UndoneDirties(e, t))
  BY <1>3, <1>6, UndoFields DEF Calls
<1>8. SubSeq(q, 1, Len(s.cache)) = s.cache
  BY <1>2, <1>5
<1>9. ~UndoPanics(e, t)
  BY <1>2, <1>3, <1>4, <1>5 DEF UndoPanics
<1>10. /\ u.objs = s.objs /\ u.dirties = s.dirties /\ u.refund = s.refund /\ u.logs = s.logs
       /\ u.transient = s.transient /\ u.accessList = s.accessList
       /\ u.panic = s.panic
  <2>1. t.panic \in BOOLEAN
    BY DEF Calls, Db
  <2>2. QED
    BY <1>3, <1>7, <1>9, <2>1
       DEF FieldsUndone, UndoneObjs, UndoneDirties, UndoneAccess, UndoneTransient, Calls
<1>11. u.cache = s.cache
  BY <1>3, <1>4, <1>7, <1>8, <1>9 DEF FieldsUndone, UndoneCache
<1>12. \A b \in Addr : getStateObject(u, b) = getStateObject(s, b)
  BY <1>10 DEF getStateObject
<1>13. Covers(u, s)
  BY <1>10, <1>11, <1>12 DEF Covers, RestSame, AccountCovers, ObjectCovers, Exist
<1>14. Continues(s, t)
  <2>1. t \in Db
    BY DEF Calls
  <2>2. Journaled(s, t, e)
    BY <1>1, <1>3, <1>6, <1>13 DEF Journaled, Calls
  <2>3. QED
    BY <1>3, <2>1, <2>2, JournaledContinues
<1>15. Current(t) = st
  BY <1>2, <1>4, <1>5 DEF Current, Last
<1>16. QED
  BY <1>2, <1>14, <1>15 DEF Calls

\* A call begins with a copy of the cache context, its journal entry and its count.
LEMMA CallStarts ==
    ASSUME store \in Store, NEW s \in Db, s.cache # << >>, NEW t,
           t = AddPrecompileFn(MultiStoreSnapshot(s), Len(s.cache))
    PROVE  /\ Calls(s, t, Current(s)) /\ Current(s) \in Store
           /\ Good(s) => Good(t)
<1>1. PICK e, m, r : /\ e = [type |-> "precompile", snapshot |-> Len(s.cache)]
                     /\ m = MultiStoreSnapshot(s) /\ r = append(m, e)
  OBVIOUS
<1>2. s.cache \in Seq(Store) /\ Len(s.cache) \in Nat
  BY DEF Db
<1>3. e \in Entry /\ e.type \notin DirtyTypes
  BY <1>1, <1>2 DEF Entry, DirtyTypes
<1>4. Current(s) \in Store /\ Last(s.cache) = Current(s)
  BY CurrentType DEF Current
<1>5. Append(s.cache, Current(s)) \in Seq(Store)
  BY <1>2, <1>4
<1>6. m = [s EXCEPT !.cache = Append(s.cache, Current(s))]
  BY <1>1, <1>4 DEF MultiStoreSnapshot
<1>7. /\ m \in Db /\ m.cache = Append(s.cache, Current(s)) /\ m.objs = s.objs /\ m.journal = s.journal
      /\ m.dirties = s.dirties /\ m.refund = s.refund /\ m.logs = s.logs
      /\ m.transient = s.transient /\ m.accessList = s.accessList /\ m.panic = s.panic
      /\ m.validRevisions = s.validRevisions /\ m.nextRevisionID = s.nextRevisionID
  BY <1>5, <1>6 DEF Db
<1>8. /\ r \in Db /\ r.journal = Append(m.journal, e) /\ r.dirties = m.dirties
      /\ r.objs = m.objs /\ r.refund = m.refund /\ r.logs = m.logs
      /\ r.transient = m.transient /\ r.accessList = m.accessList
      /\ r.cache = m.cache /\ r.panic = m.panic /\ r.validRevisions = m.validRevisions
      /\ r.nextRevisionID = m.nextRevisionID
  BY <1>1, <1>3, <1>7, AppendFields
<1>9. (r.precompileCallsCounter + 1) % CounterSize \in 0 .. CounterSize - 1
  <2>1. CounterSize \in Nat /\ CounterSize > 0 /\ r.precompileCallsCounter \in Nat
    BY <1>8, ParameterAssumption, SMTT(40) DEF Db
  <2>2. QED
    BY <2>1
<1>10. t = [r EXCEPT !.precompileCallsCounter = (r.precompileCallsCounter + 1) % CounterSize]
  BY <1>1 DEF AddPrecompileFn
<1>11. /\ t \in Db /\ t.journal = r.journal /\ t.dirties = r.dirties
       /\ t.objs = r.objs /\ t.refund = r.refund /\ t.logs = r.logs
       /\ t.transient = r.transient /\ t.accessList = r.accessList
       /\ t.cache = r.cache /\ t.panic = r.panic /\ t.validRevisions = r.validRevisions
       /\ t.nextRevisionID = r.nextRevisionID
  BY <1>8, <1>9, <1>10 DEF Db
<1>12. Calls(s, t, Current(s))
  BY <1>1, <1>7, <1>8, <1>11, Zenon DEF Calls
<1>13. ASSUME Good(s) PROVE Good(t)
  <2>1. Current(t) = Current(s)
    BY <1>4, <1>12, CallContinues
  <2>2. /\ t.objs = s.objs /\ t.dirties = s.dirties /\ t.logs = s.logs
        /\ t.accessList = s.accessList /\ t.panic = s.panic
    BY <1>12 DEF Calls
  <2>3. \A b \in Addr : getStateObject(t, b) = getStateObject(s, b)
    BY <2>2 DEF getStateObject
  <2>4. \A b \in Addr : /\ Exist(t, b) <=> Exist(s, b)
                        /\ \A k \in Slot : GetState(t, b, k) = GetState(s, b, k)
    BY <2>3 DEF Exist, GetState
  <2>5. \A b \in Addr : \A k \in Slot : Loaded(t, b, k) <=> Loaded(s, b, k)
    BY <2>2 DEF Loaded
  <2>6. Synced(t)
    BY <1>13, <2>1, <2>2, <2>3, <2>4, <2>5 DEF Good, Synced
  <2>7. QED
    BY <1>13, <2>2, <2>6 DEF Good
<1>14. QED
  BY <1>4, <1>12, <1>13

\* The call writes the cache context on top.
LEMMA CallWrites ==
    ASSUME NEW s \in Db, NEW old \in Store, NEW t, Calls(s, t, old), NEW st \in Store,
           NEW u, u = [t EXCEPT !.cache[Len(t.cache)] = st]
    PROVE  Calls(s, u, st)
<1>1. s.cache \in Seq(Store) /\ Len(s.cache) \in Nat
  BY DEF Db
<1>2. PICK q : q = t.cache
  OBVIOUS
<1>3. q = Append(s.cache, old) /\ Len(q) = Len(s.cache) + 1
  BY <1>1, <1>2 DEF Calls
<1>4. [q EXCEPT ![Len(q)] = st] = Append(s.cache, st)
  <2>1. PICK n, f, p : n = Len(s.cache) + 1 /\ f = [q EXCEPT ![n] = st] /\ p = Append(s.cache, st)
    OBVIOUS
  <2>2. p \in Seq(Store) /\ Len(p) = n /\ p[n] = st /\ \A i \in 1 .. n - 1 : p[i] = s.cache[i]
    BY <1>1, <2>1
  <2>3. q \in Seq(Store) /\ Len(q) = n /\ \A i \in 1 .. n - 1 : q[i] = s.cache[i]
    BY <1>1, <1>3, <2>1
  <2>4. /\ f \in Seq(Store) /\ Len(f) = n
        /\ \A i \in 1 .. n : f[i] = IF i = n THEN st ELSE q[i]
    <3>1. n \in 1 .. Len(q)
      BY <1>1, <2>1, <2>3
    <3>2. QED
      BY <2>1, <2>3, <3>1, ExceptSeq
  <2>5. \A i \in 1 .. n : f[i] = p[i]
    <3>1. \A i \in 1 .. n : i = n \/ i \in 1 .. n - 1
      BY <1>1, <2>1
    <3>2. QED
      BY <2>2, <2>3, <2>4, <3>1
  <2>6. Len(f) = Len(p) /\ \A i \in 1 .. Len(f) : f[i] = p[i]
    BY <2>2, <2>4, <2>5
  <2>7. f = p
    BY <2>2, <2>4, <2>6, SeqEqual
  <2>8. QED
    BY <1>3, <2>1, <2>7
<1>5. Append(s.cache, st) \in Seq(Store)
  BY <1>1
<1>6. u = [t EXCEPT !.cache = Append(s.cache, st)]
  BY <1>2, <1>4
<1>7. /\ u \in Db /\ u.cache = Append(s.cache, st) /\ u.objs = t.objs /\ u.journal = t.journal
      /\ u.dirties = t.dirties /\ u.refund = t.refund /\ u.logs = t.logs
      /\ u.transient = t.transient /\ u.accessList = t.accessList /\ u.panic = t.panic
      /\ u.validRevisions = t.validRevisions /\ u.nextRevisionID = t.nextRevisionID
  <2>1. t \in Db
    BY DEF Calls
  <2>2. QED
    BY <1>5, <1>6, <2>1 DEF Db
<1>8. QED
  BY <1>7, Zenon DEF Calls

\* Setting one balance of x/bank.
LEMMA BankBalanceSet ==
    ASSUME NEW st \in Store, NEW a \in Addr, NEW n \in Nat
    PROVE  /\ BankBalance(st, a) \in Nat /\ SetBankBalance(st, a, n) \in Store
           /\ SetBankBalance(st, a, n).storage = st.storage
           /\ \A b \in Addr : b # a => SetBankBalance(st, a, n).acct[b] = st.acct[b]
<1>1. PICK old : old = IF st.acct[a] = Missing THEN NewAccount ELSE st.acct[a]
  OBVIOUS
<1>2. st.acct[a] \in Account \cup {Missing} /\ NewAccount \in Account
  BY DEF Store, Account, NewAccount
<1>3. [old EXCEPT !.bal = n] \in Account
  BY <1>1, <1>2 DEF Account
<1>4. SetBankBalance(st, a, n) = [st EXCEPT !.acct[a] = [old EXCEPT !.bal = n]]
  BY <1>1 DEF SetBankBalance
<1>5. BankBalance(st, a) \in Nat
  BY <1>2 DEF BankBalance, Account
<1>6. QED
  BY <1>3, <1>4, <1>5 DEF Store

\* What native code writes: coins moved, and the state of its module.
NativeWrites(st, from, to, n, id) == [NativeTransfer(st, from, to, n) EXCEPT !.native = id]

\* Native code moves coins it has.
LEMMA NativeMoves ==
    ASSUME NEW st \in Store, NEW from \in Addr, NEW to \in Addr, NEW n \in Nat,
           n <= BankBalance(st, from), NEW id \in Nat,
           NEW m, m = NativeWrites(st, from, to, n, id)
    PROVE  /\ m \in Store /\ m.storage = st.storage
           /\ \A a \in Addr : n = 0 \/ a \notin {from, to} => m.acct[a] = st.acct[a]
<1>1. PICK r : r = NativeTransfer(st, from, to, n)
  OBVIOUS
<1>2. /\ r \in Store /\ r.storage = st.storage
      /\ \A a \in Addr : n = 0 \/ a \notin {from, to} => r.acct[a] = st.acct[a]
  <2>1. CASE n = 0
    BY <1>1, <2>1 DEF NativeTransfer
  <2>2. CASE n # 0
    <3>1. PICK p : p = SetBankBalance(st, from, BankBalance(st, from) - n)
      OBVIOUS
    <3>2. BankBalance(st, from) - n \in Nat
      <4>1. BankBalance(st, from) \in Nat
        BY BankBalanceSet
      <4>2. QED
        BY <4>1
    <3>3. /\ p \in Store /\ p.storage = st.storage
          /\ \A a \in Addr : a # from => p.acct[a] = st.acct[a]
      BY <3>1, <3>2, BankBalanceSet
    <3>4. BankBalance(p, to) + n \in Nat
      <4>1. BankBalance(p, to) \in Nat
        BY <3>3, BankBalanceSet
      <4>2. QED
        BY <4>1
    <3>5. r = SetBankBalance(p, to, BankBalance(p, to) + n)
      BY <1>1, <2>2, <3>1 DEF NativeTransfer
    <3>6. /\ r \in Store /\ r.storage = p.storage
          /\ \A a \in Addr : a # to => r.acct[a] = p.acct[a]
      <4>1. PICK k : k = BankBalance(p, to) + n
        OBVIOUS
      <4>2. k \in Nat /\ r = SetBankBalance(p, to, k)
        BY <3>4, <3>5, <4>1
      <4>3. p \in Store
        BY <3>3
      <4>4. /\ SetBankBalance(p, to, k) \in Store /\ SetBankBalance(p, to, k).storage = p.storage
            /\ \A a \in Addr : a # to => SetBankBalance(p, to, k).acct[a] = p.acct[a]
        BY <4>2, <4>3, BankBalanceSet
      <4>5. QED
        BY <4>2, <4>4
    <3>7. QED
      BY <2>2, <3>3, <3>6
  <2>3. QED
    BY <2>1, <2>2
<1>3. m = [r EXCEPT !.native = id]
  BY <1>1 DEF NativeWrites
<1>4. m \in Store /\ m.storage = r.storage /\ m.acct = r.acct
  BY <1>2, <1>3 DEF Store
<1>5. QED
  BY <1>2, <1>4

\* The event of the sender: the object follows x/bank.
LEMMA Spends ==
    ASSUME store \in Store, NEW s \in Db, NEW X, GoodBut(s, X), NEW a \in Addr,
           NEW n \in Nat, n # 0,
           a \notin Blocked => Exist(s, a) /\ n <= getStateObject(s, a).account.bal,
           NEW t, t = MirrorSpent(s, a, n)
    PROVE  t \in Db /\ Continues(s, t) /\ GoodBut(t, X \ ({a} \ Blocked))
<1>1. CASE a \in Blocked
  <2>1. t = s
    BY <1>1 DEF MirrorSpent
  <2>2. X \ ({a} \ Blocked) = X
    BY <1>1
  <2>3. QED
    BY <2>1, <2>2, ContinuesReflexive
<1>2. CASE a \notin Blocked
  <2>1. t = SubBalance(s, a, n)
    BY <1>2 DEF MirrorSpent
  <2>2. PICK g : g = getStateObject(getOrNew(s, a), a)
    OBVIOUS
  <2>3. n <= g.account.bal
    BY <1>2, <2>2 DEF getOrNew
  <2>4. Dirties(s, t, a, WithBalance(g, g.account.bal - n))
    BY <2>1, <2>2, <2>3, SubBalanceWrites
  <2>5. GoodBut(t, X \ {a})
    BY <2>4, DirtiesGoodBut
  <2>6. X \ ({a} \ Blocked) = X \ {a}
    BY <1>2
  <2>7. QED
    BY <2>4, <2>5, <2>6 DEF Dirties
<1>3. QED
  BY <1>1, <1>2

\* The event of the receiver.
LEMMA Receives ==
    ASSUME store \in Store, NEW s \in Db, NEW X, GoodBut(s, X), NEW a \in Addr,
           NEW n \in Nat, n # 0, NEW t, t = MirrorReceived(s, a, n)
    PROVE  t \in Db /\ Continues(s, t) /\ GoodBut(t, X \ ({a} \ Blocked))
<1>1. CASE a \in Blocked
  <2>1. t = s
    BY <1>1 DEF MirrorReceived
  <2>2. X \ ({a} \ Blocked) = X
    BY <1>1
  <2>3. QED
    BY <2>1, <2>2, ContinuesReflexive
<1>2. CASE a \notin Blocked
  <2>1. t = AddBalance(s, a, n)
    BY <1>2 DEF MirrorReceived
  <2>2. PICK g : g = getStateObject(getOrNew(s, a), a)
    OBVIOUS
  <2>3. Dirties(s, t, a, WithBalance(g, g.account.bal + n))
    BY <2>1, <2>2, AddBalanceWrites
  <2>4. GoodBut(t, X \ {a})
    BY <2>3, DirtiesGoodBut
  <2>5. X \ ({a} \ Blocked) = X \ {a}
    BY <1>2
  <2>6. QED
    BY <2>3, <2>4, <2>5 DEF Dirties
<1>3. QED
  BY <1>1, <1>2

\* The two events leave the objects in step with what the native transfer wrote.
LEMMA TransferMirrored ==
    ASSUME store \in Store, store.storage = [a \in Addr |-> NoStorage],
           NEW s \in Db, s.cache # << >>, NEW added, Calls(s, added, Current(s)), Good(added),
           NEW c, c = commitWithCtx(added, Current(added)), c.ok,
           NEW from \in Addr, NEW to \in Addr, NEW n \in Nat, n # 0, n <= BankBalance(c.st, from),
           NEW id \in Nat, NEW moved, moved = NativeWrites(c.st, from, to, n, id),
           NEW ran, Calls(s, ran, moved),
           NEW spent, spent = MirrorSpent(ran, from, n)
    PROVE  /\ spent \in Db /\ Continues(ran, spent)
           /\ MirrorReceived(spent, to, n) \in Db /\ Continues(spent, MirrorReceived(spent, to, n))
           /\ Good(MirrorReceived(spent, to, n))
<1>1. /\ added \in Db /\ ran \in Db /\ ran.objs = added.objs /\ ran.dirties = added.dirties
      /\ ran.panic = added.panic /\ ran.logs = added.logs /\ ran.accessList = added.accessList
  BY DEF Calls
<1>2. Current(added) \in Store
  BY <1>1, CurrentType
<1>3. c.st \in Store
  BY <1>1, <1>2, CommitStore
<1>4. /\ moved \in Store /\ moved.storage = c.st.storage
      /\ \A a \in Addr : a \notin {from, to} => moved.acct[a] = c.st.acct[a]
  BY <1>3, NativeMoves
<1>5. Current(ran) = moved
  BY <1>4, CallContinues
<1>6. GoodBut(ran, {from, to})
  <2>1. /\ \A a \in Addr \ {from, to} : Current(ran).acct[a] = c.st.acct[a]
        /\ Current(ran).storage = c.st.storage
    BY <1>4, <1>5
  <2>2. QED
    BY <1>1, <2>1, CommitKeepsGood
<1>7. ASSUME from \notin Blocked
      PROVE  Exist(ran, from) /\ n <= getStateObject(ran, from).account.bal
  <2>1. getStateObject(ran, from) = getStateObject(added, from)
    BY <1>1 DEF getStateObject
  <2>2. c.st.acct[from] # Missing /\ BankBalance(c.st, from) = c.st.acct[from].bal
    BY DEF BankBalance
  <2>3. IF Exist(added, from) /\ getStateObject(added, from).destructed
        THEN c.st.acct[from] = Missing /\ c.st.storage[from] = NoStorage
        ELSE /\ c.st.acct[from] = IF Exist(added, from) THEN getStateObject(added, from).account ELSE Missing
             /\ \A k \in Slot : c.st.storage[from][k] = GetState(added, from, k)
    BY <1>1, <1>7, CommitShows
  <2>4. Exist(added, from) /\ c.st.acct[from] = getStateObject(added, from).account
    BY <2>2, <2>3
  <2>5. QED
    BY <2>1, <2>2, <2>4 DEF Exist
<1>8. spent \in Db /\ Continues(ran, spent) /\ GoodBut(spent, {from, to} \ ({from} \ Blocked))
  BY <1>1, <1>6, <1>7, Spends
<1>9. PICK X : X = {from, to} \ ({from} \ Blocked)
  OBVIOUS
<1>10. PICK t : t = MirrorReceived(spent, to, n)
  OBVIOUS
<1>11. spent \in Db /\ GoodBut(spent, X)
  BY <1>8, <1>9
<1>12. t \in Db /\ Continues(spent, t) /\ GoodBut(t, X \ ({to} \ Blocked))
  BY <1>10, <1>11, Receives
<1>13. X \ ({to} \ Blocked) \subseteq Blocked
  BY <1>9
<1>14. Good(t)
  BY <1>12, <1>13, GoodButNone
<1>15. QED
  BY <1>8, <1>10, <1>12, <1>14

\* A precompile call continues the journal, whether it returns an error or not, and
\* leaves a sound state if it does not.
LEMMA PrecompileRuns ==
    ASSUME store \in Store, store.storage = [a \in Addr |-> NoStorage], NEW s \in Db, Good(s),
           NEW id \in Nat, NEW from \in Addr, NEW to \in Addr, NEW n \in Nat, NEW stops \in BOOLEAN,
           NEW r, r = RunPrecompile(s, id, from, to, n, stops)
    PROVE  /\ r.db \in Db /\ Continues(s, r.db) /\ Len(r.db.journal) > Len(s.journal)
           /\ r.ok => Good(r.db)
<1>1. PICK cached : cached = GetCacheContext(s)
  OBVIOUS
<1>2. PICK added : added = AddPrecompileFn(MultiStoreSnapshot(cached), Len(cached.cache))
  OBVIOUS
<1>3. PICK c : c = commitWithCtx(added, Last(added.cache))
  OBVIOUS
<1>4. PICK synced : synced = [added EXCEPT !.cache[Len(added.cache)] = c.st]
  OBVIOUS
<1>5. PICK moved : moved = NativeWrites(c.st, from, to, n, id)
  OBVIOUS
<1>6. PICK ran : ran = [synced EXCEPT !.cache[Len(synced.cache)] = moved]
  OBVIOUS
<1>7. PICK spent : spent = MirrorSpent(ran, from, n)
  OBVIOUS
<1>8. r = IF added.precompileCallsCounter > MaxPrecompileCalls THEN [db |-> added, ok |-> FALSE]
          ELSE IF ~c.ok \/ BankBalance(c.st, from) < n THEN [db |-> synced, ok |-> FALSE]
          ELSE IF stops THEN [db |-> spent, ok |-> FALSE]
          ELSE [db |-> MirrorReceived(spent, to, n), ok |-> TRUE]
  BY <1>1, <1>2, <1>3, <1>4, <1>5, <1>6, <1>7 DEF RunPrecompile, NativeWrites
<1>9. /\ cached \in Db /\ Covers(cached, s) /\ cached.cache # << >> /\ cached.journal = s.journal
      /\ cached.validRevisions = s.validRevisions /\ cached.nextRevisionID = s.nextRevisionID
  BY <1>1, CacheMade
<1>10. Continues(s, cached) /\ Good(cached)
  BY <1>9, CoversContinues, CoversGood
<1>11. Calls(cached, added, Current(cached)) /\ Current(cached) \in Store /\ Good(added)
  BY <1>2, <1>9, <1>10, CallStarts
<1>12. added \in Db /\ added.cache # << >>
  <2>1. added.cache = Append(cached.cache, Current(cached)) /\ cached.cache \in Seq(Store)
    BY <1>9, <1>11 DEF Calls, Db
  <2>2. Append(cached.cache, Current(cached)) # << >>
    <3>1. ASSUME NEW q \in Seq(Store), NEW st \in Store PROVE Append(q, st) # << >>
      OBVIOUS
    <3>2. QED
      BY <1>11, <2>1, <3>1
  <2>3. QED
    BY <1>11, <2>1, <2>2 DEF Calls
<1>13. Last(added.cache) = Current(added) /\ Current(added) \in Store
  BY <1>12, CurrentType DEF Current
<1>14. c = commitWithCtx(added, Current(added)) /\ c.st \in Store
  BY <1>3, <1>12, <1>13, CommitStore
<1>15. Calls(cached, synced, c.st)
  BY <1>4, <1>9, <1>11, <1>14, CallWrites
<1>16. ASSUME NEW t, NEW st \in Store, Calls(cached, t, st)
       PROVE  t \in Db /\ Continues(s, t) /\ Len(t.journal) > Len(s.journal)
  <2>1. t \in Db
    BY <1>16 DEF Calls
  <2>2. Continues(cached, t) /\ Len(t.journal) = Len(cached.journal) + 1
    BY <1>9, <1>16, CallContinues
  <2>3. Continues(s, t)
    BY <1>9, <1>10, <2>1, <2>2, ContinuesTransitive
  <2>4. Len(s.journal) \in Nat
    BY DEF Db
  <2>5. QED
    BY <1>9, <2>1, <2>2, <2>3, <2>4
<1>17. ASSUME NEW t \in Db, Continues(s, t), Len(t.journal) > Len(s.journal),
              NEW u \in Db, Continues(t, u)
       PROVE  Continues(s, u) /\ Len(u.journal) > Len(s.journal)
  <2>1. Len(s.journal) \in Nat /\ Len(t.journal) \in Nat /\ Len(u.journal) \in Nat
    <3>1. \A v \in Db : Len(v.journal) \in Nat
      BY DEF Db
    <3>2. QED
      BY <3>1
  <2>2. Len(t.journal) <= Len(u.journal)
    BY <1>17 DEF Continues
  <2>3. Continues(s, u)
    BY <1>17, ContinuesTransitive
  <2>4. QED
    BY <1>17, <2>1, <2>2, <2>3
<1>18. CASE added.precompileCallsCounter > MaxPrecompileCalls
  <2>1. r = [db |-> added, ok |-> FALSE]
    BY <1>8, <1>18
  <2>2. r.db = added /\ ~r.ok
    BY <2>1
  <2>3. QED
    BY <1>11, <1>16, <2>2
<1>19. CASE /\ ~(added.precompileCallsCounter > MaxPrecompileCalls)
            /\ ~c.ok \/ BankBalance(c.st, from) < n
  <2>1. r = [db |-> synced, ok |-> FALSE]
    BY <1>8, <1>19
  <2>2. r.db = synced /\ ~r.ok
    BY <2>1
  <2>3. QED
    BY <1>14, <1>15, <1>16, <2>2
<1>20. CASE /\ ~(added.precompileCallsCounter > MaxPrecompileCalls)
            /\ ~(~c.ok \/ BankBalance(c.st, from) < n)
  <2>1. r = IF stops THEN [db |-> spent, ok |-> FALSE]
            ELSE [db |-> MirrorReceived(spent, to, n), ok |-> TRUE]
    BY <1>8, <1>20
  <2>2. BankBalance(c.st, from) \in Nat
    <3>1. 0 \in Nat
      OBVIOUS
    <3>2. QED
      BY <1>14, <3>1, BankBalanceSet
  <2>3. c.ok /\ n <= BankBalance(c.st, from)
    BY <1>20, <2>2
  <2>4. /\ moved \in Store /\ moved.storage = c.st.storage
        /\ \A a \in Addr : n = 0 \/ a \notin {from, to} => moved.acct[a] = c.st.acct[a]
    BY <1>5, <1>14, <2>3, NativeMoves
  <2>5. Calls(cached, ran, moved)
    BY <1>6, <1>9, <1>14, <1>15, <2>4, CallWrites
  <2>6. ran \in Db /\ Continues(s, ran) /\ Len(ran.journal) > Len(s.journal)
    BY <1>16, <2>4, <2>5
  <2>7. PICK rec : rec = MirrorReceived(spent, to, n)
    OBVIOUS
  <2>8. /\ spent \in Db /\ Continues(ran, spent) /\ rec \in Db /\ Continues(spent, rec) /\ Good(rec)
    <3>1. CASE n = 0
      <4>1. spent = ran /\ rec = ran
        BY <1>7, <2>7, <3>1 DEF MirrorSpent, MirrorReceived
      <4>2. Current(ran) = moved
        BY <1>9, <2>4, <2>5, CallContinues
      <4>3. /\ ran.objs = added.objs /\ ran.dirties = added.dirties
            /\ ran.panic = added.panic /\ ran.logs = added.logs /\ ran.accessList = added.accessList
        BY <1>11, <2>5 DEF Calls
      <4>4. /\ \A a \in Addr \ {} : Current(ran).acct[a] = c.st.acct[a]
            /\ Current(ran).storage = c.st.storage
        BY <2>4, <3>1, <4>2
      <4>5. GoodBut(ran, {})
        BY <1>11, <1>12, <1>14, <2>6, <4>3, <4>4, CommitKeepsGood
      <4>6. Good(ran)
        BY <4>5, GoodButNone
      <4>7. QED
        BY <2>6, <4>1, <4>6, ContinuesReflexive
    <3>2. CASE n # 0
      BY <1>5, <1>7, <1>9, <1>11, <1>14, <2>3, <2>5, <2>7, <3>2, TransferMirrored
    <3>3. QED
      BY <3>1, <3>2
  <2>9. Continues(s, spent) /\ Len(spent.journal) > Len(s.journal)
    BY <1>17, <2>6, <2>8
  <2>10. Continues(s, rec) /\ Len(rec.journal) > Len(s.journal)
    BY <1>17, <2>8, <2>9
  <2>11. r.db = IF stops THEN spent ELSE rec
    BY <2>1, <2>7
  <2>12. r.ok => ~stops
    BY <2>1
  <2>13. QED
    BY <2>8, <2>9, <2>10, <2>11, <2>12
<1>21. QED
  BY <1>18, <1>19, <1>20

\* The journal leads back from s itself, not only from a state s covers.
LEMMA Anchored ==
    ASSUME store \in Store, NEW s \in Db, NEW c, History(s, c)
    PROVE  \E d : /\ History(s, d) /\ d[Len(s.journal)] = s
                  /\ \A i \in 0 .. Len(s.journal) - 1 : d[i] = c[i]
<1>1. PICK n, j : n = Len(s.journal) /\ j = s.journal
  OBVIOUS
<1>2. n \in Nat /\ j \in Seq(Entry) /\ Len(j) = n
  BY <1>1 DEF Db
<1>3. PICK d : d = [i \in 0 .. n |-> IF i = n THEN s ELSE c[i]]
  OBVIOUS
<1>4. d[n] = s /\ \A i \in 0 .. n - 1 : d[i] = c[i]
  BY <1>2, <1>3
<1>5. \A i \in 0 .. n : d[i] \in Db
  BY <1>1, <1>3 DEF History
<1>6. ASSUME NEW i \in 1 .. n PROVE Covers(Undo(j[i], d[i]), d[i - 1])
  <2>1. Covers(Undo(j[i], c[i]), c[i - 1]) /\ i - 1 \in 0 .. n - 1 /\ c[i] \in Db /\ j[i] \in Entry
    <3>1. i \in 0 .. n
      BY <1>2
    <3>2. QED
      BY <1>1, <1>2, <3>1 DEF History
  <2>2. CASE i = n
    <3>1. Covers(s, c[i])
      BY <1>1, <2>2 DEF History
    <3>2. Covers(Undo(j[i], s), Undo(j[i], c[i]))
      BY <2>1, <3>1, UndoCovers
    <3>3. Covers(Undo(j[i], s), c[i - 1])
      BY <2>1, <3>2, CoversTransitive
    <3>4. QED
      BY <1>4, <2>1, <2>2, <3>3
  <2>3. CASE i \in 0 .. n - 1
    BY <1>4, <2>1, <2>3
  <2>4. QED
    BY <1>2, <2>2, <2>3
<1>7. Covers(s, d[n])
  BY <1>4, CoversReflexive
<1>8. History(s, d)
  BY <1>1, <1>5, <1>6, <1>7 DEF History
<1>9. QED
  BY <1>1, <1>4, <1>8

\* Undoing what a call appended goes back to a state that covers the one before it.
LEMMA CallUndone ==
    ASSUME store \in Store, NEW s \in Db, NEW c, History(s, c), NEW t \in Db, Continues(s, t),
           NEW u, u = RevertJournal(t, Len(s.journal))
    PROVE  u \in Db /\ Covers(u, s) /\ u.journal = s.journal /\ Continues(s, u)
<1>1. PICK n : n = Len(s.journal)
  OBVIOUS
<1>2. n \in Nat /\ Len(t.journal) \in Nat /\ s.journal \in Seq(Entry) /\ t.journal \in Seq(Entry)
  BY <1>1 DEF Db
<1>3. n \in 0 .. Len(t.journal)
  BY <1>1, <1>2 DEF Continues
<1>4. PICK d : History(s, d) /\ d[n] = s
  BY <1>1, Anchored
<1>5. PICK b : History(t, b) /\ \A i \in 0 .. n : b[i] = d[i]
  BY <1>1, <1>4 DEF Continues
<1>6. b[n] = s
  BY <1>2, <1>4, <1>5
<1>7. /\ u \in Db /\ Covers(u, s) /\ u.journal = SubSeq(t.journal, 1, n)
      /\ u.validRevisions = t.validRevisions /\ u.nextRevisionID = t.nextRevisionID
  BY <1>1, <1>3, <1>5, <1>6, RevertCovers
<1>8. u.journal = s.journal
  <2>1. PICK p, q : p = SubSeq(t.journal, 1, n) /\ q = t.journal
    OBVIOUS
  <2>2. p \in Seq(Entry) /\ Len(p) = n /\ \A i \in 1 .. n : p[i] = q[i]
    BY <1>2, <1>3, <2>1
  <2>3. \A i \in 1 .. n : q[i] = s.journal[i]
    BY <1>1, <2>1 DEF Continues
  <2>4. Len(p) = Len(s.journal) /\ \A i \in 1 .. Len(p) : p[i] = s.journal[i]
    BY <1>1, <2>2, <2>3
  <2>5. p = s.journal
    BY <1>2, <2>2, <2>4, SeqEqual
  <2>6. QED
    BY <1>7, <2>1, <2>5
<1>9. u.validRevisions = s.validRevisions /\ u.nextRevisionID = s.nextRevisionID
  BY <1>7 DEF Continues
<1>10. QED
  BY <1>7, <1>8, <1>9, CoversContinues

(***************************************************************************)
(* The first state.                                                        *)
(***************************************************************************)
Warmed(al, P) == FoldSet(LAMBDA p, x : AddSlot(x, p[1], p[2]), al, P)

\* Adding slots keeps a list sound.
LEMMA FoldWarm ==
    ASSUME NEW al \in AccessList, AccessSound(al), NEW P \in SUBSET (Addr \X Slot), IsFiniteSet(P)
    PROVE  Warmed(al, P) \in AccessList /\ AccessSound(Warmed(al, P))
<1> DEFINE Iter(it) == it = [x \in SUBSET P |->
                                IF x = {} THEN al
                                ELSE AddSlot(it[x \ {CHOOSE y \in x : TRUE}],
                                             (CHOOSE y \in x : TRUE)[1], (CHOOSE y \in x : TRUE)[2])]
           iter == CHOOSE it : Iter(it)
           T == {x \in AccessList : AccessSound(x)}
           F == [p \in P \X T |-> AddSlot(p[2], p[1][1], p[1][2])]
           pick == [x \in SUBSET P |-> CHOOSE y \in x : TRUE]
<1>1. al \in T
  OBVIOUS
<1>2. ASSUME NEW p \in P, NEW x \in T
      PROVE  AddSlot(x, p[1], p[2]) \in T /\ F[<<p, x>>] = AddSlot(x, p[1], p[2])
  <2>1. x \in AccessList /\ AccessSound(x) /\ p[1] \in Addr /\ p[2] \in Slot
    OBVIOUS
  <2>2. AddSlot(x, p[1], p[2]) \in T
    BY <2>1, AddSlotAccess
  <2>3. <<p, x>> \in P \X T /\ <<p, x>>[1] = p /\ <<p, x>>[2] = x
    OBVIOUS
  <2>4. QED
    BY <2>2, <2>3
<1>3. \A x \in SUBSET P : x # {} => (CHOOSE y \in x : TRUE) \in x
  OBVIOUS
<1> HIDE DEF F, T
<1>4. PICK it : IsFold(P, F, pick, al, it)
  <2>1. \A x \in SUBSET P : x # {} => pick[x] \in x
    BY <1>3
  <2> HIDE DEF pick
  <2>2. QED
    BY <2>1, FoldExists
<1>5. \A x \in SUBSET P : x # {} => pick[x] \in x /\ pick[x] \in P /\ pick[x] = CHOOSE y \in x : TRUE
  BY <1>3
<1> HIDE DEF pick
<1>6. \A x \in SUBSET P : it[x] = IF x = {} THEN al ELSE F[<<pick[x], it[x \ {pick[x]}]>>]
  BY <1>4 DEF IsFold
<1>7. \A x \in SUBSET P : it[x] \in T
  <2>1. it[{}] \in T
    BY <1>1, <1>6
  <2>2. ASSUME NEW x \in SUBSET P, x # {}
        PROVE  pick[x] \in x /\ (it[x \ {pick[x]}] \in T => it[x] \in T)
    <3>1. PICK p, v : p = pick[x] /\ v = it[x \ {p}]
      OBVIOUS
    <3>2. p \in x /\ p \in P /\ it[x] = F[<<p, v>>]
      BY <1>5, <1>6, <2>2, <3>1
    <3>3. v \in T => F[<<p, v>>] \in T
      BY <1>2, <3>2
    <3>4. QED
      BY <3>1, <3>2, <3>3
  <2>3. QED
    BY <2>1, <2>2, FoldsInto
<1>8. Iter(it)
  <2>1. ASSUME NEW x \in SUBSET P, x # {}
        PROVE  it[x] = AddSlot(it[x \ {pick[x]}], pick[x][1], pick[x][2])
    <3>1. PICK p, v : p = pick[x] /\ v = it[x \ {p}]
      OBVIOUS
    <3>2. p \in P /\ it[x] = F[<<p, v>>] /\ v \in T
      BY <1>5, <1>6, <1>7, <2>1, <3>1
    <3>3. QED
      BY <1>2, <3>1, <3>2
  <2>2. \A x \in SUBSET P : it[x] = IF x = {} THEN al
                                    ELSE AddSlot(it[x \ {CHOOSE y \in x : TRUE}],
                                                 (CHOOSE y \in x : TRUE)[1], (CHOOSE y \in x : TRUE)[2])
    BY <1>5, <1>6, <2>1
  <2>3. it = [x \in SUBSET P |-> it[x]]
    BY <1>4 DEF IsFold
  <2>4. QED
    BY <2>2, <2>3
<1>9. Iter(iter)
  BY <1>8
<1>10. Warmed(al, P) = iter[P]
  BY DEF Warmed, FoldSet, MapThenFoldSet
<1> HIDE DEF iter
<1>11. \A x \in SUBSET P : iter[x] = IF x = {} THEN al
                                     ELSE AddSlot(iter[x \ {pick[x]}], pick[x][1], pick[x][2])
  BY <1>5, <1>9
<1>12. \A x \in SUBSET P : iter[x] \in T
  <2>1. iter[{}] \in T
    BY <1>1, <1>11
  <2>2. ASSUME NEW x \in SUBSET P, x # {}
        PROVE  pick[x] \in x /\ (iter[x \ {pick[x]}] \in T => iter[x] \in T)
    <3>1. PICK p, v : p = pick[x] /\ v = iter[x \ {p}]
      OBVIOUS
    <3>2. p \in x /\ p \in P /\ iter[x] = AddSlot(v, p[1], p[2])
      BY <1>5, <1>11, <2>2, <3>1
    <3>3. QED
      BY <1>2, <3>1, <3>2
  <2>3. QED
    BY <2>1, <2>2, FoldsInto
<1>13. QED
  BY <1>10, <1>12 DEF T

\* The StateDB after Prepare.
LEMMA Prepared ==
    ASSUME NEW sender \in Addr, NEW P \in SUBSET (Addr \X Slot), IsFiniteSet(P),
           NEW s, s = Prepare(New, sender, P)
    PROVE  /\ s \in Db /\ s.objs = [a \in Addr |-> Missing] /\ s.dirties = [a \in Addr |-> 0]
           /\ s.journal = << >> /\ s.validRevisions = << >> /\ s.cache = << >>
           /\ s.logs = 0 /\ ~s.panic /\ AccessSound(s.accessList)
<1>1. PICK empty : empty = [addresses |-> << >>, slots |-> << >>]
  OBVIOUS
<1>2. PICK one : one = AddAddress(empty, sender)
  OBVIOUS
<1>3. PICK al : al = Warmed(one, P)
  OBVIOUS
<1>4. PICK tr : tr = [a \in Addr |-> NoStorage]
  OBVIOUS
<1>5. s = [New EXCEPT !.accessList = al, !.transient = tr]
  BY <1>1, <1>2, <1>3, <1>4 DEF Prepare, Warmed, FoldSet, MapThenFoldSet
<1>6. empty \in AccessList /\ AccessSound(empty)
  <2>1. << >> \in [{} -> Nat] /\ {} \in SUBSET Addr /\ << >> \in Seq(SUBSET Slot) /\ Len(<< >>) = 0
    OBVIOUS
  <2>2. empty \in AccessList
    BY <1>1, <2>1, MakeAccess
  <2>3. DOMAIN empty.addresses = {} /\ 1 .. Len(empty.slots) = {}
    BY <1>1, <2>1
  <2>4. QED
    BY <2>2, <2>3 DEF AccessSound
<1>7. one \in AccessList /\ AccessSound(one)
  BY <1>2, <1>6, AddAddressAccess
<1>8. al \in AccessList /\ AccessSound(al)
  BY <1>3, <1>7, FoldWarm
<1>9. tr \in [Addr -> [Slot -> Value]]
  BY <1>4, ParameterAssumption DEF NoStorage
<1>10. s = [objs |-> [a \in Addr |-> Missing],
            journal |-> << >>, dirties |-> [a \in Addr |-> 0],
            validRevisions |-> << >>, nextRevisionID |-> 0,
            refund |-> 0, logs |-> 0, transient |-> tr, accessList |-> al, cache |-> << >>,
            precompileCallsCounter |-> 0, panic |-> FALSE]
  BY <1>5 DEF New
<1>11. s \in Db
  <2>1. << >> \in Seq(Entry) /\ << >> \in Seq(Store) /\ << >> \in Seq(Revision)
    OBVIOUS
  <2>2. 0 \in 0 .. CounterSize - 1
    BY ParameterAssumption
  <2>3. /\ [a \in Addr |-> Missing] \in [Addr -> Object \cup {Missing}]
        /\ [a \in Addr |-> 0] \in [Addr -> Int]
    OBVIOUS
  <2>4. QED
    BY <1>8, <1>9, <1>10, <2>1, <2>2, <2>3 DEF Db
<1>12. QED
  BY <1>8, <1>10, <1>11

\* A new transaction has written nothing and sees the store.
LEMMA InitInv ==
    ASSUME Init
    PROVE  Inv
<1>1. PICK acct \in [Addr -> {Missing, [NewAccount EXCEPT !.bal = 1]}
                            \cup {[nonce |-> 1, bal |-> 1, code |-> c] : c \in Code}] :
           store = [acct |-> acct, storage |-> [a \in Addr |-> NoStorage], native |-> 0]
  BY DEF Init
<1>2. kind \in Kinds /\ copies = << >> /\ phase = "running"
  BY DEF Init
<1>3. PICK sender \in Addr \ Blocked : db = Prepare(New, sender, kind.named)
  BY DEF Init
<1>4. store \in Store /\ store.storage = [a \in Addr |-> NoStorage]
  <2>1. [NewAccount EXCEPT !.bal = 1] \in Account
    BY DEF NewAccount, Account
  <2>2. \A c \in Code : [nonce |-> 1, bal |-> 1, code |-> c] \in Account
    BY DEF Account
  <2>3. acct \in [Addr -> Account \cup {Missing}]
    BY <2>1, <2>2
  <2>4. [a \in Addr |-> NoStorage] \in [Addr -> [Slot -> Value]]
    BY ParameterAssumption DEF NoStorage
  <2>5. QED
    BY <1>1, <2>3, <2>4 DEF Store
<1>5. kind.named \in SUBSET (Addr \X Slot) /\ IsFiniteSet(kind.named)
  BY <1>2, ParameterAssumption
<1>6. /\ db \in Db /\ db.objs = [a \in Addr |-> Missing] /\ db.dirties = [a \in Addr |-> 0]
      /\ db.journal = << >> /\ db.validRevisions = << >> /\ db.cache = << >>
      /\ db.logs = 0 /\ ~db.panic /\ AccessSound(db.accessList)
  BY <1>3, <1>5, Prepared
<1>7. \A a \in Addr : db.objs[a] = Missing /\ db.dirties[a] = 0
  BY <1>6
<1>8. Synced(db)
  <2>1. Current(db) = store
    BY <1>6 DEF Current
  <2>2. ASSUME NEW a \in Addr
        PROVE  /\ store.acct[a] = IF Exist(db, a) THEN getStateObject(db, a).account ELSE Missing
               /\ Exist(db, a) => ~getStateObject(db, a).destructed
               /\ \A k \in Slot : store.storage[a][k] = GetState(db, a, k) /\ ~Loaded(db, a, k)
    <3>1. CASE store.acct[a] = Missing
      <4>1. getStateObject(db, a) = Missing
        BY <1>7, <3>1 DEF getStateObject
      <4>2. \A k \in Slot : store.storage[a][k] = Zero /\ GetState(db, a, k) = Zero
        BY <1>4, <4>1 DEF GetState, NoStorage
      <4>3. QED
        BY <1>7, <3>1, <4>1, <4>2 DEF Exist, Loaded
    <3>2. CASE store.acct[a] # Missing
      <4>1. store.acct[a] \in Account
        BY <1>4, <3>2 DEF Store
      <4>2. PICK o : o = newObject(store.acct[a])
        OBVIOUS
      <4>3. getStateObject(db, a) = o
        BY <1>7, <3>2, <4>2 DEF getStateObject
      <4>4. o \in Object /\ DOMAIN o.dirty = {} /\ o # Missing
        BY <4>1, <4>2, NewObjectType, ObjectFields
      <4>5. o.account = store.acct[a] /\ ~o.destructed
        BY <4>2 DEF newObject
      <4>6. \A k \in Slot : GetState(db, a, k) = store.storage[a][k]
        BY <4>3, <4>4 DEF GetState
      <4>7. QED
        BY <1>7, <4>3, <4>4, <4>5, <4>6 DEF Exist, Loaded
    <3>3. QED
      BY <3>1, <3>2
  <2>3. QED
    BY <1>7, <2>1, <2>2 DEF Synced
<1>9. Good(db)
  BY <1>6, <1>8 DEF Good
<1>10. Len(db.journal) = 0 /\ 1 .. Len(db.journal) = {} /\ 0 .. Len(db.journal) = {0}
  <2>1. Len(<< >>) = 0 /\ 1 .. 0 = {} /\ 0 .. 0 = {0}
    OBVIOUS
  <2>2. QED
    BY <1>6, <2>1
<1>11. Len(db.validRevisions) = 0 /\ 1 .. Len(db.validRevisions) = {} /\ Len(copies) = 0
  <2>1. Len(<< >>) = 0 /\ 1 .. 0 = {}
    OBVIOUS
  <2>2. QED
    BY <1>2, <1>6, <2>1
<1>12. \E c : History(db, c) /\ \A r \in 1 .. Len(db.validRevisions) : Revertible(db, copies, c, r)
  <2>1. PICK c : c = [i \in {0} |-> db]
    OBVIOUS
  <2>2. History(db, c)
    BY <1>6, <1>10, <2>1, CoversReflexive DEF History
  <2>3. QED
    BY <1>11, <2>2
<1>13. CountsAt(db, db.journal, Len(db.journal))
  <2>1. \A a \in Addr : DirtyEntries(db.journal, Len(db.journal), a) = {}
    BY <1>10 DEF DirtyEntries
  <2>2. QED
    BY <1>7, <2>1, FS_EmptySet DEF CountsAt
<1>14. RevisionsOrdered(db, copies)
  BY <1>11 DEF RevisionsOrdered
<1>15. \E S : copies \in Seq(S)
  <2>1. << >> \in Seq({})
    OBVIOUS
  <2>2. QED
    BY <1>2, <2>1
<1>16. CommitRefusals
  BY <1>2 DEF CommitRefusals
<1>17. Running(db, copies)
  BY <1>4, <1>9, <1>12 DEF Running
<1>18. db.logs \in Nat /\ \A a \in Addr : db.dirties[a] > 0 => db.objs[a] # Missing
  BY <1>6, <1>7
<1>19. QED
  <2>1. Sound(db, copies)
    BY <1>6, <1>13, <1>14, <1>15, <1>18 DEF Sound
  <2>2. QED
    BY <1>2, <1>4, <1>16, <1>17, <2>1 DEF Inv

(***************************************************************************)
(* Steps of the transaction.                                               *)
(***************************************************************************)
\* The fields of a revision.
LEMMA RevisionFields ==
    ASSUME NEW q \in Seq(Revision), NEW r \in 1 .. Len(q)
    PROVE  q[r] \in Revision /\ q[r].id \in Nat /\ q[r].journalIndex \in Nat
<1>1. q[r] \in Revision
  BY ElementOfSeq
<1>2. QED
  BY <1>1 DEF Revision

\* The entries counted at a revision are still there.
LEMMA SameEntries ==
    ASSUME NEW s, NEW j, NEW k, NEW m \in Nat, NEW n \in 0 .. m, \A i \in 1 .. m : j[i] = k[i]
    PROVE  CountsAt(s, j, n) <=> CountsAt(s, k, n)
<1>1. \A i \in 1 .. n : i \in 1 .. m
  OBVIOUS
<1>2. \A a \in Addr : DirtyEntries(j, n, a) = DirtyEntries(k, n, a)
  BY <1>1 DEF DirtyEntries
<1>3. QED
  BY <1>2 DEF CountsAt

\* A method that writes keeps every revision.
LEMMA StepRuns ==
    ASSUME store \in Store, NEW s, NEW v, Sound(s, v), Running(s, v),
           NEW t \in Db, Continues(s, t), Good(t)
    PROVE  Sound(t, v) /\ Running(t, v)
<1>1. s \in Db /\ Len(s.journal) \in Nat /\ Len(t.journal) \in Nat
  <2>1. s \in Db
    BY DEF Sound
  <2>2. \A u \in Db : Len(u.journal) \in Nat
    BY DEF Db
  <2>3. QED
    BY <2>1, <2>2
<1>2. /\ Len(s.journal) <= Len(t.journal)
      /\ \A i \in 1 .. Len(s.journal) : t.journal[i] = s.journal[i]
      /\ t.validRevisions = s.validRevisions /\ t.nextRevisionID = s.nextRevisionID
      /\ CountsAt(t, t.journal, Len(t.journal))
  BY DEF Continues, Sound
<1>3. /\ s.validRevisions \in Seq(Revision)
      /\ \A r \in 1 .. Len(s.validRevisions) : s.validRevisions[r].journalIndex \in 0 .. Len(s.journal)
  <2>1. s.validRevisions \in Seq(Revision)
    BY <1>1 DEF Db
  <2>2. \A r \in 1 .. Len(s.validRevisions) : s.validRevisions[r].journalIndex \in Nat
    BY <2>1, RevisionFields
  <2>3. \A r \in 1 .. Len(s.validRevisions) : s.validRevisions[r].journalIndex <= Len(s.journal)
    BY DEF Sound, RevisionsOrdered
  <2>4. QED
    BY <1>1, <2>1, <2>2, <2>3
<1>4. RevisionsOrdered(t, v)
  <2>1. RevisionsOrdered(s, v)
    BY DEF Sound
  <2>2. ASSUME NEW r \in 1 .. Len(s.validRevisions)
        PROVE  s.validRevisions[r].journalIndex <= Len(t.journal)
    <3>1. s.validRevisions[r].journalIndex \in 0 .. Len(s.journal)
      BY <1>3
    <3>2. QED
      BY <1>1, <1>2, <3>1
  <2>3. QED
    BY <1>2, <2>1, <2>2 DEF RevisionsOrdered
<1>5. Sound(t, v)
  <2>1. ~t.panic /\ t.logs \in Nat /\ \A a \in Addr : t.dirties[a] > 0 => t.objs[a] # Missing
    BY DEF Good, Synced
  <2>2. \E S : v \in Seq(S)
    BY DEF Sound
  <2>3. QED
    BY <1>2, <1>4, <2>1, <2>2 DEF Sound
<1>6. PICK c : /\ History(s, c)
               /\ \A r \in 1 .. Len(s.validRevisions) : Revertible(s, v, c, r)
  BY DEF Running
<1>7. PICK d : History(t, d) /\ \A i \in 0 .. Len(s.journal) : d[i] = c[i]
  BY <1>6 DEF Continues
<1>8. ASSUME NEW r \in 1 .. Len(t.validRevisions) PROVE Revertible(t, v, d, r)
  <2>1. PICK n : n = s.validRevisions[r].journalIndex
    OBVIOUS
  <2>2. n \in 0 .. Len(s.journal) /\ d[n] = c[n] /\ n = t.validRevisions[r].journalIndex
    BY <1>2, <1>3, <1>7, <2>1
  <2>3. Good(c[n]) /\ View(c[n]) = v[r] /\ CountsAt(c[n], s.journal, n)
    BY <1>2, <1>6, <2>1 DEF Revertible
  <2>4. CountsAt(c[n], t.journal, n)
    BY <1>1, <1>2, <2>2, <2>3, SameEntries, ZenonT(60)
  <2>5. QED
    BY <2>2, <2>3, <2>4 DEF Revertible
<1>9. Running(t, v)
  BY <1>7, <1>8 DEF Running
<1>10. QED
  BY <1>5, <1>9

\* Snapshot: the new revision has the present state as its copy.
LEMMA SnapshotRuns ==
    ASSUME store \in Store, NEW s, NEW v, Sound(s, v), Running(s, v), NEW t, t = Snapshot(s)
    PROVE  /\ Sound(t, Append(v, View(s))) /\ Running(t, Append(v, View(s))) /\ View(t) = View(s)
           /\ t.precompileCallsCounter = s.precompileCallsCounter
<1>1. s \in Db /\ RevisionsOrdered(s, v) /\ CountsAt(s, s.journal, Len(s.journal)) /\ Good(s)
  BY DEF Sound, Running
<1>2. PICK new, l, w : /\ new = [id |-> s.nextRevisionID, journalIndex |-> Len(s.journal)]
                       /\ l = Len(s.validRevisions) /\ w = Append(s.validRevisions, new)
  OBVIOUS
<1>3. /\ s.validRevisions \in Seq(Revision) /\ l \in Nat
      /\ Len(s.journal) \in Nat /\ s.nextRevisionID \in Nat
  BY <1>1, <1>2 DEF Db
<1>4. new \in Revision
  BY <1>2, <1>3 DEF Revision
<1>5. /\ w \in Seq(Revision) /\ Len(w) = l + 1 /\ w[l + 1] = new
      /\ \A r \in 1 .. l : w[r] = s.validRevisions[r]
  BY <1>2, <1>3, <1>4
<1>6. PICK m : m = s.nextRevisionID + 1
  OBVIOUS
<1>7. /\ t \in Db /\ t.validRevisions = w /\ t.nextRevisionID = s.nextRevisionID + 1
      /\ t.objs = s.objs /\ t.journal = s.journal /\ t.dirties = s.dirties
      /\ t.refund = s.refund /\ t.logs = s.logs /\ t.transient = s.transient
      /\ t.accessList = s.accessList /\ t.cache = s.cache /\ t.panic = s.panic
      /\ t.precompileCallsCounter = s.precompileCallsCounter
  <2>1. t = [s EXCEPT !.validRevisions = w, !.nextRevisionID = m]
    BY <1>2, <1>6 DEF Snapshot
  <2>2. m \in Nat /\ w \in Seq(Revision)
    BY <1>3, <1>5, <1>6
  <2>3. QED
    BY <1>1, <1>6, <2>1, <2>2 DEF Db
<1>8. Covers(t, s)
  <2>1. \A a \in Addr : getStateObject(t, a) = getStateObject(s, a)
    BY <1>7 DEF getStateObject
  <2>2. QED
    BY <1>7, <2>1 DEF Covers, RestSame, AccountCovers, ObjectCovers, Exist
<1>9. Good(t) /\ View(t) = View(s)
  BY <1>1, <1>7, <1>8, CoversGood, CoversView
<1>10. PICK S : v \in Seq(S)
  BY DEF Sound
<1>11. PICK u, x : x = View(s) /\ u = Append(v, x)
  OBVIOUS
<1>12. /\ u \in Seq(S \cup {x}) /\ Len(u) = Len(v) + 1 /\ u[Len(v) + 1] = x /\ Len(v) = l
       /\ \A r \in 1 .. Len(v) : u[r] = v[r]
  <2>1. v \in Seq(S \cup {x})
    BY <1>10
  <2>2. Len(v) = l
    BY <1>1, <1>2 DEF RevisionsOrdered
  <2>3. QED
    BY <1>11, <2>1, <2>2
<1>13. RevisionsOrdered(t, u)
  <2>1. ASSUME NEW r \in 1 .. l + 1
        PROVE  /\ w[r].id < s.nextRevisionID + 1
               /\ w[r].journalIndex <= Len(s.journal)
               /\ \A q \in 1 .. r - 1 : w[q].id < w[r].id /\ w[q].journalIndex <= w[r].journalIndex
    <3>1. \A q \in 1 .. l : /\ w[q] = s.validRevisions[q] /\ w[q].id \in Nat
                            /\ w[q].journalIndex \in Nat
                            /\ w[q].id < s.nextRevisionID /\ w[q].journalIndex <= Len(s.journal)
      <4>1. \A q \in 1 .. l : /\ w[q] = s.validRevisions[q] /\ s.validRevisions[q].id \in Nat
                              /\ s.validRevisions[q].journalIndex \in Nat
        BY <1>2, <1>3, <1>5, RevisionFields
      <4>2. \A q \in 1 .. l : s.validRevisions[q].id < s.nextRevisionID /\ s.validRevisions[q].journalIndex <= Len(s.journal)
        BY <1>1, <1>2 DEF RevisionsOrdered
      <4>3. QED
        BY <4>1, <4>2
    <3>2. CASE r = l + 1
      <4>1. w[r].id = s.nextRevisionID /\ w[r].journalIndex = Len(s.journal)
        BY <1>2, <1>5, <3>2
      <4>2. \A q \in 1 .. r - 1 : q \in 1 .. l
        BY <1>3, <3>2
      <4>3. QED
        BY <1>3, <3>1, <4>1, <4>2
    <3>3. CASE r \in 1 .. l
      <4>1. \A q \in 1 .. r - 1 : /\ s.validRevisions[q].id < s.validRevisions[r].id
                                  /\ s.validRevisions[q].journalIndex <= s.validRevisions[r].journalIndex
        BY <1>1, <1>2, <3>3 DEF RevisionsOrdered
      <4>2. \A q \in 1 .. r - 1 : q \in 1 .. l
        BY <1>3, <3>3
      <4>3. \A q \in 1 .. r - 1 : w[q].id < w[r].id /\ w[q].journalIndex <= w[r].journalIndex
        BY <3>1, <3>3, <4>1, <4>2
      <4>4. w[r].id \in Nat /\ w[r].id < s.nextRevisionID /\ w[r].journalIndex <= Len(s.journal)
        BY <3>1, <3>3
      <4>5. w[r].id < s.nextRevisionID + 1
        BY <1>3, <4>4
      <4>6. QED
        BY <4>3, <4>4, <4>5
    <3>4. QED
      BY <1>3, <3>2, <3>3
  <2>2. Len(u) = Len(t.validRevisions)
    BY <1>5, <1>7, <1>12
  <2>3. QED
    BY <1>5, <1>7, <2>1, <2>2 DEF RevisionsOrdered
<1>14. CountsAt(t, t.journal, Len(t.journal))
  BY <1>1, <1>7 DEF CountsAt
<1>15. Sound(t, u)
  <2>1. ~t.panic /\ t.logs \in Nat /\ \A a \in Addr : t.dirties[a] > 0 => t.objs[a] # Missing
    BY <1>9 DEF Good, Synced
  <2>2. QED
    BY <1>7, <1>12, <1>13, <1>14, <2>1 DEF Sound
<1>16. PICK c : /\ History(s, c)
                /\ \A r \in 1 .. l : Revertible(s, v, c, r)
  BY <1>2 DEF Running
<1>17. PICK d : /\ History(s, d) /\ d[Len(s.journal)] = s
                /\ \A i \in 0 .. Len(s.journal) - 1 : d[i] = c[i]
  BY <1>1, <1>16, Anchored
<1>18. History(t, d)
  <2>1. Covers(t, d[Len(s.journal)])
    BY <1>8, <1>17
  <2>2. QED
    BY <1>7, <1>17, <2>1 DEF History
<1>19. ASSUME NEW r \in 1 .. Len(t.validRevisions) PROVE Revertible(t, u, d, r)
  <2>1. PICK n : n = t.validRevisions[r].journalIndex
    OBVIOUS
  <2>2. CASE r = l + 1
    <3>1. n = Len(s.journal) /\ d[n] = s /\ u[r] = x
      BY <1>2, <1>5, <1>7, <1>12, <1>17, <2>1, <2>2
    <3>2. Good(d[n]) /\ View(d[n]) = u[r] /\ CountsAt(d[n], t.journal, n)
      BY <1>1, <1>7, <1>11, <3>1
    <3>3. QED
      BY <2>1, <3>2 DEF Revertible
  <2>3. CASE r \in 1 .. l
    <3>1. n = s.validRevisions[r].journalIndex /\ u[r] = v[r]
      BY <1>5, <1>7, <1>12, <2>1, <2>3
    <3>2. Good(c[n]) /\ View(c[n]) = u[r] /\ CountsAt(c[n], t.journal, n)
      BY <1>7, <1>16, <2>3, <3>1 DEF Revertible
    <3>3. n \in 0 .. Len(s.journal)
      <4>1. s.validRevisions[r].journalIndex \in Nat
        BY <1>2, <1>3, <2>3, RevisionFields
      <4>2. n \in Nat /\ n <= Len(s.journal)
        BY <1>1, <1>2, <2>3, <3>1, <4>1 DEF RevisionsOrdered
      <4>3. QED
        BY <1>3, <4>2
    <3>4. CASE n < Len(s.journal)
      <4>1. d[n] = c[n]
        BY <1>3, <1>17, <3>3, <3>4
      <4>2. QED
        BY <2>1, <3>2, <4>1 DEF Revertible
    <3>5. CASE n = Len(s.journal)
      <4>1. Covers(s, c[n]) /\ c[n] \in Db
        BY <1>3, <1>16, <3>3, <3>5 DEF History
      <4>2. View(s) = View(c[n])
        BY <1>1, <4>1, CoversView
      <4>3. d[n] = s
        BY <1>17, <3>5
      <4>4. Good(d[n]) /\ View(d[n]) = u[r] /\ CountsAt(d[n], t.journal, n)
        BY <1>1, <1>7, <3>2, <3>5, <4>2, <4>3
      <4>5. QED
        BY <2>1, <4>4 DEF Revertible
    <3>6. QED
      BY <1>3, <3>3, <3>4, <3>5
  <2>4. QED
    BY <1>3, <1>5, <1>7, <2>2, <2>3
<1>20. Running(t, u)
  BY <1>9, <1>18, <1>19 DEF Running
<1>21. QED
  BY <1>7, <1>9, <1>11, <1>15, <1>20

\* A prefix of a sequence.
LEMMA Prefix ==
    ASSUME NEW S, NEW q \in Seq(S), NEW n \in 0 .. Len(q)
    PROVE  /\ SubSeq(q, 1, n) \in Seq(S) /\ Len(SubSeq(q, 1, n)) = n
           /\ \A i \in 1 .. n : SubSeq(q, 1, n)[i] = q[i]
OBVIOUS

\* The binary search finds a revision by its id.
LEMMA RevisionFound ==
    ASSUME NEW s \in Db, NEW v, RevisionsOrdered(s, v), NEW idx \in 1 .. Len(s.validRevisions),
           NEW t, t = RevertToSnapshot(s, s.validRevisions[idx].id),
           NEW u, u = RevertJournal(s, s.validRevisions[idx].journalIndex)
    PROVE  t = [u EXCEPT !.validRevisions = SubSeq(u.validRevisions, 1, idx - 1)]
<1>1. PICK w, l : w = s.validRevisions /\ l = Len(w)
  OBVIOUS
<1>2. w \in Seq(Revision) /\ l \in Nat /\ DOMAIN w = 1 .. l /\ idx \in 1 .. l
  BY <1>1 DEF Db
<1>3. \A r \in 1 .. l : w[r].id \in Nat
  BY <1>1, <1>2, RevisionFields
<1>4. \A r \in 1 .. l : \A q \in 1 .. r - 1 : w[q].id < w[r].id
  BY <1>1 DEF RevisionsOrdered
<1>5. ASSUME NEW i \in 1 .. l PROVE w[i].id < w[idx].id <=> i \in 1 .. idx - 1
  <2>1. CASE i \in 1 .. idx - 1
    BY <1>2, <1>4, <2>1
  <2>2. CASE i = idx
    <3>1. ~(w[i].id < w[idx].id)
      BY <1>2, <1>3, <2>2
    <3>2. i \notin 1 .. idx - 1
      BY <1>2, <2>2
    <3>3. QED
      BY <3>1, <3>2
  <2>3. CASE i > idx
    <3>1. idx \in 1 .. i - 1
      BY <1>2, <2>3
    <3>2. w[idx].id < w[i].id /\ w[idx].id \in Nat /\ w[i].id \in Nat
      BY <1>2, <1>3, <1>4, <3>1
    <3>3. ~(w[i].id < w[idx].id)
      BY <3>2
    <3>4. i \notin 1 .. idx - 1
      BY <1>2, <2>3
    <3>5. QED
      BY <3>3, <3>4
  <2>4. QED
    BY <1>2, <2>1, <2>2, <2>3
<1>6. {i \in DOMAIN w : w[i].id < w[idx].id} = 1 .. idx - 1
  <2>1. \A i \in 1 .. idx - 1 : i \in 1 .. l
    BY <1>2
  <2>2. QED
    BY <1>2, <1>5, <2>1
<1>7. Cardinality(1 .. idx - 1) = idx - 1
  <2>1. idx - 1 \in Int /\ 1 \in Int /\ (1 > idx - 1 => idx - 1 = 0)
    BY <1>2
  <2>2. QED
    BY <1>2, <2>1, FS_Interval
<1>8. 1 + Cardinality({i \in DOMAIN w : w[i].id < w[idx].id}) = idx
  <2>1. idx \in Int
    BY <1>2
  <2>2. 1 + (idx - 1) = idx
    BY <2>1
  <2>3. QED
    BY <1>6, <1>7, <2>2
<1>9. idx \in DOMAIN w
  BY <1>2
<1>10. PICK k : k = 1 + Cardinality({i \in DOMAIN w : w[i].id < w[idx].id})
  OBVIOUS
<1>11. k = idx
  BY <1>8, <1>10
<1>12. t = IF k \notin DOMAIN w \/ w[k].id # w[idx].id THEN Panic(s)
           ELSE [RevertJournal(s, w[k].journalIndex) EXCEPT !.validRevisions = SubSeq(@, 1, k - 1)]
  BY <1>1, <1>10 DEF RevertToSnapshot
<1>13. t = [RevertJournal(s, w[k].journalIndex) EXCEPT !.validRevisions = SubSeq(@, 1, k - 1)]
  BY <1>9, <1>11, <1>12
<1>14. RevertJournal(s, w[k].journalIndex) = u
  BY <1>1, <1>11
<1>15. QED
  BY <1>11, <1>13, <1>14

\* RevertToSnapshot: the EVM sees its copy again, and every older revision is left as it was.
LEMMA RevertRuns ==
    ASSUME store \in Store, NEW s, NEW v, Sound(s, v), Running(s, v),
           NEW idx \in 1 .. Len(s.validRevisions),
           NEW t, t = RevertToSnapshot(s, s.validRevisions[idx].id)
    PROVE  /\ Sound(t, SubSeq(v, 1, idx - 1)) /\ Running(t, SubSeq(v, 1, idx - 1))
           /\ View(t) = v[idx] /\ t.precompileCallsCounter = s.precompileCallsCounter
<1>1. s \in Db /\ RevisionsOrdered(s, v) /\ Good(s)
  BY DEF Sound, Running
<1>2. PICK w, l, n : w = s.validRevisions /\ l = Len(w) /\ n = w[idx].journalIndex
  OBVIOUS
<1>3. w \in Seq(Revision) /\ l \in Nat /\ idx \in 1 .. l /\ Len(s.journal) \in Nat /\ s.journal \in Seq(Entry)
  BY <1>1, <1>2 DEF Db
<1>4. \A r \in 1 .. l : /\ w[r].journalIndex \in 0 .. Len(s.journal)
                        /\ w[r].id < s.nextRevisionID
                        /\ \A q \in 1 .. r - 1 : /\ w[q].id < w[r].id
                                                 /\ w[q].journalIndex <= w[r].journalIndex
  <2>1. \A r \in 1 .. l : w[r].journalIndex \in Nat /\ w[r].journalIndex <= Len(s.journal)
    BY <1>1, <1>2, <1>3, RevisionFields DEF RevisionsOrdered
  <2>2. \A r \in 1 .. l : w[r].journalIndex \in 0 .. Len(s.journal)
    BY <1>3, <2>1
  <2>3. QED
    BY <1>1, <1>2, <2>2 DEF RevisionsOrdered
<1>5. n \in 0 .. Len(s.journal)
  BY <1>2, <1>3, <1>4
<1>6. PICK c : History(s, c) /\ \A r \in 1 .. l : Revertible(s, v, c, r)
  BY <1>2 DEF Running
<1>7. PICK u : u = RevertJournal(s, n)
  OBVIOUS
<1>8. /\ u \in Db /\ Covers(u, c[n]) /\ History(u, c) /\ u.journal = SubSeq(s.journal, 1, n)
      /\ u.validRevisions = w /\ u.nextRevisionID = s.nextRevisionID
      /\ u.precompileCallsCounter = s.precompileCallsCounter
  BY <1>1, <1>2, <1>5, <1>6, <1>7, RevertCovers
<1>9. PICK x, y : x = SubSeq(w, 1, idx - 1) /\ y = SubSeq(v, 1, idx - 1)
  OBVIOUS
<1>10. idx - 1 \in 0 .. l /\ idx - 1 \in Nat
  BY <1>3
<1>11. /\ x \in Seq(Revision) /\ Len(x) = idx - 1
       /\ \A r \in 1 .. idx - 1 : x[r] = w[r]
  BY <1>2, <1>3, <1>9, <1>10, Prefix
<1>12. PICK S : v \in Seq(S)
  BY DEF Sound
<1>13. y \in Seq(S) /\ Len(y) = idx - 1 /\ \A r \in 1 .. idx - 1 : y[r] = v[r]
  <2>1. idx - 1 \in 0 .. Len(v)
    BY <1>1, <1>2, <1>10 DEF RevisionsOrdered
  <2>2. QED
    BY <1>9, <1>12, <2>1, Prefix
<1>14. t = [u EXCEPT !.validRevisions = x]
  <2>1. t = [u EXCEPT !.validRevisions = SubSeq(u.validRevisions, 1, idx - 1)]
    <3>1. s \in Db /\ RevisionsOrdered(s, v) /\ u = RevertJournal(s, s.validRevisions[idx].journalIndex)
      BY <1>1, <1>2, <1>7
    <3>2. QED
      BY <3>1, RevisionFound, Zenon
  <2>2. QED
    BY <1>8, <1>9, <2>1
<1>15. /\ t \in Db /\ t.validRevisions = x /\ t.nextRevisionID = u.nextRevisionID
       /\ t.objs = u.objs /\ t.journal = u.journal /\ t.dirties = u.dirties
       /\ t.refund = u.refund /\ t.logs = u.logs /\ t.transient = u.transient
       /\ t.accessList = u.accessList /\ t.cache = u.cache /\ t.panic = u.panic
       /\ t.precompileCallsCounter = u.precompileCallsCounter
  BY <1>8, <1>11, <1>14 DEF Db
<1>16. Covers(t, u)
  <2>1. \A a \in Addr : getStateObject(t, a) = getStateObject(u, a)
    BY <1>15 DEF getStateObject
  <2>2. QED
    BY <1>15, <2>1 DEF Covers, RestSame, AccountCovers, ObjectCovers, Exist
<1>17. Covers(t, c[n]) /\ c[n] \in Db
  <2>1. c[n] \in Db
    BY <1>5, <1>6 DEF History
  <2>2. QED
    BY <1>8, <1>16, <2>1, CoversTransitive
<1>18. Good(c[n]) /\ View(c[n]) = v[idx] /\ CountsAt(c[n], s.journal, n)
  BY <1>2, <1>3, <1>6 DEF Revertible
<1>19. Good(t) /\ View(t) = v[idx]
  BY <1>15, <1>17, <1>18, CoversGood, CoversView
<1>20. Len(t.journal) = n /\ n \in Nat /\ \A i \in 1 .. n : t.journal[i] = s.journal[i]
  <2>1. n \in Nat /\ t.journal = SubSeq(s.journal, 1, n)
    BY <1>5, <1>8, <1>15
  <2>2. QED
    BY <1>3, <1>5, <2>1, Prefix
<1>21. CountsAt(t, t.journal, Len(t.journal))
  <2>1. CountsAt(t, s.journal, n)
    BY <1>17, <1>18 DEF CountsAt, Covers, RestSame
  <2>2. n \in 0 .. n
    BY <1>20
  <2>3. QED
    BY <1>20, <2>1, <2>2, SameEntries
<1>22. \A r \in 1 .. idx - 1 : /\ r \in 1 .. l /\ x[r] = w[r] /\ y[r] = v[r]
                               /\ w[r].journalIndex \in 0 .. n
  <2>1. ASSUME NEW r \in 1 .. idx - 1 PROVE r \in 1 .. l /\ w[r].journalIndex \in 0 .. n
    <3>1. r \in 1 .. l
      BY <1>3
    <3>2. w[r].journalIndex <= n /\ w[r].journalIndex \in 0 .. Len(s.journal)
      BY <1>2, <1>3, <1>4, <3>1
    <3>3. QED
      BY <1>20, <3>1, <3>2
  <2>2. QED
    BY <1>11, <1>13, <2>1
<1>23. RevisionsOrdered(t, y)
  <2>1. ASSUME NEW r \in 1 .. idx - 1
        PROVE  /\ x[r].id < s.nextRevisionID /\ x[r].journalIndex <= n
               /\ \A q \in 1 .. r - 1 : x[q].id < x[r].id /\ x[q].journalIndex <= x[r].journalIndex
    <3>1. \A q \in 1 .. r - 1 : q \in 1 .. idx - 1
      BY <1>3
    <3>2. r \in 1 .. l /\ x[r] = w[r] /\ w[r].journalIndex \in 0 .. n
      BY <1>22
    <3>3. w[r].journalIndex <= n
      BY <1>20, <3>2
    <3>4. \A q \in 1 .. r - 1 : x[q] = w[q]
      BY <1>22, <3>1
    <3>5. QED
      BY <1>4, <3>2, <3>3, <3>4
  <2>2. QED
    BY <1>8, <1>11, <1>13, <1>15, <1>20, <2>1 DEF RevisionsOrdered
<1>24. Sound(t, y)
  <2>1. ~t.panic /\ t.logs \in Nat /\ \A a \in Addr : t.dirties[a] > 0 => t.objs[a] # Missing
    BY <1>19 DEF Good, Synced
  <2>2. QED
    BY <1>13, <1>15, <1>21, <1>23, <2>1 DEF Sound
<1>25. History(t, c)
  <2>1. Len(u.journal) = n
    BY <1>15, <1>20
  <2>2. QED
    BY <1>8, <1>15, <1>17, <2>1 DEF History
<1>26. ASSUME NEW r \in 1 .. Len(t.validRevisions) PROVE Revertible(t, y, c, r)
  <2>1. r \in 1 .. idx - 1
    BY <1>11, <1>15
  <2>2. PICK m : m = w[r].journalIndex
    OBVIOUS
  <2>3. r \in 1 .. l /\ x[r].journalIndex = m /\ y[r] = v[r] /\ m \in 0 .. n
    BY <1>22, <2>1, <2>2
  <2>4. Good(c[m]) /\ View(c[m]) = v[r] /\ CountsAt(c[m], s.journal, m)
    BY <1>2, <1>6, <2>2, <2>3 DEF Revertible
  <2>5. CountsAt(c[m], t.journal, m)
    BY <1>20, <2>3, <2>4, SameEntries
  <2>6. QED
    BY <1>15, <2>3, <2>4, <2>5 DEF Revertible
<1>27. Running(t, y)
  BY <1>19, <1>25, <1>26 DEF Running
<1>28. QED
  BY <1>8, <1>9, <1>15, <1>19, <1>24, <1>27

(***************************************************************************)
(* The store is written by Commit alone: a step that leaves it alone       *)
(* changes nothing in what is said about a given StateDB.                  *)
(***************************************************************************)
\* The objects and slots read from it.
LEMMA SameObjects ==
    ASSUME store' = store
    PROVE  \A s, a : /\ getStateObject(s, a)' = getStateObject(s, a)
                     /\ Exist(s, a)' <=> Exist(s, a)
                     /\ \A k : GetState(s, a, k)' = GetState(s, a, k)
<1>1. \A s, a : getStateObject(s, a)' = getStateObject(s, a)
  BY DEF getStateObject
<1>2. \A s, a : Exist(s, a)' <=> Exist(s, a)
  BY <1>1 DEF Exist
<1>3. \A s, a, k : GetState(s, a, k)' = GetState(s, a, k)
  BY <1>1 DEF GetState
<1>4. QED
  BY <1>1, <1>2, <1>3

\* What the EVM sees.
LEMMA SameView ==
    ASSUME store' = store
    PROVE  \A s : Current(s)' = Current(s) /\ View(s)' = View(s)
<1> SUFFICES ASSUME NEW s PROVE Current(s)' = Current(s) /\ View(s)' = View(s)
  OBVIOUS
<1>1. Current(s)' = Current(s)
  BY DEF Current
<1>2. \A a : VisibleAccount(s, a)' = VisibleAccount(s, a)
  BY SameObjects DEF VisibleAccount
<1>3. \A a, k : GetState(s, a, k)' = GetState(s, a, k)
  BY SameObjects
<1> HIDE DEF Current
<1>4. View(s)' = View(s)
  BY <1>1, <1>2, <1>3 DEF View
<1>5. QED
  BY <1>1, <1>4

\* What undoing an entry does.
LEMMA SameUndo ==
    ASSUME store' = store
    PROVE  \A s, e : Undo(e, s)' = Undo(e, s)
<1> SUFFICES ASSUME NEW s, NEW e PROVE Undo(e, s)' = Undo(e, s)
  OBVIOUS
<1>1. \A a : getStateObject(s, a)' = getStateObject(s, a)
  BY SameObjects
<1>2. Revert(s, e)' = Revert(s, e)
  BY <1>1 DEF Revert, UndoObject
<1>3. QED
  BY <1>2 DEF Undo

\* Which states cover which.
LEMMA SameCovers ==
    ASSUME store' = store
    PROVE  \A s, t : Covers(s, t)' <=> Covers(s, t)
<1> SUFFICES ASSUME NEW s, NEW t PROVE Covers(s, t)' <=> Covers(s, t)
  OBVIOUS
<1>1. RestSame(s, t)' <=> RestSame(s, t)
  BY DEF RestSame
<1>2. \A a, o, k : SlotValue(a, o, k)' = SlotValue(a, o, k)
  BY DEF SlotValue
<1>3. \A a, o, p : ObjectCovers(a, o, p)' <=> ObjectCovers(a, o, p)
  BY <1>2 DEF ObjectCovers
<1>4. \A a : AccountCovers(s, t, a)' <=> AccountCovers(s, t, a)
  BY <1>3, SameObjects DEF AccountCovers
<1>5. QED
  BY <1>1, <1>4 DEF Covers

\* What holds while the transaction runs.
LEMMA SameRunning ==
    ASSUME store' = store
    PROVE  \A s, v : Running(s, v)' <=> Running(s, v)
<1>1. \A s : Good(s)' <=> Good(s)
  <2> SUFFICES ASSUME NEW s PROVE Good(s)' <=> Good(s)
    OBVIOUS
  <2>1. Synced(s)' <=> Synced(s)
    BY SameObjects, SameView DEF Synced
  <2>2. QED
    BY <2>1 DEF Good
<1>2. \A s, c : History(s, c)' <=> History(s, c)
  <2> SUFFICES ASSUME NEW s, NEW c PROVE History(s, c)' <=> History(s, c)
    OBVIOUS
  <2>1. \A x, y : Covers(x, y)' <=> Covers(x, y)
    BY SameCovers
  <2>2. \A e, x, y : Covers(Undo(e, x), y)' <=> Covers(Undo(e, x), y)
    BY SameUndo, SameCovers
  <2>3. QED
    BY <2>1, <2>2 DEF History
<1>3. \A s, v, c, r : Revertible(s, v, c, r)' <=> Revertible(s, v, c, r)
  BY <1>1, SameView DEF Revertible
<1>4. QED
  BY <1>1, <1>2, <1>3 DEF Running

(***************************************************************************)
(* Every step keeps the invariant, and is a step of VersionedState.        *)
(***************************************************************************)
\* A method that the EVM runs.
LEMMA RunStep ==
    ASSUME Inv, NEW op, NEW t \in Db, Run(op, t), Continues(db, t), Good(t)
    PROVE  Inv' /\ Versions!Change /\ View(db)' = View(t) /\ db' = t
<1>1. /\ phase = "running" /\ phase' = "running" /\ db' = t /\ kind' = kind /\ store' = store
      /\ copies' = copies
  BY DEF Run
<1>2. store \in Store /\ kind \in Kinds /\ Sound(db, copies) /\ Running(db, copies)
  BY <1>1 DEF Inv
<1>3. Sound(t, copies) /\ Running(t, copies)
  BY <1>2, StepRuns
<1>4. Sound(db, copies)'
  BY <1>1, <1>3
<1>5. Running(db, copies)'
  BY <1>1, <1>3, SameRunning
<1>6. CommitRefusals'
  BY <1>1 DEF CommitRefusals
<1>7. Inv'
  BY <1>1, <1>2, <1>4, <1>5, <1>6 DEF Inv
<1>8. Versions!Change
  BY <1>1 DEF Versions!Change
<1>9. QED
  BY <1>1, <1>7, <1>8, SameView

\* An operation that writes keeps the invariant and is a change of the abstract state.
LEMMA WriteStep ==
    ASSUME Inv, NEW op, NEW t, Run(op, t), Writes(db, t)
    PROVE  Inv' /\ Versions!Change /\ db'.precompileCallsCounter = db.precompileCallsCounter
<1>1. Good(db)
  BY DEF Inv, Run, Running
<1>2. t \in Db /\ Continues(db, t) /\ Good(t) /\ t.precompileCallsCounter = db.precompileCallsCounter
  BY <1>1 DEF Writes
<1>3. QED
  BY <1>2, RunStep

\* The methods of the interpreter, precompile calls apart.
Method ==
    \/ \E a \in Addr \ Blocked :
          \/ EvmCreateAccount(a) \/ EvmCreateContract(a)
          \/ EvmSelfDestruct(a) \/ EvmSetNonce(a) \/ EvmWarmAddress(a)
          \/ \E c \in Code : EvmSetCode(a, c)
          \/ \E n \in 0 .. 1 : EvmDebit(a, n)
          \/ \E k \in Slot : EvmWarmSlot(a, k)
          \/ \E k \in Slot, v \in Value : EvmSetState(a, k, v) \/ EvmSetTransient(a, k, v)
    \/ \E a \in Addr, n \in 0 .. 1 : EvmCredit(a, n)
    \/ EvmAddRefund \/ EvmSubRefund \/ EvmLog

\* Each of them only writes.
LEMMA MethodStep ==
    ASSUME Inv, Method
    PROVE  Inv' /\ Versions!Change /\ db'.precompileCallsCounter = db.precompileCallsCounter
<1> DEFINE Kept == Inv' /\ Versions!Change /\ db'.precompileCallsCounter = db.precompileCallsCounter
<1>1. store \in Store /\ db \in Db
  BY DEF Inv, Sound
<1>2. ASSUME NEW op, NEW t, Run(op, t), Writes(db, t) PROVE Kept
  BY <1>2, WriteStep
<1>3. ASSUME NEW a \in Addr, NEW t, NEW o, Dirties(db, t, a, o) PROVE Writes(db, t)
  BY <1>1, <1>3, DirtiesWrites
<1>4. \A a \in Addr : Writes(db, getOrNew(db, a))
  <2>1. \A a \in Addr : getOrNew(db, a) = db \/ Dirties(db, getOrNew(db, a), a, newObject(NewAccount))
    BY <1>1, GetOrNew
  <2>2. Writes(db, db)
    BY <1>1, WritesNothing
  <2>3. QED
    BY <1>3, <2>1, <2>2
<1>5. ASSUME NEW op, NEW t, Run(op, t) PROVE Good(db)
  BY <1>5 DEF Inv, Run, Running
<1> HIDE DEF Kept
<1>6. ASSUME NEW a \in Addr, EvmCreateAccount(a) PROVE Kept
  <2>1. ~Exist(db, a) /\ Run("create", CreateAccount(db, a))
    BY <1>6 DEF EvmCreateAccount
  <2>2. CreateAccount(db, a) = createObject(db, a)
    BY <2>1 DEF CreateAccount, Exist
  <2>3. Writes(db, createObject(db, a))
    BY <1>1, <1>3, <2>1, CreatedDirties
  <2>4. QED
    BY <1>2, <2>1, <2>2, <2>3
<1>7. ASSUME NEW a \in Addr, EvmCreateContract(a) PROVE Kept
  <2>1. Exist(db, a) /\ Run("contract", CreateContract(db, a))
    BY <1>7 DEF EvmCreateContract
  <2>2. Writes(db, CreateContract(db, a))
    BY <1>1, <2>1, CreateContractWrites
  <2>3. QED
    BY <1>2, <2>1, <2>2
<1>8. ASSUME NEW a \in Addr, EvmSelfDestruct(a) PROVE Kept
  <2>1. SelfDestruct6780(db, a) = db \/ \E o : Dirties(db, SelfDestruct6780(db, a), a, o)
    BY <1>1, SelfDestructWrites
  <2>2. Writes(db, SelfDestruct6780(db, a))
    BY <1>1, <1>3, <2>1, WritesNothing
  <2>3. QED
    BY <1>2, <1>8, <2>2 DEF EvmSelfDestruct
<1>9. ASSUME NEW a \in Addr, EvmSetNonce(a) PROVE Kept
  <2>1. 2 \in Nat
    OBVIOUS
  <2>2. \E o : Dirties(db, SetNonce(db, a, 2), a, o)
    BY <1>1, <2>1, SetNonceWrites
  <2>3. Writes(db, SetNonce(db, a, 2))
    BY <1>3, <2>2
  <2>4. QED
    BY <1>2, <1>9, <2>3 DEF EvmSetNonce
<1>10. ASSUME NEW a \in Addr, EvmWarmAddress(a) PROVE Kept
  <2>1. Writes(db, AddAddressToAccessList(db, a))
    BY <1>1, AddAddressWrites
  <2>2. QED
    BY <1>2, <1>10, <2>1 DEF EvmWarmAddress
<1>11. ASSUME NEW a \in Addr, NEW c \in Code, EvmSetCode(a, c) PROVE Kept
  <2>1. \E o : Dirties(db, SetCode(db, a, c), a, o)
    BY <1>1, SetCodeWrites
  <2>2. Writes(db, SetCode(db, a, c))
    BY <1>3, <2>1
  <2>3. QED
    BY <1>2, <1>11, <2>2 DEF EvmSetCode
<1>12. ASSUME NEW a \in Addr, NEW n \in 0 .. 1, EvmDebit(a, n) PROVE Kept
  <2>1. Exist(db, a) /\ getStateObject(db, a).account.bal >= n /\ Run("balance", SubBalance(db, a, n))
    BY <1>12 DEF EvmDebit
  <2>2. CASE n = 0
    <3>1. SubBalance(db, a, n) = getOrNew(db, a)
      BY <2>2 DEF SubBalance
    <3>2. QED
      BY <1>2, <1>4, <2>1, <3>1
  <2>3. CASE n # 0
    <3>1. PICK g : g = getStateObject(getOrNew(db, a), a)
      OBVIOUS
    <3>2. g = getStateObject(db, a)
      BY <2>1, <3>1 DEF getOrNew
    <3>3. g.account.bal \in Nat
      <4>1. g \in Object
        BY <1>1, <2>1, <3>2, GetObject
      <4>2. g.account \in Account
        BY <4>1, ObjectFields
      <4>3. QED
        BY <4>2 DEF Account
    <3>4. n \in Nat /\ n <= g.account.bal
      BY <2>1, <3>2, <3>3
    <3>5. Dirties(db, SubBalance(db, a, n), a, WithBalance(g, g.account.bal - n))
      BY <1>1, <2>3, <3>1, <3>4, SubBalanceWrites
    <3>6. Writes(db, SubBalance(db, a, n))
      BY <1>3, <3>5
    <3>7. QED
      BY <1>2, <2>1, <3>6
  <2>4. QED
    BY <2>2, <2>3
<1>13. ASSUME NEW a \in Addr, NEW k \in Slot, EvmWarmSlot(a, k) PROVE Kept
  <2>1. Run("access", AddSlotToAccessList(db, a, k))
    BY <1>13 DEF EvmWarmSlot
  <2>2. Good(db)
    BY <1>5, <2>1
  <2>3. Writes(db, AddSlotToAccessList(db, a, k))
    BY <1>1, <2>2, AddSlotWrites
  <2>4. QED
    BY <1>2, <2>1, <2>3
<1>14. ASSUME NEW a \in Addr, NEW k \in Slot, NEW v \in Value, EvmSetState(a, k, v) PROVE Kept
  <2>1. SetState(db, a, k, v) = getOrNew(db, a) \/ \E o : Dirties(db, SetState(db, a, k, v), a, o)
    BY <1>1, SetStateWrites
  <2>2. Writes(db, SetState(db, a, k, v))
    BY <1>3, <1>4, <2>1
  <2>3. QED
    BY <1>2, <1>14, <2>2 DEF EvmSetState
<1>15. ASSUME NEW a \in Addr, NEW k \in Slot, NEW v \in Value, EvmSetTransient(a, k, v) PROVE Kept
  <2>1. Writes(db, SetTransientState(db, a, k, v))
    BY <1>1, SetTransientWrites
  <2>2. QED
    BY <1>2, <1>15, <2>1 DEF EvmSetTransient
<1>16. ASSUME NEW a \in Addr, NEW n \in 0 .. 1, EvmCredit(a, n) PROVE Kept
  <2>1. Run("balance", AddBalance(db, a, n))
    BY <1>16 DEF EvmCredit
  <2>2. CASE n = 0
    <3>1. AddBalance(db, a, n) = getOrNew(db, a)
      BY <2>2 DEF AddBalance
    <3>2. QED
      BY <1>2, <1>4, <2>1, <3>1
  <2>3. CASE n # 0
    <3>1. PICK g : g = getStateObject(getOrNew(db, a), a)
      OBVIOUS
    <3>2. n \in Nat
      OBVIOUS
    <3>3. Dirties(db, AddBalance(db, a, n), a, WithBalance(g, g.account.bal + n))
      BY <1>1, <2>3, <3>1, <3>2, AddBalanceWrites
    <3>4. Writes(db, AddBalance(db, a, n))
      BY <1>3, <3>3
    <3>5. QED
      BY <1>2, <2>1, <3>4
  <2>4. QED
    BY <2>2, <2>3
<1>17. db.refund \in Nat
  BY <1>1 DEF Db
<1>18. ASSUME EvmAddRefund PROVE Kept
  <2>1. PICK n, t : n = db.refund + 1 /\ t = AddRefund(db, 1)
    OBVIOUS
  <2>2. n \in Nat
    BY <1>17, <2>1
  <2>3. t = [append(db, [type |-> "refund", prev |-> db.refund]) EXCEPT !.refund = n]
    <3>1. PICK e, u : e = [type |-> "refund", prev |-> db.refund] /\ u = append(db, e)
      OBVIOUS
    <3>2. e \in Entry
      BY <1>17, <3>1 DEF Entry
    <3>3. u.refund = db.refund
      BY <1>1, <3>1, <3>2, AppendFields
    <3>4. t = [u EXCEPT !.refund = u.refund + 1]
      BY <2>1, <3>1 DEF AddRefund
    <3>5. QED
      BY <2>1, <3>1, <3>3, <3>4
  <2>4. Writes(db, t)
    BY <1>1, <2>2, <2>3, RefundWrites
  <2>5. QED
    BY <1>2, <1>18, <2>1, <2>4 DEF EvmAddRefund
<1>19. ASSUME EvmSubRefund PROVE Kept
  <2>1. PICK n, t : n = db.refund - 1 /\ t = SubRefund(db, 1)
    OBVIOUS
  <2>2. n \in Nat /\ ~(1 > db.refund)
    BY <1>17, <1>19, <2>1 DEF EvmSubRefund
  <2>3. t = [append(db, [type |-> "refund", prev |-> db.refund]) EXCEPT !.refund = n]
    <3>1. PICK e, u : e = [type |-> "refund", prev |-> db.refund] /\ u = append(db, e)
      OBVIOUS
    <3>2. e \in Entry
      BY <1>17, <3>1 DEF Entry
    <3>3. u.refund = db.refund
      BY <1>1, <3>1, <3>2, AppendFields
    <3>4. t = [u EXCEPT !.refund = u.refund - 1]
      BY <2>1, <2>2, <3>1 DEF SubRefund
    <3>5. QED
      BY <2>1, <3>1, <3>3, <3>4
  <2>4. Writes(db, t)
    BY <1>1, <2>2, <2>3, RefundWrites
  <2>5. QED
    BY <1>2, <1>19, <2>1, <2>4 DEF EvmSubRefund
<1>20. ASSUME EvmLog PROVE Kept
  <2>1. Writes(db, AddLog(db))
    BY <1>1, AddLogWrites
  <2>2. QED
    BY <1>2, <1>20, <2>1 DEF EvmLog
<1>21. Kept
  BY <1>6, <1>7, <1>8, <1>9, <1>10, <1>11, <1>12, <1>13, <1>14, <1>15, <1>16, <1>18, <1>19, <1>20 DEF Method
<1>22. QED
  BY <1>21 DEF Kept

\* A precompile call: one that returns an error is undone.
LEMMA CallStep ==
    ASSUME Inv, NEW from \in Addr, NEW to \in Addr, NEW n \in 0 .. 1, NEW stops \in BOOLEAN,
           EvmCallPrecompile(from, to, n, stops)
    PROVE  /\ Inv' /\ Versions!Change
           /\ Len(db'.journal) = Len(db.journal) => View(db)' = View(db) /\ db'.dirties = db.dirties
<1>1. PICK r : r = RunPrecompile(db, db.precompileCallsCounter + 1, from, to, n, stops)
  OBVIOUS
<1>2. PICK t : t = IF r.ok THEN r.db ELSE RevertJournal(r.db, Len(db.journal))
  OBVIOUS
<1>3. Run("precompile", t)
  BY <1>1, <1>2 DEF EvmCallPrecompile
<1>4. /\ store \in Store /\ db \in Db /\ Running(db, copies)
  BY <1>3 DEF Inv, Sound, Run
<1>5. store.storage = [a \in Addr |-> NoStorage] /\ Good(db) /\ \E c : History(db, c)
  BY <1>4 DEF Running
<1>6. db.precompileCallsCounter + 1 \in Nat /\ n \in Nat
  <2>1. db.precompileCallsCounter \in 0 .. CounterSize - 1
    BY <1>4 DEF Db
  <2>2. CounterSize \in Nat
    BY ParameterAssumption
  <2>3. QED
    BY <2>1, <2>2
<1>7. /\ r.db \in Db /\ Continues(db, r.db) /\ Len(r.db.journal) > Len(db.journal)
      /\ r.ok => Good(r.db)
  BY <1>1, <1>4, <1>5, <1>6, PrecompileRuns
<1>8. CASE r.ok
  <2>1. t = r.db
    BY <1>2, <1>8
  <2>2. t \in Db /\ Continues(db, t) /\ Good(t) /\ Len(t.journal) > Len(db.journal)
    BY <1>7, <1>8, <2>1
  <2>3. Inv' /\ Versions!Change /\ db' = t
    BY <1>3, <2>2, RunStep
  <2>4. Len(t.journal) \in Nat /\ Len(db.journal) \in Nat
    <3>1. \A v \in Db : Len(v.journal) \in Nat
      BY DEF Db
    <3>2. QED
      BY <1>4, <2>2, <3>1
  <2>5. Len(t.journal) # Len(db.journal)
    BY <2>2, <2>4
  <2>6. QED
    BY <2>3, <2>5
<1>9. CASE ~r.ok
  <2>1. t = RevertJournal(r.db, Len(db.journal))
    BY <1>2, <1>9
  <2>2. PICK c : History(db, c)
    BY <1>5
  <2>3. t \in Db /\ Covers(t, db) /\ Continues(db, t)
    BY <1>4, <1>7, <2>1, <2>2, CallUndone
  <2>4. Good(t) /\ View(t) = View(db)
    BY <1>4, <1>5, <2>3, CoversGood, CoversView
  <2>5. Inv' /\ Versions!Change /\ View(db)' = View(t) /\ db' = t
    BY <1>3, <2>3, <2>4, RunStep
  <2>6. t.dirties = db.dirties
    BY <2>3 DEF Covers, RestSame
  <2>7. QED
    BY <2>4, <2>5, <2>6
<1>10. QED
  BY <1>8, <1>9

\* Snapshot keeps the invariant and takes a copy of the abstract state.
LEMMA SnapshotStep ==
    ASSUME Inv, EvmSnapshot
    PROVE  /\ Inv' /\ Versions!Snapshot
           /\ db'.precompileCallsCounter = db.precompileCallsCounter
<1>1. PICK t, v : t = Snapshot(db) /\ v = Append(copies, View(db))
  OBVIOUS
<1>2. /\ phase = "running" /\ phase' = "running" /\ db' = t /\ copies' = v
      /\ kind' = kind /\ store' = store
  BY <1>1 DEF EvmSnapshot
<1>3. store \in Store /\ kind \in Kinds /\ Sound(db, copies) /\ Running(db, copies)
  BY <1>2 DEF Inv
<1>4. /\ Sound(t, v) /\ Running(t, v) /\ View(t) = View(db)
      /\ t.precompileCallsCounter = db.precompileCallsCounter
  BY <1>1, <1>3, SnapshotRuns
<1>5. Sound(db, copies)'
  BY <1>2, <1>4
<1>6. Running(db, copies)'
  BY <1>2, <1>4, SameRunning
<1>7. CommitRefusals'
  BY <1>2 DEF CommitRefusals
<1>8. Inv'
  BY <1>2, <1>3, <1>5, <1>6, <1>7 DEF Inv
<1>9. View(db)' = View(db)
  BY <1>2, <1>4, SameView
<1>10. Versions!Snapshot
  BY <1>1, <1>2, <1>9 DEF Versions!Snapshot
<1>11. QED
  BY <1>2, <1>4, <1>8, <1>10

\* RevertToSnapshot keeps the invariant and goes back to a copy of the abstract state.
LEMMA RevertStep ==
    ASSUME Inv, NEW idx \in DOMAIN db.validRevisions, EvmRevert(idx)
    PROVE  /\ Inv' /\ \E i \in DOMAIN copies : Versions!GoBack(i)
           /\ db'.precompileCallsCounter = db.precompileCallsCounter
<1>1. PICK t, v : t = RevertToSnapshot(db, db.validRevisions[idx].id) /\ v = SubSeq(copies, 1, idx - 1)
  OBVIOUS
<1>2. /\ phase = "running" /\ phase' = "running" /\ db' = t /\ copies' = v
      /\ kind' = kind /\ store' = store
  BY <1>1 DEF EvmRevert
<1>3. store \in Store /\ kind \in Kinds /\ Sound(db, copies) /\ Running(db, copies)
  BY <1>2 DEF Inv
<1>4. idx \in 1 .. Len(db.validRevisions) /\ idx \in DOMAIN copies
  <2>1. DOMAIN db.validRevisions = 1 .. Len(db.validRevisions)
    BY <1>3 DEF Sound, Db
  <2>2. PICK S : copies \in Seq(S)
    BY <1>3 DEF Sound
  <2>3. DOMAIN copies = 1 .. Len(copies) /\ Len(copies) = Len(db.validRevisions)
    BY <1>3, <2>2 DEF Sound, RevisionsOrdered
  <2>4. QED
    BY <2>1, <2>3
<1>5. /\ Sound(t, v) /\ Running(t, v) /\ View(t) = copies[idx]
      /\ t.precompileCallsCounter = db.precompileCallsCounter
  BY <1>1, <1>3, <1>4, RevertRuns
<1>6. Sound(db, copies)'
  BY <1>2, <1>5
<1>7. Running(db, copies)'
  BY <1>2, <1>5, SameRunning
<1>8. CommitRefusals'
  BY <1>2 DEF CommitRefusals
<1>9. Inv'
  BY <1>2, <1>3, <1>6, <1>7, <1>8 DEF Inv
<1>10. View(db)' = copies[idx]
  BY <1>2, <1>5, SameView
<1>11. Versions!GoBack(idx)
  BY <1>1, <1>2, <1>10 DEF Versions!GoBack
<1>12. QED
  BY <1>2, <1>4, <1>5, <1>9, <1>11

\* Commit: what it refuses it refuses for one of the two reasons.
LEMMA CommitStep ==
    ASSUME Inv, Commit
    PROVE  /\ Inv' /\ Versions!Finish
           /\ db'.precompileCallsCounter = db.precompileCallsCounter
<1>1. PICK c : c = commitWithCtx(db, Current(db))
  OBVIOUS
<1>2. /\ phase = "running" /\ phase' = IF c.ok THEN "committed" ELSE "failed"
      /\ store' = IF c.ok THEN c.st ELSE store
      /\ kind' = kind /\ db' = db /\ copies' = copies
  BY <1>1 DEF Commit
<1>3. store \in Store /\ kind \in Kinds /\ Sound(db, copies) /\ db \in Db
  BY DEF Inv, Sound
<1>4. Current(db) \in Store
  BY <1>3, CurrentType
<1>5. /\ c.st \in Store
      /\ c.ok <=> \A a \in Addr : Live(db, a) => IF db.objs[a].destructed THEN CanDelete(Current(db), a)
                                                 ELSE CanSet(Current(db), a, db.objs[a])
  BY <1>1, <1>3, <1>4, CommitStore
<1>6. CommitRefusals'
  <2>1. CASE c.ok
    BY <1>2, <2>1 DEF CommitRefusals
  <2>2. CASE ~c.ok
    <3>1. PICK a \in Addr : /\ Live(db, a)
                            /\ ~IF db.objs[a].destructed THEN CanDelete(Current(db), a)
                                ELSE CanSet(Current(db), a, db.objs[a])
      BY <1>5, <2>2
    <3>2. db.dirties[a] > 0
      BY <3>1 DEF Live
    <3>3. \/ \E m \in Blocked : db.dirties[m] > 0
          \/ \E b \in Addr : /\ db.dirties[b] > 0 /\ db.objs[b].destructed
                             /\ Current(db).acct[b] # Missing /\ Current(db).acct[b].code = NoCode
      BY <3>1, <3>2 DEF CanDelete, CanSet
    <3>4. store' = store
      BY <1>2, <2>2
    <3>5. Current(db)' = Current(db)
      BY <1>2, <3>4, SameView
    <3>6. QED
      BY <1>2, <3>3, <3>5 DEF CommitRefusals
  <2>3. QED
    BY <2>1, <2>2
<1>7. Sound(db, copies)'
  BY <1>2, <1>3
<1>8. phase' \in {"committed", "failed"} /\ phase' # "running" /\ store' \in Store
  BY <1>2, <1>3, <1>5
<1>9. Inv'
  BY <1>2, <1>3, <1>6, <1>7, <1>8 DEF Inv
<1>10. Versions!Finish
  BY <1>2, <1>8 DEF Versions!Finish
<1>11. QED
  BY <1>2, <1>9, <1>10

\* What a step may do: it keeps the invariant, it is a step of VersionedState, and a
\* failed call leaves nothing behind.
LEMMA StepKeeps ==
    ASSUME Inv, [Next]_vars
    PROVE  /\ Inv' /\ [Versions!Next]_(Versions!vvars)
           /\ /\ db'.precompileCallsCounter # db.precompileCallsCounter
              /\ Len(db'.journal) = Len(db.journal)
              => View(db)' = View(db) /\ db'.dirties = db.dirties
<1> DEFINE Undone == /\ db'.precompileCallsCounter # db.precompileCallsCounter
                     /\ Len(db'.journal) = Len(db.journal)
                     => View(db)' = View(db) /\ db'.dirties = db.dirties
           Kept == Inv' /\ [Versions!Next]_(Versions!vvars) /\ Undone
<1>1. CASE UNCHANGED vars
  <2>1. kind' = kind /\ store' = store /\ db' = db /\ copies' = copies /\ phase' = phase
    BY <1>1 DEF vars
  <2>2. Sound(db, copies)' <=> Sound(db, copies)
    BY <2>1
  <2>3. Running(db, copies)' <=> Running(db, copies)
    BY <2>1, SameRunning
  <2>4. Current(db)' = Current(db) /\ View(db)' = View(db)
    BY <2>1, SameView
  <2>5. CommitRefusals' <=> CommitRefusals
    BY <2>1, <2>4 DEF CommitRefusals
  <2>6. Inv'
    BY <2>1, <2>2, <2>3, <2>5 DEF Inv
  <2>7. UNCHANGED Versions!vvars
    BY <2>1, <2>4 DEF Versions!vvars
  <2>8. QED
    BY <2>1, <2>6, <2>7
<1>2. ASSUME Inv' /\ Versions!Change /\ db'.precompileCallsCounter = db.precompileCallsCounter
      PROVE  Kept
  BY <1>2 DEF Versions!Next
<1>3. ASSUME NEW from \in Addr, NEW to \in Addr, NEW n \in 0 .. 1, NEW stops \in BOOLEAN,
             EvmCallPrecompile(from, to, n, stops)
      PROVE  Kept
  BY <1>3, CallStep DEF Versions!Next
<1>4. ASSUME EvmSnapshot PROVE Kept
  BY <1>4, SnapshotStep DEF Versions!Next
<1>5. ASSUME NEW idx \in DOMAIN db.validRevisions, EvmRevert(idx) PROVE Kept
  BY <1>5, RevertStep DEF Versions!Next
<1>6. ASSUME Commit PROVE Kept
  BY <1>6, CommitStep DEF Versions!Next
<1> HIDE DEF Kept
<1>7. ASSUME Next PROVE Kept
  <2>1. \/ Method
        \/ \E from, to \in Addr, n \in 0 .. 1, stops \in BOOLEAN : EvmCallPrecompile(from, to, n, stops)
        \/ EvmSnapshot
        \/ \E idx \in DOMAIN db.validRevisions : EvmRevert(idx)
        \/ Commit
    BY <1>7 DEF Next, Method
  <2>2. Method => Kept
    BY <1>2, MethodStep
  <2>3. ASSUME \E from, to \in Addr, n \in 0 .. 1, stops \in BOOLEAN : EvmCallPrecompile(from, to, n, stops)
        PROVE  Kept
    <3>1. PICK from \in Addr, to \in Addr, n \in 0 .. 1, stops \in BOOLEAN :
              EvmCallPrecompile(from, to, n, stops)
      BY <2>3
    <3>2. QED
      BY <1>3, <3>1
  <2>4. QED
    BY <1>4, <1>5, <1>6, <2>1, <2>2, <2>3
<1>8. Kept
  BY <1>1, <1>7 DEF Kept
<1>9. QED
  BY <1>8 DEF Kept

\* A sound journal has the type, the counts and the objects that JournalSound asks for.
LEMMA InvJournal ==
    ASSUME Inv
    PROVE  JournalSound
<1>1. store \in Store /\ phase \in {"running", "committed", "failed"} /\ Sound(db, copies)
  BY DEF Inv
<1>2. /\ db \in Db /\ ~db.panic /\ db.logs \in Nat /\ RevisionsOrdered(db, copies)
      /\ CountsAt(db, db.journal, Len(db.journal))
      /\ \A a \in Addr : db.dirties[a] > 0 => db.objs[a] # Missing
  BY <1>1 DEF Sound
<1>3. db.journal \in Seq(Entry) /\ Len(db.journal) \in Nat /\ DOMAIN db.journal = 1 .. Len(db.journal)
  BY <1>2 DEF Db
<1>4. DirtyCounts
  <2>1. \A a \in Addr : DirtyEntries(db.journal, Len(db.journal), a)
                            = {i \in DOMAIN db.journal : Dirtied(db.journal[i]) = a}
    BY <1>3 DEF DirtyEntries
  <2>2. QED
    BY <1>2, <2>1 DEF DirtyCounts, CountsAt
<1>5. NeverPanics
  BY <1>2 DEF NeverPanics, DirtyAddrs
<1>6. db.dirties \in [Addr -> Nat]
  <2>1. \A a \in Addr : db.dirties[a] \in Nat
    <3>1. ASSUME NEW a \in Addr PROVE db.dirties[a] \in Nat
      <4>1. IsFiniteSet(DirtyEntries(db.journal, Len(db.journal), a))
        <5>1. IsFiniteSet(1 .. Len(db.journal))
          <6>1. Len(db.journal) \in Int /\ 1 \in Int
            BY <1>3
          <6>2. QED
            BY <6>1, FS_Interval
        <5>2. DirtyEntries(db.journal, Len(db.journal), a) \subseteq 1 .. Len(db.journal)
          BY DEF DirtyEntries
        <5>3. QED
          BY <5>1, <5>2, FS_Subset
      <4>2. QED
        BY <1>2, <4>1, FS_CardinalityType DEF CountsAt
    <3>2. QED
      BY <3>1
  <2>2. db.dirties \in [Addr -> Int]
    BY <1>2 DEF Db
  <2>3. QED
    BY <2>1, <2>2
<1>7. ASSUME NEW a \in Addr, db.objs[a] # Missing
      PROVE  /\ db.objs[a].account \in Account
             /\ \A k \in DOMAIN db.objs[a].dirty : k \in Slot /\ db.objs[a].dirty[k] \in Value
  <2>1. db.objs[a] \in Object
    BY <1>1, <1>2, <1>7, GetObject
  <2>2. QED
    BY <2>1, ObjectFields
<1>8. /\ Len(copies) = Len(db.validRevisions)
      /\ \A i \in DOMAIN db.validRevisions : db.validRevisions[i].journalIndex <= Len(db.journal)
  <2>1. DOMAIN db.validRevisions = 1 .. Len(db.validRevisions)
    BY <1>2 DEF Db
  <2>2. QED
    BY <1>2, <2>1 DEF RevisionsOrdered
<1>9. /\ db.refund \in Nat /\ db.precompileCallsCounter \in 0 .. CounterSize - 1
      /\ db.transient \in [Addr -> [Slot -> Value]]
  BY <1>2 DEF Db
<1>10. TypeOK
  BY <1>1, <1>2, <1>6, <1>7, <1>8, <1>9 DEF TypeOK
<1>11. QED
  BY <1>4, <1>5, <1>10 DEF JournalSound

\* What a commit would write is what the EVM sees.
LEMMA InvCommit ==
    ASSUME Inv
    PROVE  CommitSound
<1>1. store \in Store /\ db \in Db /\ CommitRefusals
  BY DEF Inv, Sound
<1>2. PICK c : c = commitWithCtx(db, Current(db))
  OBVIOUS
<1>3. ASSUME phase = "running", c.ok, NEW a \in Addr \ Blocked
      PROVE  IF Exist(db, a) /\ getStateObject(db, a).destructed
             THEN c.st.acct[a] = Missing /\ c.st.storage[a] = NoStorage
             ELSE /\ c.st.acct[a] = IF Exist(db, a) THEN getStateObject(db, a).account ELSE Missing
                  /\ \A k \in Slot : c.st.storage[a][k] = GetState(db, a, k)
  <2>1. Good(db)
    BY <1>3 DEF Inv, Running
  <2>2. QED
    BY <1>1, <1>2, <1>3, <2>1, CommitShows
<1>4. CommitsTheView
  BY <1>2, <1>3 DEF CommitsTheView
<1>5. QED
  BY <1>1, <1>4 DEF CommitSound

-----------------------------------------------------------------------------
\* The invariant holds at all times.
THEOREM SpecInv == Spec => []Inv
<1>1. Init => Inv
  BY InitInv
<1>2. Inv /\ [Next]_vars => Inv'
  BY StepKeeps
<1>3. QED
  BY <1>1, <1>2, PTL DEF Spec

\* In whatever order entries are appended and undone, the journal, the counts beside it and
\* the objects it points into stay in step, and nothing panics (journal.append, journal.Revert,
\* StateDB.RevertToSnapshot).
THEOREM SpecJournalSound == Spec => []JournalSound
<1>1. Inv => JournalSound
  BY InvJournal
<1>2. QED
  BY <1>1, SpecInv, PTL

\* commitWithCtx writes exactly what the EVM sees, through any nesting of precompile calls and
\* reverts, and the final commit fails for two reasons only (StateDB.Commit).
THEOREM SpecCommitSound == Spec => []CommitSound
<1>1. Inv => CommitSound
  BY InvCommit
<1>2. QED
  BY <1>1, SpecInv, PTL

\* A precompile call that returns an error, at whichever step, leaves nothing behind but the
\* count of calls (Precompile.RunSetup, StateDB.AddPrecompileFn, BalanceHandler).
THEOREM SpecFailedCallUndone == Spec => FailedCallUndone
<1> DEFINE Undone == /\ db'.precompileCallsCounter # db.precompileCallsCounter
                     /\ Len(db'.journal) = Len(db.journal)
                     => View(db)' = View(db) /\ db'.dirties = db.dirties
<1>1. Inv /\ [Next]_vars => Undone
  BY StepKeeps
<1> HIDE DEF Undone
<1>2. Spec => [][Undone]_vars
  BY <1>1, SpecInv, PTL DEF Spec
<1>3. QED
  BY <1>2 DEF Undone, FailedCallUndone

\* Snapshot and RevertToSnapshot implement copies of the whole visible state: undoing the
\* journal is going back to the copy.
THEOREM SpecRevertsToCopies == Spec => RevertsToCopies
<1>1. Init => Versions!Init
  BY DEF Init, Versions!Init
<1>2. Inv /\ [Next]_vars => [Versions!Next]_(Versions!vvars)
  BY StepKeeps
<1>3. QED
  BY <1>1, <1>2, SpecInv, PTL DEF Spec, RevertsToCopies, Versions!Spec
=============================================================================
