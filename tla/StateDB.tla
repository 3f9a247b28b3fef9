------------------------------ MODULE StateDB ------------------------------
(***************************************************************************)
(* x/vm/statedb: the state the EVM reads and writes during one transaction.*)
(* Writes go to live objects and are journaled; RevertToSnapshot undoes    *)
(* the journal back to a revision; Commit writes the dirty objects to the  *)
(* keeper.  A precompile runs native code on a cache context: the dirty    *)
(* objects are committed to it first, the balance changes of the native    *)
(* code are mirrored back into the objects, and a journal entry remembers  *)
(* the multi-store snapshot to go back to.  The events of native code are  *)
(* left out.                                                               *)
(*                                                                         *)
(* The whole StateDB is one record, db; a method is an operator on it.     *)
(* Code is identified with its hash.  The caches of reads (objects loaded  *)
(* and never written, originStorage) are left out: they hold what the      *)
(* context s.ctx holds, which nothing writes before Commit.                *)
(***************************************************************************)
EXTENDS Integers, Sequences, FiniteSets, SequencesExt

CONSTANTS
    Addr,        \* account addresses
    Blocked,     \* addresses x/bank lets nobody send to (module accounts)
    Slot,        \* storage keys
    Value,       \* storage values
    Zero,        \* the value of a slot never written
    NoCode,      \* the empty code hash
    Code,        \* code hashes of contracts
    Missing,     \* no account, no object, no cache context
    MaxPrecompileCalls,
    CounterSize, \* 2^8: precompileCallsCounter is a uint8
    Kinds,       \* kinds of transaction: the operations (ops) and the slots of the access
                 \* list (named) of each, and the bounds of its journal and revisions
    MaxBalance,  \* bound: balance of an account
    MaxCalls     \* bound: value of precompileCallsCounter

ASSUME ParameterAssumption ==
    /\ IsFiniteSet(Addr) /\ Blocked \subseteq Addr
    /\ Zero \in Value /\ NoCode \notin Code
    /\ CounterSize \in Nat /\ MaxPrecompileCalls \in 0 .. CounterSize - 1
    /\ {MaxBalance, MaxCalls} \subseteq Nat
    /\ \A k \in Kinds : /\ k.named \subseteq Addr \X Slot /\ IsFiniteSet(k.named)
                       /\ {k.journal, k.revisions} \subseteq Nat

VARIABLES
    kind,    \* the kind of this transaction
    store,   \* what the keeper reads and writes through s.ctx
    db,      \* the StateDB
    copies,  \* history: the visible state at every valid revision
    phase    \* "running", "committed" or "failed" (Commit returned an error)

vars == <<kind, store, db, copies, phase>>

(***************************************************************************)
(* Accounts and stores.  native stands for all state of other modules.     *)
(***************************************************************************)
Account == [nonce: Nat, bal: Nat, code: Code \cup {NoCode}]
NewAccount == [nonce |-> 0, bal |-> 0, code |-> NoCode]
NoStorage == [k \in Slot |-> Zero]

Store == [acct: [Addr -> Account \cup {Missing}],
          storage: [Addr -> [Slot -> Value]],
          native: Nat]

BankBalance(st, a) == IF st.acct[a] = Missing THEN 0 ELSE st.acct[a].bal

SetBankBalance(st, a, n) ==
    LET old == IF st.acct[a] = Missing THEN NewAccount ELSE st.acct[a]
    IN  [st EXCEPT !.acct[a] = [old EXCEPT !.bal = n]]

(***************************************************************************)
(* Live objects.  dirty holds the slots written in this transaction.       *)
(***************************************************************************)
Object == [account: Account, dirty: UNION {[D -> Value] : D \in SUBSET Slot},
           destructed: BOOLEAN, newContract: BOOLEAN]

\* Missing is the nil pointer of the code.
ASSUME MissingAssumption == Missing \notin Addr /\ Missing \notin Account /\ Missing \notin Object

newObject(account) ==
    [account |-> account, dirty |-> << >>, destructed |-> FALSE, newContract |-> FALSE]

getStateObject(s, a) ==
    IF s.objs[a] # Missing THEN s.objs[a]
    ELSE IF store.acct[a] # Missing THEN newObject(store.acct[a])
    ELSE Missing

Exist(s, a) == getStateObject(s, a) # Missing

GetState(s, a, k) ==
    LET obj == getStateObject(s, a)
    IN  IF obj = Missing THEN Zero
        ELSE IF k \in DOMAIN obj.dirty THEN obj.dirty[k]
        ELSE store.storage[a][k]

setStateObject(s, a, obj) == [s EXCEPT !.objs[a] = obj]

(***************************************************************************)
(* The journal.                                                            *)
(***************************************************************************)
\* The account an entry makes dirty, or Missing.
Dirtied(e) ==
    IF e.type \in {"createObject", "selfDestruct", "balance", "nonce", "storage", "code"}
    THEN e.account ELSE Missing

\* Mutant of append: a mark where the code counts.
MarkedNotCounted(s, e) ==
    LET journaled == [s EXCEPT !.journal = Append(@, e)]
    IN  IF Dirtied(e) = Missing THEN journaled
        ELSE [journaled EXCEPT !.dirties[e.account] = 1]

append(s, e) ==
    LET journaled == [s EXCEPT !.journal = Append(@, e)]
    IN  IF Dirtied(e) = Missing THEN journaled
        ELSE [journaled EXCEPT !.dirties[e.account] = @ + 1]

Panic(s) == [s EXCEPT !.panic = TRUE]

\* Undo one change of an object; without an object the code dereferences nil.
UndoObject(s, a, Restore(_)) ==
    LET obj == getStateObject(s, a)
    IN  IF obj = Missing THEN Panic(s) ELSE setStateObject(s, a, Restore(obj))

\* The access list: an address has the index of its slots, 0 for none.
SlotListed(al, a, k) ==
    /\ a \in DOMAIN al.addresses
    /\ al.addresses[a] # 0
    /\ k \in al.slots[al.addresses[a]]

DeleteSlot(al, a, k) ==
    LET idx  == al.addresses[a]
        left == al.slots[idx] \ {k}
    IN  IF left # {} THEN [al EXCEPT !.slots[idx] = left]
        ELSE [addresses |-> [al.addresses EXCEPT ![a] = 0],
              slots |-> SubSeq(al.slots, 1, idx - 1)]

DeleteAddress(al, a) ==
    [al EXCEPT !.addresses = [b \in DOMAIN @ \ {a} |-> @[b]]]

\* Mutant of RevertMultiStore: the snapshot itself is kept.
SnapshotKept(s, e) ==
    [s EXCEPT !.cache = SubSeq(@, 1, e.snapshot + 1)]

RevertMultiStore(s, e) ==
    IF e.snapshot \notin 1 .. Len(s.cache) - 1 THEN Panic(s)
    ELSE [s EXCEPT !.cache = SubSeq(@, 1, e.snapshot)]

Revert(s, e) ==
    CASE e.type = "createObject" -> [s EXCEPT !.objs[e.account] = Missing]
      [] e.type = "resetObject" -> [s EXCEPT !.objs[e.account] = e.prev]
      [] e.type = "createContract" ->
            UndoObject(s, e.account, LAMBDA o : [o EXCEPT !.newContract = FALSE])
      [] e.type = "selfDestruct" ->
            UndoObject(s, e.account, LAMBDA o : [o EXCEPT !.destructed = e.prev,
                                                          !.account.bal = e.prevBalance])
      [] e.type = "balance" -> UndoObject(s, e.account, LAMBDA o : [o EXCEPT !.account.bal = e.prev])
      [] e.type = "nonce" -> UndoObject(s, e.account, LAMBDA o : [o EXCEPT !.account.nonce = e.prev])
      [] e.type = "code" -> UndoObject(s, e.account, LAMBDA o : [o EXCEPT !.account.code = e.prev])
      [] e.type = "storage" ->
            UndoObject(s, e.account, LAMBDA o :
                [o EXCEPT !.dirty = [k \in DOMAIN @ \cup {e.key} |-> IF k = e.key THEN e.prev ELSE @[k]]])
      [] e.type = "transient" -> [s EXCEPT !.transient[e.account][e.key] = e.prev]
      [] e.type = "refund" -> [s EXCEPT !.refund = e.prev]
      [] e.type = "log" -> [s EXCEPT !.logs = @ - 1]
      [] e.type = "accessAddress" -> [s EXCEPT !.accessList = DeleteAddress(@, e.account)]
      [] e.type = "accessSlot" ->
            IF e.account \notin DOMAIN s.accessList.addresses
               \/ s.accessList.addresses[e.account] \notin DOMAIN s.accessList.slots
            THEN Panic(s)
            ELSE [s EXCEPT !.accessList = DeleteSlot(@, e.account, e.key)]
      [] e.type = "precompile" -> RevertMultiStore(s, e)

\* Undo the entry and drop the dirty mark it left.
Undo(e, s) ==
    LET undone == Revert(s, e)
    IN  IF Dirtied(e) = Missing THEN undone
        ELSE [undone EXCEPT !.dirties[e.account] = @ - 1]

\* Mutant of RevertJournal: the oldest entry first.
OldestUndoneFirst(s, n) ==
    LET undo(t, e) == Undo(e, t)
        undone == FoldLeft(undo, s, SubSeq(s.journal, n + 1, Len(s.journal)))
    IN  [undone EXCEPT !.journal = SubSeq(@, 1, n)]

\* Undo everything above the first n entries, the newest first.
RevertJournal(s, n) ==
    LET undone == FoldRight(Undo, SubSeq(s.journal, n + 1, Len(s.journal)), s)
    IN  [undone EXCEPT !.journal = SubSeq(@, 1, n)]

(***************************************************************************)
(* Commit.                                                                 *)
(***************************************************************************)
\* Mutant of DeleteAccount: the storage stays.
StorageKept(st, a) == [st EXCEPT !.acct[a] = Missing]

\* keeper.DeleteAccount: nothing to do without an account; only contracts go.
CanDelete(st, a) == st.acct[a] = Missing \/ st.acct[a].code # NoCode
DeleteAccount(st, a) == [st EXCEPT !.acct[a] = Missing, !.storage[a] = NoStorage]

\* keeper.SetAccount: the mint that raises a balance is refused if blocked.
CanSet(st, a, obj) == a \in Blocked => obj.account.bal <= BankBalance(st, a)
SetAccount(st, a, obj) ==
    [st EXCEPT !.acct[a] = obj.account,
               !.storage[a] = [k \in Slot |-> IF k \in DOMAIN obj.dirty THEN obj.dirty[k] ELSE @[k]]]

DirtyAddrs(s) == {a \in Addr : s.dirties[a] > 0}

\* The result is the written store and whether no account was refused.
commitWithCtx(s, st) ==
    LET live == {a \in DirtyAddrs(s) : s.objs[a] # Missing}
        gone == {a \in live : s.objs[a].destructed}
        kept == live \ gone
        del(a, t) == DeleteAccount(t, a)
        set(a, t) == SetAccount(t, a, s.objs[a])
    IN  [st |-> FoldSet(set, FoldSet(del, st, {a \in gone : CanDelete(st, a)}),
                        {a \in kept : CanSet(st, a, s.objs[a])}),
         ok |-> /\ \A a \in gone : CanDelete(st, a)
                /\ \A a \in kept : CanSet(st, a, s.objs[a])]

\* The native state as the cache context, if there is one, has it.
Current(s) == IF s.cache = << >> THEN store ELSE Last(s.cache)

(***************************************************************************)
(* The setters.                                                            *)
(***************************************************************************)
\* Replaces the object, if there is one; only a first one makes dirty.
createObject(s, a) ==
    LET prev == getStateObject(s, a)
        e    == IF prev = Missing THEN [type |-> "createObject", account |-> a]
                ELSE [type |-> "resetObject", account |-> a, prev |-> prev]
    IN  setStateObject(append(s, e), a, newObject(NewAccount))

\* The balance is carried over.
CreateAccount(s, a) ==
    LET prev == getStateObject(s, a)
        t    == createObject(s, a)
    IN  IF prev = Missing THEN t ELSE [t EXCEPT !.objs[a].account.bal = prev.account.bal]

getOrNew(s, a) == IF Exist(s, a) THEN s ELSE createObject(s, a)

\* Journal entry e, then change the object of a, made first if it is missing.
Write(s, a, e, Change(_)) ==
    LET t == append(s, e) IN setStateObject(t, a, Change(getStateObject(t, a)))

SetBalance(s, a, n) ==
    Write(s, a, [type |-> "balance", account |-> a, prev |-> getStateObject(s, a).account.bal],
          LAMBDA o : [o EXCEPT !.account.bal = n])

AddBalance(s, a, n) ==
    LET t == getOrNew(s, a)
    IN  IF n = 0 THEN t ELSE SetBalance(t, a, getStateObject(t, a).account.bal + n)

SubBalance(s, a, n) ==
    LET t == getOrNew(s, a)
    IN  IF n = 0 THEN t ELSE SetBalance(t, a, getStateObject(t, a).account.bal - n)

SetNonce(s, a, n) ==
    LET t == getOrNew(s, a)
    IN  Write(t, a, [type |-> "nonce", account |-> a, prev |-> getStateObject(t, a).account.nonce],
              LAMBDA o : [o EXCEPT !.account.nonce = n])

SetCode(s, a, c) ==
    LET t == getOrNew(s, a)
    IN  Write(t, a, [type |-> "code", account |-> a, prev |-> getStateObject(t, a).account.code],
              LAMBDA o : [o EXCEPT !.account.code = c])

SetState(s, a, k, v) ==
    LET t == getOrNew(s, a)
    IN  IF GetState(t, a, k) = v THEN t
        ELSE Write(t, a, [type |-> "storage", account |-> a, key |-> k, prev |-> GetState(t, a, k)],
                   LAMBDA o : [o EXCEPT !.dirty = [j \in DOMAIN @ \cup {k} |-> IF j = k THEN v ELSE @[j]]])

CreateContract(s, a) ==
    IF getStateObject(s, a).newContract THEN s
    ELSE Write(s, a, [type |-> "createContract", account |-> a],
               LAMBDA o : [o EXCEPT !.newContract = TRUE])

\* Mutant of SelfDestruct: the balance is read after it was cleared.
BalanceClearedFirst(s, a) ==
    LET obj == getStateObject(s, a)
    IN  IF obj = Missing THEN s
        ELSE Write(s, a, [type |-> "selfDestruct", account |-> a, prev |-> obj.destructed,
                          prevBalance |-> 0],
                   LAMBDA o : [o EXCEPT !.destructed = TRUE, !.account.bal = 0])

SelfDestruct(s, a) ==
    LET obj == getStateObject(s, a)
    IN  IF obj = Missing THEN s
        ELSE Write(s, a, [type |-> "selfDestruct", account |-> a, prev |-> obj.destructed,
                          prevBalance |-> obj.account.bal],
                   LAMBDA o : [o EXCEPT !.destructed = TRUE, !.account.bal = 0])

\* Since Cancun only a contract created in the same transaction goes.
SelfDestruct6780(s, a) ==
    IF Exist(s, a) /\ getStateObject(s, a).newContract THEN SelfDestruct(s, a) ELSE s

SetTransientState(s, a, k, v) ==
    IF s.transient[a][k] = v THEN s
    ELSE [append(s, [type |-> "transient", account |-> a, key |-> k, prev |-> s.transient[a][k]])
             EXCEPT !.transient[a][k] = v]

AddRefund(s, n) == [append(s, [type |-> "refund", prev |-> s.refund]) EXCEPT !.refund = @ + n]

SubRefund(s, n) ==
    LET t == append(s, [type |-> "refund", prev |-> s.refund])
    IN  IF n > s.refund THEN Panic(t) ELSE [t EXCEPT !.refund = @ - n]

AddLog(s) == [append(s, [type |-> "log"]) EXCEPT !.logs = @ + 1]

(***************************************************************************)
(* Growing the access list.                                                *)
(***************************************************************************)
AddAddress(al, a) ==
    [al EXCEPT !.addresses = [b \in DOMAIN @ \cup {a} |-> IF b \in DOMAIN @ THEN @[b] ELSE 0]]

AddSlot(al, a, k) ==
    LET idx == IF a \in DOMAIN al.addresses THEN al.addresses[a] ELSE 0
    IN  IF idx # 0 THEN [al EXCEPT !.slots[idx] = @ \cup {k}]
        ELSE [addresses |-> [AddAddress(al, a).addresses EXCEPT ![a] = Len(al.slots) + 1],
              slots |-> Append(al.slots, {k})]

AddAddressToAccessList(s, a) ==
    IF a \in DOMAIN s.accessList.addresses THEN s
    ELSE [append(s, [type |-> "accessAddress", account |-> a])
             EXCEPT !.accessList = AddAddress(@, a)]

\* Mutant of AddSlotToAccessList: the slot is journaled before its address.
SlotJournaledFirst(s, a, k) ==
    LET t == append(s, [type |-> "accessSlot", account |-> a, key |-> k])
        u == IF a \in DOMAIN s.accessList.addresses THEN t
             ELSE append(t, [type |-> "accessAddress", account |-> a])
    IN  IF SlotListed(s.accessList, a, k) THEN s
        ELSE [u EXCEPT !.accessList = AddSlot(@, a, k)]

\* An entry for the address, if it is new, and one for the slot.
AddSlotToAccessList(s, a, k) ==
    LET t == IF a \in DOMAIN s.accessList.addresses THEN s
             ELSE append(s, [type |-> "accessAddress", account |-> a])
    IN  IF SlotListed(s.accessList, a, k) THEN s
        ELSE [append(t, [type |-> "accessSlot", account |-> a, key |-> k])
                 EXCEPT !.accessList = AddSlot(@, a, k)]

\* Before the first call: a new access list with the sender and the slots
\* the transaction names, and new transient storage.
Prepare(s, sender, named) ==
    LET warm(p, al) == AddSlot(al, p[1], p[2])
        empty == [addresses |-> << >>, slots |-> << >>]
    IN  [s EXCEPT !.accessList = FoldSet(warm, AddAddress(empty, sender), named),
                  !.transient = [a \in Addr |-> NoStorage]]

(***************************************************************************)
(* Revisions.                                                              *)
(***************************************************************************)
Snapshot(s) ==
    [s EXCEPT !.validRevisions = Append(@, [id |-> s.nextRevisionID, journalIndex |-> Len(s.journal)]),
              !.nextRevisionID = @ + 1]

\* Finds the revision by its id; older ones stay valid.
RevertToSnapshot(s, revid) ==
    LET idx == 1 + Cardinality({i \in DOMAIN s.validRevisions : s.validRevisions[i].id < revid})
    IN  IF idx \notin DOMAIN s.validRevisions \/ s.validRevisions[idx].id # revid THEN Panic(s)
        ELSE [RevertJournal(s, s.validRevisions[idx].journalIndex)
                 EXCEPT !.validRevisions = SubSeq(@, 1, idx - 1)]

(***************************************************************************)
(* Precompile calls.  The native code moves n coins and writes the state   *)
(* of its module; id names the call.                                       *)
(***************************************************************************)
GetCacheContext(s) ==
    IF s.cache # << >> THEN s ELSE [s EXCEPT !.cache = <<store>>]

MultiStoreSnapshot(s) == [s EXCEPT !.cache = Append(@, Last(@))]

\* Journal the snapshot to go back to, and count the call.
AddPrecompileFn(s, snapshot) ==
    [append(s, [type |-> "precompile", snapshot |-> snapshot])
        EXCEPT !.precompileCallsCounter = (@ + 1) % CounterSize]

\* Mutant of MirrorReceived: the event of the receiver is not processed.
ReceiptIgnored(s, to, n) == s

\* AfterBalanceChange: the two bank events of a transfer, blocked ones skipped.
MirrorSpent(s, from, n) == IF from \in Blocked \/ n = 0 THEN s ELSE SubBalance(s, from, n)
MirrorReceived(s, to, n) == IF to \in Blocked \/ n = 0 THEN s ELSE AddBalance(s, to, n)

NativeTransfer(st, from, to, n) ==
    LET paid == SetBankBalance(st, from, BankBalance(st, from) - n)
    IN  IF n = 0 THEN st ELSE SetBankBalance(paid, to, BankBalance(paid, to) + n)

\* A call up to its end, or up to an error: over the limit, in the commit to
\* the cache context, in the native code, or (stops) between two events.
RunPrecompile(s, id, from, to, n, stops) ==
    LET cached == GetCacheContext(s)
        added  == AddPrecompileFn(MultiStoreSnapshot(cached), Len(cached.cache))
        commit == commitWithCtx(added, Last(added.cache))
        synced == [added EXCEPT !.cache[Len(added.cache)] = commit.st]
        moved  == [NativeTransfer(commit.st, from, to, n) EXCEPT !.native = id]
        ran    == [synced EXCEPT !.cache[Len(synced.cache)] = moved]
        spent  == MirrorSpent(ran, from, n)
    IN  IF added.precompileCallsCounter > MaxPrecompileCalls THEN [db |-> added, ok |-> FALSE]
        ELSE IF ~commit.ok \/ BankBalance(commit.st, from) < n THEN [db |-> synced, ok |-> FALSE]
        ELSE IF stops THEN [db |-> spent, ok |-> FALSE]
        ELSE [db |-> MirrorReceived(spent, to, n), ok |-> TRUE]

(***************************************************************************)
(* What the EVM can see, and what a commit at this moment would leave.     *)
(***************************************************************************)
VisibleAccount(s, a) ==
    LET obj == getStateObject(s, a)
    IN  IF obj = Missing THEN Missing
        ELSE [account |-> obj.account, destructed |-> obj.destructed, newContract |-> obj.newContract]

View(s) ==
    [accounts  |-> [a \in Addr |-> VisibleAccount(s, a)],
     storage   |-> [a \in Addr |-> [k \in Slot |-> GetState(s, a, k)]],
     transient |-> s.transient,
     refund    |-> s.refund,
     logs      |-> s.logs,
     addresses |-> DOMAIN s.accessList.addresses,
     slots     |-> [a \in Addr |-> {k \in Slot : SlotListed(s.accessList, a, k)}],
     native    |-> <<Current(s).native, [a \in Blocked |-> BankBalance(Current(s), a)]>>]

(***************************************************************************)
(* The transaction.                                                        *)
(***************************************************************************)
New ==
    [objs |-> [a \in Addr |-> Missing],
     journal |-> << >>, dirties |-> [a \in Addr |-> 0],
     validRevisions |-> << >>, nextRevisionID |-> 0,
     refund |-> 0, logs |-> 0,
     transient |-> [a \in Addr |-> NoStorage],
     accessList |-> [addresses |-> << >>, slots |-> << >>],
     cache |-> << >>,
     precompileCallsCounter |-> 0,
     panic |-> FALSE]

\* A committed state: unused addresses, externally owned accounts and contracts
\* with coins; a module account has coins and no code.  A transaction starts.
Init ==
    /\ \E acct \in [Addr -> {Missing, [NewAccount EXCEPT !.bal = 1]}
                            \cup {[nonce |-> 1, bal |-> 1, code |-> c] : c \in Code}] :
           /\ \A m \in Blocked : acct[m] = [NewAccount EXCEPT !.bal = 1]
           /\ store = [acct |-> acct, storage |-> [a \in Addr |-> NoStorage], native |-> 0]
    /\ kind \in Kinds
    /\ \E sender \in Addr \ Blocked : db = Prepare(New, sender, kind.named)
    /\ copies = << >>
    /\ phase = "running"

\* A method that writes, within the bound of the journal.
Run(op, next) ==
    /\ phase = "running" /\ op \in kind.ops
    /\ Len(next.journal) <= kind.journal
    /\ db' = next
    /\ UNCHANGED <<kind, store, copies, phase>>

\* What the interpreter calls, under the conditions it checks first.  Module
\* accounts are no contracts: they can only be credited.
EvmCreateAccount(a) == ~Exist(db, a) /\ Run("create", CreateAccount(db, a))
EvmCreateContract(a) ==
    /\ Exist(db, a) /\ getStateObject(db, a).account.nonce = 0
    /\ getStateObject(db, a).account.code = NoCode
    /\ Run("contract", CreateContract(db, a))
EvmSelfDestruct(a) == Run("destruct", SelfDestruct6780(db, a))
EvmCredit(a, n) ==
    /\ Exist(db, a) => getStateObject(db, a).account.bal + n <= MaxBalance
    /\ Run("balance", AddBalance(db, a, n))
EvmDebit(a, n) ==
    /\ Exist(db, a) /\ getStateObject(db, a).account.bal >= n
    /\ Run("balance", SubBalance(db, a, n))
EvmSetNonce(a) == Run("nonce", SetNonce(db, a, 2))
EvmSetCode(a, c) == Run("code", SetCode(db, a, c))
EvmSetState(a, k, v) == Run("storage", SetState(db, a, k, v))
EvmSetTransient(a, k, v) == Run("transient", SetTransientState(db, a, k, v))
EvmAddRefund == Run("refund", AddRefund(db, 1))
EvmSubRefund == db.refund > 0 /\ Run("refund", SubRefund(db, 1))
EvmLog == Run("log", AddLog(db))
EvmWarmAddress(a) == Run("access", AddAddressToAccessList(db, a))
EvmWarmSlot(a, k) == Run("access", AddSlotToAccessList(db, a, k))

\* The EVM reverts to the revision it took before a call that returns an error.
EvmCallPrecompile(from, to, n, stops) ==
    LET r == RunPrecompile(db, db.precompileCallsCounter + 1, from, to, n, stops)
    IN  /\ n > 0 <=> from # to
        /\ stops => "stop" \in kind.ops
        /\ db.precompileCallsCounter < MaxCalls
        /\ BankBalance(Current(db), to) + n <= MaxBalance
        /\ Run("precompile", IF r.ok THEN r.db ELSE RevertJournal(r.db, Len(db.journal)))

EvmSnapshot ==
    /\ phase = "running" /\ db.nextRevisionID < kind.revisions
    /\ db' = Snapshot(db)
    /\ copies' = Append(copies, View(db))
    /\ UNCHANGED <<kind, store, phase>>

EvmRevert(idx) ==
    /\ phase = "running"
    /\ db' = RevertToSnapshot(db, db.validRevisions[idx].id)
    /\ copies' = SubSeq(copies, 1, idx - 1)
    /\ UNCHANGED <<kind, store, phase>>

\* writeCache, then the dirty objects; an error fails the transaction.
Commit ==
    LET c == commitWithCtx(db, Current(db))
    IN  /\ phase = "running"
        /\ phase' = IF c.ok THEN "committed" ELSE "failed"
        /\ store' = IF c.ok THEN c.st ELSE store
        /\ UNCHANGED <<kind, db, copies>>

Next ==
    \/ \E a \in Addr \ Blocked :
          \/ EvmCreateAccount(a) \/ EvmCreateContract(a)
          \/ EvmSelfDestruct(a) \/ EvmSetNonce(a) \/ EvmWarmAddress(a)
          \/ \E c \in Code : EvmSetCode(a, c)
          \/ \E n \in 0 .. 1 : EvmDebit(a, n)
          \/ \E k \in Slot : EvmWarmSlot(a, k)
          \/ \E k \in Slot, v \in Value : EvmSetState(a, k, v) \/ EvmSetTransient(a, k, v)
    \/ \E a \in Addr, n \in 0 .. 1 : EvmCredit(a, n)
    \/ EvmAddRefund \/ EvmSubRefund \/ EvmLog
    \/ \E from, to \in Addr, n \in 0 .. 1, stops \in BOOLEAN : EvmCallPrecompile(from, to, n, stops)
    \/ EvmSnapshot
    \/ \E idx \in DOMAIN db.validRevisions : EvmRevert(idx)
    \/ Commit

Spec == Init /\ [][Next]_vars

-----------------------------------------------------------------------------
(***************************************************************************)
(* Properties.                                                             *)
(***************************************************************************)
\* Type invariant; every valid revision has its copy and a place in the journal.
TypeOK ==
    /\ store \in Store
    /\ \A a \in Addr : db.objs[a] # Missing =>
           /\ db.objs[a].account \in Account
           /\ \A k \in DOMAIN db.objs[a].dirty : k \in Slot /\ db.objs[a].dirty[k] \in Value
    /\ db.dirties \in [Addr -> Nat] /\ db.refund \in Nat /\ db.logs \in Nat
    /\ db.precompileCallsCounter \in 0 .. CounterSize - 1
    /\ db.transient \in [Addr -> [Slot -> Value]]
    /\ phase \in {"running", "committed", "failed"}
    /\ Len(copies) = Len(db.validRevisions)
    /\ \A i \in DOMAIN db.validRevisions : db.validRevisions[i].journalIndex <= Len(db.journal)

\* No sequence of calls and reverts reaches a panic: a journal entry undone
\* without its object, a slot deleted out of order, a multi-store snapshot out
\* of bounds, or (in commitWithCtx) a dirty address whose object is gone.
NeverPanics == ~db.panic /\ \A a \in DirtyAddrs(db) : db.objs[a] # Missing

\* dirties counts, for each address, the journal entries that dirty it, so
\* sortedDirties lists exactly the accounts changed and not reverted.
DirtyCounts ==
    \A a \in Addr :
        db.dirties[a] = Cardinality({i \in DOMAIN db.journal : Dirtied(db.journal[i]) = a})

\* The journal, the counts beside it and the objects it points into stay in step, in
\* whatever order entries are appended and undone (journal.append, journal.Revert).
JournalSound == TypeOK /\ NeverPanics /\ DirtyCounts

\* What commitWithCtx writes, before a precompile call or at the end, is the
\* state the EVM sees: no native transfer is lost or doubled, nothing reverted
\* is left, and a destructed account is gone with its storage.
CommitsTheView ==
    LET c == commitWithCtx(db, Current(db))
        gone(a) == Exist(db, a) /\ getStateObject(db, a).destructed
    IN  phase = "running" /\ c.ok => \A a \in Addr \ Blocked :
            IF gone(a) THEN c.st.acct[a] = Missing /\ c.st.storage[a] = NoStorage
            ELSE /\ c.st.acct[a] = IF Exist(db, a) THEN getStateObject(db, a).account ELSE Missing
                 /\ \A k \in Slot : c.st.storage[a][k] = GetState(db, a, k)

\* The final commit fails for two reasons only: a module account was credited
\* by the EVM, or an account without code in the store is to be destructed.
CommitRefusals ==
    phase = "failed" =>
        \/ \E m \in Blocked : db.dirties[m] > 0
        \/ \E a \in Addr : /\ db.dirties[a] > 0 /\ db.objs[a].destructed
                          /\ Current(db).acct[a] # Missing /\ Current(db).acct[a].code = NoCode

\* Commit writes what the EVM saw, or refuses for one of two stated reasons.
CommitSound == CommitsTheView /\ CommitRefusals

\* A precompile call that returns an error leaves nothing behind, whichever
\* step failed: only the counter of calls moves.
FailedCallUndone ==
    [][/\ db'.precompileCallsCounter # db.precompileCallsCounter
       /\ Len(db'.journal) = Len(db.journal)
       => View(db)' = View(db) /\ db'.dirties = db.dirties]_vars

\* RevertToSnapshot is going back to a copy taken by Snapshot.
Versions == INSTANCE VersionedState WITH
    state <- View(db), versions <- copies, done <- phase # "running"
RevertsToCopies == Versions!Spec
=============================================================================
