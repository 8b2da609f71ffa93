--------------------------- MODULE ModulesProofs ----------------------------
(* Theorems about the native modules: the VFS locks, the tables and rows of sqlite,
   the keys of crypto.subtle and the tables of require.  MCModules runs the same four
   modules side by side; none of them has state in common with another. *)
EXTENDS WebCrypto, Sqlite, VfsLocks, Require, TLAPS

(* Part 1, VfsLocks: mutual exclusion, for any files, names and naming.         *)

Holders == [Names -> Files \cup {NoFile}]

LocksTypeOK ==
    /\ opened \subseteq Files
    /\ lock \in [Files -> NONE..EXCLUSIVE]
    /\ shared \in [Names -> SUBSET Files]
    /\ reserved \in Holders /\ pending \in Holders /\ exclusive \in Holders

\* The level a file believes in is what its lockState says of it.
Readers == \A f \in Files : f \in shared[nameOf[f]] <=> lock[f] \in SHARED..PENDING
Reserver == \A f \in Files :
    /\ lock[f] \in RESERVED..PENDING => reserved[nameOf[f]] = f
    /\ reserved[nameOf[f]] = f => lock[f] >= RESERVED
Pender == \A f \in Files :
    /\ lock[f] = PENDING => pending[nameOf[f]] = f
    /\ pending[nameOf[f]] = f => lock[f] >= PENDING
Excluder == \A f \in Files : lock[f] = EXCLUSIVE <=> exclusive[nameOf[f]] = f

\* A lockState names files of its own name only.
OwnName == \A n \in Names :
    /\ \A f \in shared[n] : nameOf[f] = n
    /\ \A f \in {reserved[n], pending[n], exclusive[n]} : f # NoFile => nameOf[f] = n

\* Under an exclusive lock nobody reads, and nobody else has a claim.
Alone == \A f \in Files :
    lock[f] = EXCLUSIVE =>
        /\ shared[nameOf[f]] = {}
        /\ mine(reserved, f) /\ mine(pending, f)

LocksInv ==
    /\ LocksTypeOK /\ Readers /\ Reserver /\ Pender /\ Excluder /\ OwnName /\ Alone

\* No file holds a lock when the process starts.
LEMMA LocksInitially == LocksInit => LocksInv
  BY FilesAssumption
  DEF LocksInit, LocksInv, LocksTypeOK, Holders, Readers, Reserver, Pender, Excluder,
      OwnName, Alone, mine, NONE, SHARED, RESERVED, PENDING, EXCLUSIVE

\* Every call leaves the table and the files in agreement.
LEMMA LocksStep == LocksInv /\ [LocksNext]_lockVars => LocksInv'
<1> SUFFICES ASSUME LocksInv, [LocksNext]_lockVars PROVE LocksInv'
  OBVIOUS
<1> USE FilesAssumption DEF NONE, SHARED, RESERVED, PENDING, EXCLUSIVE
<1>t. LocksTypeOK'
  BY DEF LocksInv, LocksTypeOK, Holders, LocksNext, lockVars, vfsOpen, vfsClose, lockShared,
         lockReserved, lockPending, lockExclusive, vfsUnlock, unlock, Without
<1> DEFINE Rest == Readers /\ Reserver /\ Pender /\ Excluder /\ OwnName /\ Alone
<1> SUFFICES Rest'
  BY <1>t DEF LocksInv
<1> USE DEF LocksInv, LocksTypeOK, Holders, mine
<1>1. ASSUME NEW f \in Files, vfsOpen(f) PROVE Rest'
  BY <1>1 DEF vfsOpen, Readers, Reserver, Pender, Excluder, OwnName, Alone
<1>2. ASSUME NEW f \in Files, lockShared(f) PROVE Rest'
  BY <1>2 DEF lockShared, Readers, Reserver, Pender, Excluder, OwnName, Alone
<1>3. ASSUME NEW f \in Files, lockReserved(f) PROVE Rest'
  BY <1>3 DEF lockReserved, Readers, Reserver, Pender, Excluder, OwnName, Alone
<1>4. ASSUME NEW f \in Files, lockPending(f) PROVE Rest'
  BY <1>4 DEF lockPending, Readers, Reserver, Pender, Excluder, OwnName, Alone
<1>5. ASSUME NEW f \in Files, lockExclusive(f) PROVE Rest'
  BY <1>5 DEF lockExclusive, Readers, Reserver, Pender, Excluder, OwnName, Alone
<1>6. ASSUME NEW f \in Files, NEW level \in {NONE, SHARED}, unlock(f, level) PROVE Rest'
  BY <1>6 DEF unlock, Without, Readers, Reserver, Pender, Excluder, OwnName, Alone
<1>7. ASSUME UNCHANGED <<lock, shared, reserved, pending, exclusive>> PROVE Rest'
  BY <1>7 DEF Readers, Reserver, Pender, Excluder, OwnName, Alone
<1>8. ASSUME NEW f \in Files, vfsClose(f) PROVE Rest'
  BY <1>6, <1>7, <1>8 DEF vfsClose
<1> QED
  BY <1>1, <1>2, <1>3, <1>4, <1>5, <1>6, <1>7, <1>8 DEF LocksNext, lockVars, vfsUnlock

\* The invariant is strong enough for what callers rely on.
LEMMA LocksImply == LocksInv => LocksExclude
  BY FilesAssumption
  DEF LocksInv, LocksTypeOK, Holders, Readers, Reserver, Pender, Excluder, OwnName, Alone, mine,
      LocksExclude, CheckReservedLock, NONE, SHARED, RESERVED, PENDING, EXCLUSIVE

\* The lock manager of vfs.go keeps an exclusive holder alone and one writer
\* at a time per name, and CheckReservedLock truthful to readers, whatever
\* connections lock, unlock and close in whatever order.
THEOREM LocksAreExclusive == LocksSpec => []LocksExclude
<1>1. LocksSpec => []LocksInv
  BY LocksInitially, LocksStep, PTL DEF LocksSpec
<1> QED
  BY <1>1, LocksImply, PTL

-----------------------------------------------------------------------------
(* Part 2, Sqlite: the tables of handles and the rows of the iterators.         *)

\* An entry of the statement table, and one of a tag store.
StatementRec ==
    [db : Nat, sql : SQLs, at : Nat, bound : Iterators \cup {"nobody", "call"},
     bare : BOOLEAN, unknown : BOOLEAN]
StoreEntry == [sql : SQLs, obj : Nat]

\* Every handle was given out by nextID, and no two objects share one.
HandlesInv ==
    /\ nextID \in Nat
    /\ dbHandle \in [Databases -> 0..nextID]
    /\ \A d, e \in Databases : dbHandle[d] = dbHandle[e] /\ dbHandle[d] # 0 => d = e
    /\ \A o \in DOMAIN made : o \in 1..nextID /\ made[o] \in 1..nextID
    /\ disposed \subseteq DOMAIN made /\ tagged \subseteq DOMAIN made

\* A statement in the table belongs to the database its object was made for.
StatementsInv ==
    /\ DOMAIN stmts \subseteq DOMAIN made
    /\ \A o \in DOMAIN stmts : stmts[o] \in StatementRec /\ stmts[o].db = made[o]

\* An object is in one place of one store, and no script holds it.
StoresInv ==
    /\ store \in [Databases -> Seq(StoreEntry)]
    /\ \A d \in Databases : \A k \in DOMAIN store[d] : store[d][k].obj \in tagged
    /\ \A d, e \in Databases : \A k \in DOMAIN store[d], l \in DOMAIN store[e] :
          store[d][k].obj = store[e][l].obj => d = e /\ k = l

TablesInv == HandlesInv /\ StatementsInv /\ StoresInv /\ TablesAgree

\* A live iterator of a statement.
Generator == [state : {"new", "suspended"}, obj : Nat, args : Args, seen : Seq(Nat), clean : BOOLEAN]

\* A live generator has a statement that was made; a new one has seen nothing.
GeneratorsInv ==
    /\ DOMAIN iter = Iterators
    /\ \A i \in Iterators :
          /\ iter[i].state \in {"none", "new", "suspended", "done"}
          /\ iter[i].state \in {"new", "suspended"} => iter[i] \in Generator /\ iter[i].obj \in DOMAIN made
          /\ iter[i].state = "new" => iter[i].clean /\ iter[i].seen = <<>>

\* A suspended generator that nothing disturbed is alone on its statement, which stands
\* at the row the generator saw last.
CleanInv ==
    \A i \in Iterators : iter[i].state = "suspended" /\ iter[i].clean =>
        /\ \A j \in Iterators : iter[j].state = "suspended" /\ iter[j].obj = iter[i].obj => j = i
        /\ Live(stmts, iter[i].obj) => stmts[iter[i].obj].at = Len(iter[i].seen)

RowsInv == GeneratorsInv /\ CleanInv /\ RowsFromTheStart

-----------------------------------------------------------------------------
\* Steps that use statements without making or closing one.
StatementsKept ==
    /\ UNCHANGED <<nextID, dbHandle, dbs, made, disposed, tagVars>>
    /\ DOMAIN stmts' = DOMAIN stmts
    /\ \A o \in DOMAIN stmts : stmts'[o] \in StatementRec /\ stmts'[o].db = stmts[o].db

\* Steps that neither make nor close a statement keep the tables.
LEMMA KeptTables == TablesInv /\ StatementsKept => TablesInv'
  BY DEF TablesInv, StatementsKept, HandlesInv, StatementsInv, StoresInv, TablesAgree, tagVars

\* What query leaves of a statement is a statement of the same database.
LEMMA QueryForms ==
  ASSUME NEW s \in StatementRec, NEW args, NEW r \in query(s, args)
  PROVE  r \in StatementRec /\ r.db = s.db
<1>1. r \in {[s EXCEPT !.bound = "nobody"], resetStatement(s), [s EXCEPT !.at = 0, !.bound = "call"]}
  BY DEF query
<1>2. CASE r = [s EXCEPT !.bound = "nobody"]
  BY <1>2 DEF StatementRec
<1>3. CASE r = resetStatement(s)
  BY <1>3 DEF StatementRec, resetStatement
<1>4. CASE r = [s EXCEPT !.at = 0, !.bound = "call"]
  BY <1>4 DEF StatementRec
<1> QED
  BY <1>1, <1>2, <1>3, <1>4

\* db.open keeps the tables.
LEMMA OpenTables == ASSUME TablesInv, NEW d \in Databases, dbOpen(d) PROVE TablesInv'
<1> USE DEF TablesInv
<1>1. HandlesInv'
  BY DEF dbOpen, HandlesInv, tagVars
<1>2. StatementsInv' /\ StoresInv'
  BY DEF dbOpen, StatementsInv, StoresInv, tagVars
<1>3. dbs' = {dbHandle'[e] : e \in Databases} \ {0}
  BY DEF dbOpen, HandlesInv, TablesAgree
<1>4. \A o \in DOMAIN made : made[o] \in dbs' <=> made[o] \in dbs
  BY DEF dbOpen, HandlesInv
<1>5. TablesAgree'
  BY <1>3, <1>4 DEF dbOpen, tagVars, TablesAgree
<1> QED BY <1>1, <1>2, <1>5

\* db.close keeps the tables, also where the driver's Close fails.
LEMMA CloseTables ==
  ASSUME TablesInv, NEW d \in Databases, NEW failed \in BOOLEAN, dbClose(d, failed) PROVE TablesInv'
<1> USE DEF TablesInv
<1>1. HandlesInv'
  BY DEF dbClose, HandlesInv, tagVars
<1>2. /\ DOMAIN stmts' = {o \in DOMAIN stmts : made[o] # dbHandle[d]}
      /\ \A o \in DOMAIN stmts' : stmts'[o] = stmts[o]
  BY DEF dbClose, Minus, statementsOf, StatementsInv
<1>3. StatementsInv' /\ StoresInv'
  BY <1>2 DEF dbClose, StatementsInv, StoresInv
<1>4. dbs' = {dbHandle'[e] : e \in Databases} \ {0}
  BY DEF dbClose, HandlesInv, TablesAgree
<1>5. TablesAgree'
  <2>1. ASSUME NEW o \in DOMAIN made'
        PROVE  /\ o \in DOMAIN stmts' => made'[o] \in dbs' /\ o \notin disposed'
               /\ made'[o] \in dbs' \ halfClosed' /\ o \notin disposed' => o \in DOMAIN stmts'
    BY <1>2, <2>1 DEF dbClose, TablesAgree, HandlesInv
  <2> QED BY <2>1, <1>4 DEF dbClose, TablesAgree
<1> QED BY <1>1, <1>3, <1>5

\* A new statement belongs to the database it was prepared for.
LEMMA NewStatement ==
  ASSUME TablesInv, NEW d \in Databases, NEW sql \in SQLs
  PROVE  newStatement(d, sql) \in StatementRec /\ newStatement(d, sql).db = dbHandle[d]
  BY DEF newStatement, StatementRec, TablesInv, HandlesInv

\* db.prepare keeps the tables.
LEMMA PrepareTables ==
  ASSUME TablesInv, NEW d \in Databases, NEW sql \in SQLs, dbPrepare(d, sql) PROVE TablesInv'
<1> USE DEF TablesInv
<1>0. nextID \in Nat /\ nextID' = nextID + 1 /\ nextID' \notin DOMAIN made /\ dbHandle[d] \in 1..nextID
  BY DEF dbPrepare, HandlesInv, TablesAgree
<1>1. /\ DOMAIN made' = DOMAIN made \cup {nextID'} /\ made'[nextID'] = dbHandle[d]
      /\ \A o \in DOMAIN made : made'[o] = made[o]
  BY <1>0 DEF dbPrepare, With
<1>2. /\ DOMAIN stmts' = DOMAIN stmts \cup {nextID'} /\ stmts'[nextID'] = newStatement(d, sql)
      /\ \A o \in DOMAIN stmts : stmts'[o] = stmts[o]
  BY <1>0 DEF dbPrepare, With, StatementsInv
<1>3. HandlesInv'
  BY <1>0, <1>1 DEF dbPrepare, HandlesInv, tagVars
<1>4. StatementsInv' /\ StoresInv'
  BY <1>0, <1>1, <1>2, NewStatement DEF dbPrepare, StatementsInv, StoresInv, tagVars
<1>5. TablesAgree'
  BY <1>0, <1>1, <1>2 DEF dbPrepare, TablesAgree, tagVars, HandlesInv
<1> QED BY <1>3, <1>4, <1>5

\* stmt.dispose keeps the tables.
LEMMA DisposeTables ==
  ASSUME TablesInv, NEW o \in Held, stmtDispose(o) PROVE TablesInv'
<1> USE DEF TablesInv
<1>1. /\ DOMAIN stmts' = DOMAIN stmts \ {o}
      /\ \A p \in DOMAIN stmts' : stmts'[p] = stmts[p]
  BY DEF stmtDispose, Minus
<1>2. HandlesInv'
  BY DEF stmtDispose, HandlesInv, tagVars, Held
<1>4. StatementsInv'
  BY <1>1 DEF stmtDispose, StatementsInv
<1>5. StoresInv'
  BY DEF stmtDispose, StoresInv, tagVars
<1>3. TablesAgree'
  BY <1>1 DEF stmtDispose, TablesAgree, tagVars, Held, StoresInv
<1> QED BY <1>2, <1>3, <1>4, <1>5

-----------------------------------------------------------------------------
\* The second part of a concatenation.
LEMMA SecondPart ==
  ASSUME NEW S, NEW a \in Seq(S), NEW b \in Seq(S), NEW j \in 1..(Len(a) + Len(b)), j > Len(a)
  PROVE  (a \o b)[j] = b[j - Len(a)]
OBVIOUS

\* A hit moves its entry to the end of the store.
LEMMA MoveToEnd ==
  ASSUME NEW S, NEW s \in Seq(S), NEW k \in DOMAIN s
  PROVE  LET m == Append(RemoveAt(s, k), s[k])
         IN  /\ m \in Seq(S) /\ Len(m) = Len(s)
             /\ \A j \in 1..Len(s) :
                   m[j] = IF j < k THEN s[j] ELSE IF j = Len(s) THEN s[k] ELSE s[j + 1]
<1> DEFINE a == SubSeq(s, 1, k - 1)
           b == SubSeq(s, k + 1, Len(s))
<1>0. Len(s) \in Nat /\ k \in 1..Len(s) /\ \A j \in 1..Len(s) : s[j] \in S
  OBVIOUS
<1>1. a \in Seq(S) /\ Len(a) = k - 1 /\ \A j \in 1..(k - 1) : a[j] = s[j]
  BY <1>0
<1>2. b \in Seq(S) /\ Len(b) = Len(s) - k /\ \A j \in 1..(Len(s) - k) : b[j] = s[k + j]
  BY <1>0
<1> HIDE DEF a, b
<1> DEFINE r == a \o b
<1>5. r \in Seq(S) /\ Len(r) = Len(s) - 1
  BY <1>0, <1>1, <1>2
<1>6. ASSUME NEW j \in 1..(Len(s) - 1) PROVE r[j] = IF j < k THEN s[j] ELSE s[j + 1]
  <2>1. CASE j < k
    BY <2>1, <1>0, <1>1, <1>2
  <2>2. CASE j >= k
    <3>1. j - (k - 1) \in 1..(Len(s) - k) /\ k + (j - (k - 1)) = j + 1
      BY <2>2, <1>0
    <3>2. Len(a) = k - 1 /\ j > Len(a) /\ j \in 1..(Len(a) + Len(b))
      BY <2>2, <1>0, <1>1, <1>2
    <3>3. r[j] = b[j - Len(a)]
      <4>1. a \in Seq(S) /\ b \in Seq(S)
        BY <1>1, <1>2
      <4> QED BY <3>2, <4>1, SecondPart
    <3>4. b[j - (k - 1)] = s[k + (j - (k - 1))]
      BY <3>1, <1>2
    <3>5. r[j] = s[j + 1]
      BY <3>1, <3>2, <3>3, <3>4
    <3> QED BY <3>5, <2>2, <1>0
  <2>3. j < k \/ j >= k
    BY <1>0
  <2> QED BY <2>1, <2>2, <2>3
<1>3. r \in Seq(S) /\ Len(r) = Len(s) - 1
      /\ \A j \in 1..(Len(s) - 1) : r[j] = IF j < k THEN s[j] ELSE s[j + 1]
  BY <1>5, <1>6
<1>4. RemoveAt(s, k) = r
  BY DEF RemoveAt, a, b
<1> HIDE DEF r
<1> QED
  BY <1>0, <1>3, <1>4

\* The tables after a lookup, whatever the call then does to the statement.
LookedUp(d, sql, o) ==
    /\ tagLookup(d, sql, o) /\ UNCHANGED <<dbHandle, dbs, halfClosed>>
    /\ DOMAIN stmts' = DOMAIN after(d, sql, o)
    /\ \A p \in DOMAIN stmts' : stmts'[p] \in StatementRec /\ stmts'[p].db = after(d, sql, o)[p].db

\* A tag store has a place for the SQL where it has an object for it.
LEMMA CachedFound ==
  ASSUME NEW d \in Databases, NEW sql
  PROVE  cached(d, sql) = {} <=> found(d, sql) = {}
  BY DEF cached, found

\* A tag-store hit, which moves the object to the end, keeps the tables.
LEMMA HitTables ==
  ASSUME TablesInv, NEW d \in Databases, NEW sql \in SQLs, NEW o \in found(d, sql),
         LookedUp(d, sql, o), hit(d, sql)
  PROVE  TablesInv'
<1> USE DEF TablesInv
<1>1. PICK k \in cached(d, sql) : store' = [store EXCEPT ![d] = Append(RemoveAt(@, k), @[k])]
  BY DEF hit
<1> DEFINE s == store[d]  m == Append(RemoveAt(s, k), s[k])
<1>2. s \in Seq(StoreEntry) /\ k \in DOMAIN s /\ Len(s) \in Nat
  BY DEF StoresInv, cached
<1>3. m \in Seq(StoreEntry) /\ Len(m) = Len(s)
      /\ \A j \in 1..Len(s) : m[j] = IF j < k THEN s[j] ELSE IF j = Len(s) THEN s[k] ELSE s[j + 1]
  BY <1>2, MoveToEnd
<1>4. store' = [store EXCEPT ![d] = m] /\ store'[d] = m /\ \A e \in Databases : e # d => store'[e] = store[e]
  BY <1>1 DEF StoresInv
<1>5. UNCHANGED <<nextID, made, disposed, tagged, dbHandle, dbs, halfClosed>>
  BY DEF hit, LookedUp
<1> DEFINE old(j) == IF j < k THEN j ELSE IF j = Len(s) THEN k ELSE j + 1
<1>6. /\ DOMAIN m = 1..Len(s) /\ DOMAIN s = 1..Len(s)
      /\ \A j \in 1..Len(s) : m[j] = s[old(j)] /\ old(j) \in 1..Len(s)
      /\ \A j, l \in 1..Len(s) : old(j) = old(l) => j = l
  BY <1>2, <1>3
<1> HIDE DEF s, m, old
<1>7. HandlesInv'
  BY <1>5 DEF HandlesInv
<1>8. StatementsInv'
  <2>1. found(d, sql) # {} /\ after(d, sql, o) = stmts
    BY DEF after
  <2> QED BY <2>1, <1>5 DEF StatementsInv, LookedUp
<1>9. StoresInv'
  <2>1. store' \in [Databases -> Seq(StoreEntry)]
    BY <1>3, <1>4 DEF StoresInv
  <2>2. \A e \in Databases : \A l \in DOMAIN store'[e] :
          \E j \in DOMAIN store[e] : store'[e][l] = store[e][j] /\ (e = d => j = old(l)) /\ (e # d => j = l)
    BY <1>4, <1>6 DEF s
  <2>3. ASSUME NEW e \in Databases, NEW l \in DOMAIN store'[e] PROVE store'[e][l].obj \in tagged'
    BY <2>2, <1>5 DEF StoresInv
  <2>4. ASSUME NEW e \in Databases, NEW g \in Databases,
               NEW l \in DOMAIN store'[e], NEW n \in DOMAIN store'[g], store'[e][l].obj = store'[g][n].obj
        PROVE  e = g /\ l = n
    <3>1. PICK j \in DOMAIN store[e] : store'[e][l] = store[e][j] /\ (e = d => j = old(l)) /\ (e # d => j = l)
      BY <2>2
    <3>2. PICK i \in DOMAIN store[g] : store'[g][n] = store[g][i] /\ (g = d => i = old(n)) /\ (g # d => i = n)
      BY <2>2
    <3>3. e = g /\ i = j
      BY <3>1, <3>2, <2>4 DEF StoresInv
    <3>4. e = d => l \in 1..Len(s) /\ n \in 1..Len(s)
      BY <1>4, <1>6, <3>3
    <3>5. e = g /\ l = n
      BY <3>1, <3>2, <3>3, <3>4, <1>6
    <3> QED BY <3>5
  <2> QED BY <2>1, <2>3, <2>4 DEF StoresInv
<1>10. TablesAgree'
  <2>1. DOMAIN stmts' = DOMAIN stmts
    BY DEF LookedUp, after
  <2>2. \A e \in Databases :
          /\ Len(store'[e]) = Len(store[e])
          /\ \A l \in DOMAIN store'[e] :
               \E j \in DOMAIN store[e] : store'[e][l] = store[e][j] /\ (e = d => j = old(l)) /\ (e # d => j = l)
    <3> SUFFICES ASSUME NEW e \in Databases
                 PROVE  /\ Len(store'[e]) = Len(store[e])
                        /\ \A l \in DOMAIN store'[e] :
                             \E j \in DOMAIN store[e] :
                               store'[e][l] = store[e][j] /\ (e = d => j = old(l)) /\ (e # d => j = l)
      OBVIOUS
    <3>1. CASE e = d
      <4>1. store'[e] = m /\ store[e] = s /\ Len(m) = Len(s)
        BY <3>1, <1>3, <1>4 DEF s
      <4>2. \A l \in DOMAIN m : old(l) \in DOMAIN s /\ m[l] = s[old(l)]
        BY <1>6
      <4> QED BY <3>1, <4>1, <4>2
    <3>2. CASE e # d
      <4>1. store'[e] = store[e]
        BY <3>2, <1>4
      <4> QED BY <3>2, <4>1
    <3> QED BY <3>1, <3>2
  <2>3. \A e \in Databases : \A l, n \in DOMAIN store'[e] : store'[e][l].sql = store'[e][n].sql => l = n
    <3> SUFFICES ASSUME NEW e \in Databases, NEW l \in DOMAIN store'[e], NEW n \in DOMAIN store'[e],
                        store'[e][l].sql = store'[e][n].sql
                 PROVE  l = n
      OBVIOUS
    <3>1. PICK j \in DOMAIN store[e] : store'[e][l] = store[e][j] /\ (e = d => j = old(l)) /\ (e # d => j = l)
      BY <2>2
    <3>2. PICK i \in DOMAIN store[e] : store'[e][n] = store[e][i] /\ (e = d => i = old(n)) /\ (e # d => i = n)
      BY <2>2
    <3>3. i = j
      BY <3>1, <3>2 DEF TablesAgree
    <3>4. e = d => l \in 1..Len(s) /\ n \in 1..Len(s)
      BY <1>4, <1>6
    <3> QED BY <3>1, <3>2, <3>3, <3>4, <1>6
  <2>4. \A e \in Databases : Len(store'[e]) <= Capacity
    BY <2>2 DEF TablesAgree
  <2>5. \A e \in Databases : \A l \in DOMAIN store'[e] : store'[e][l].obj \notin disposed'
    BY <2>2, <1>5 DEF TablesAgree
  <2> QED BY <2>1, <2>3, <2>4, <2>5, <1>5 DEF TablesAgree
<1> QED BY <1>7, <1>8, <1>9, <1>10

\* A tag-store miss, which may evict and close the oldest, keeps the tables.
LEMMA MissTables ==
  ASSUME TablesInv, NEW d \in Databases, NEW sql \in SQLs, NEW o, LookedUp(d, sql, o), miss(d, sql, o)
  PROVE  TablesInv'
<1> USE SqliteAssumption DEF TablesInv
<1> DEFINE s == store[d]
           entry == [sql |-> sql, obj |-> o]
           grown == Append(s, entry)
           full == Len(grown) > Capacity
           evicted == IF Len(s) >= Capacity THEN {s[1].obj} ELSE {}
<1>0. s \in Seq(StoreEntry) /\ Len(s) \in Nat /\ DOMAIN s = 1..Len(s)
      /\ (\A k \in 1..Len(s) : s[k] \in StoreEntry) /\ Len(s) <= Capacity
  BY DEF StoresInv, TablesAgree
<1>1. /\ cached(d, sql) = {} /\ dbHandle[d] \in dbs /\ o = nextID + 1 /\ nextID' = o
      /\ made' = With(made, o, dbHandle[d])
      /\ store' = [store EXCEPT ![d] = IF full THEN Tail(grown) ELSE grown]
      /\ disposed' = (IF full THEN disposed \cup {grown[1].obj} ELSE disposed)
      /\ tagged' = tagged \cup {o}
  BY DEF miss
<1>2. nextID \in Nat /\ o \in Nat /\ o \notin DOMAIN made /\ dbHandle[d] \in 1..nextID
  BY <1>1 DEF HandlesInv, TablesAgree
<1>3. entry \in StoreEntry /\ entry.sql = sql /\ entry.obj = o
  BY <1>2 DEF StoreEntry
<1> HIDE DEF entry
<1>4. grown \in Seq(StoreEntry) /\ Len(grown) = Len(s) + 1 /\ grown[Len(s) + 1] = entry
      /\ \A k \in 1..Len(s) : grown[k] = s[k]
  BY <1>0, <1>3
<1>5. full <=> Len(s) >= Capacity
  BY <1>0, <1>4
<1>6. full => 1 \in 1..Len(s) /\ grown[1] = s[1]
  BY <1>0, <1>4, <1>5
<1>7. disposed' = disposed \cup evicted
  BY <1>1, <1>5, <1>6
<1>8. evicted \subseteq tagged /\ evicted \subseteq DOMAIN made /\ o \notin evicted
  BY <1>0, <1>2, <1>5, <1>6 DEF StoresInv, HandlesInv
<1> DEFINE t == IF full THEN Tail(grown) ELSE grown
           from(k) == IF full THEN k + 1 ELSE k
<1>9. /\ t \in Seq(StoreEntry) /\ Len(t) <= Capacity /\ Len(t) \in Nat /\ DOMAIN t = 1..Len(t)
      /\ \A k \in 1..Len(t) : t[k] = grown[from(k)] /\ from(k) \in 1..(Len(s) + 1)
      /\ \A k, l \in 1..Len(t) : from(k) = from(l) => k = l
  <2>1. CASE full
    <3> HIDE DEF grown
    <3>1. Tail(grown) \in Seq(StoreEntry) /\ Len(Tail(grown)) = Len(s)
          /\ \A k \in 1..Len(s) : Tail(grown)[k] = grown[k + 1]
      <4>1. grown # <<>> /\ Len(grown) > 0
        BY <1>0, <1>4
      <4>2. Tail(grown) \in Seq(StoreEntry) /\ Len(Tail(grown)) = Len(grown) - 1
        BY <4>1, <1>4
      <4> QED BY <4>1, <4>2, <1>0, <1>4
    <3> QED BY <3>1, <2>1, <1>0
  <2>2. CASE ~full
    BY <2>2, <1>0, <1>4, <1>5
  <2> QED BY <2>1, <2>2
<1>10. store' = [store EXCEPT ![d] = t] /\ store'[d] = t /\ \A e \in Databases : e # d => store'[e] = store[e]
  BY <1>1 DEF StoresInv
<1>11. /\ DOMAIN made' = DOMAIN made \cup {o} /\ made'[o] = dbHandle[d]
       /\ \A p \in DOMAIN made : made'[p] = made[p]
  BY <1>1, <1>2 DEF With
<1>12. DOMAIN stmts' = (DOMAIN stmts \ evicted) \cup {o}
       /\ \A p \in DOMAIN stmts' :
             stmts'[p] \in StatementRec /\ stmts'[p].db = (IF p = o THEN dbHandle[d] ELSE stmts[p].db)
  <2>1. after(d, sql, o) = With(Minus(stmts, evicted), o, newStatement(d, sql))
    BY <1>1, CachedFound DEF after
  <2>2. DOMAIN after(d, sql, o) = (DOMAIN stmts \ evicted) \cup {o}
    BY <2>1 DEF With, Minus
  <2>3. \A p \in DOMAIN after(d, sql, o) :
           after(d, sql, o)[p] = IF p = o THEN newStatement(d, sql) ELSE stmts[p]
    BY <2>1 DEF With, Minus
  <2> QED BY <2>2, <2>3, NewStatement DEF LookedUp
<1>13. UNCHANGED <<dbHandle, dbs, halfClosed>>
  BY DEF LookedUp
<1> HIDE DEF s, grown, full, evicted, t, from
\* Where an entry of the new store comes from.
<1>14. \A k \in DOMAIN t :
         \/ from(k) \in DOMAIN s /\ t[k] = s[from(k)] /\ t[k].obj \notin evicted
         \/ from(k) = Len(s) + 1 /\ t[k] = entry
  <2> SUFFICES ASSUME NEW k \in DOMAIN t
               PROVE  \/ from(k) \in DOMAIN s /\ t[k] = s[from(k)] /\ t[k].obj \notin evicted
                      \/ from(k) = Len(s) + 1 /\ t[k] = entry
    OBVIOUS
  <2>1. k \in 1..Len(t) /\ t[k] = grown[from(k)] /\ from(k) \in 1..(Len(s) + 1)
    BY <1>9
  <2>2. CASE from(k) = Len(s) + 1
    BY <2>1, <2>2, <1>4
  <2>3. CASE from(k) \in 1..Len(s)
    <3>1. t[k] = s[from(k)] /\ from(k) \in DOMAIN s
      BY <2>1, <2>3, <1>0, <1>4
    <3>2. t[k].obj \notin evicted
      <4>1. CASE full
        <5>1. from(k) # 1
          BY <4>1, <2>1, <1>9 DEF from
        <5>2. 1 \in DOMAIN s /\ evicted = {s[1].obj}
          BY <4>1, <1>0, <1>5, <1>6 DEF evicted
        <5> QED BY <5>1, <5>2, <3>1 DEF StoresInv, s
      <4>2. CASE ~full
        BY <4>2, <1>5 DEF evicted
      <4> QED BY <4>1, <4>2
    <3> QED BY <3>1, <3>2
  <2>4. from(k) = Len(s) + 1 \/ from(k) \in 1..Len(s)
    BY <2>1, <1>0
  <2> QED BY <2>2, <2>3, <2>4
<1>15. HandlesInv'
  BY <1>1, <1>2, <1>7, <1>8, <1>11, <1>13 DEF HandlesInv
<1>16. StatementsInv'
  BY <1>2, <1>11, <1>12 DEF StatementsInv
<1>17. \A e \in Databases : \A k \in DOMAIN store[e] : store[e][k].obj # o
  BY <1>2 DEF StoresInv, HandlesInv
<1>18. StoresInv'
  <2>1. store' \in [Databases -> Seq(StoreEntry)]
    BY <1>9, <1>10 DEF StoresInv
  <2>2. ASSUME NEW e \in Databases, NEW k \in DOMAIN store'[e] PROVE store'[e][k].obj \in tagged'
    <3>1. CASE e = d
      <4>1. store'[e] = t /\ k \in DOMAIN t
        BY <3>1, <1>10
      <4>2. t[k] = entry \/ \E n \in DOMAIN store[d] : t[k] = store[d][n]
        BY <4>1, <1>14 DEF s
      <4>3. t[k].obj \in tagged \cup {o}
        BY <4>2, <1>3 DEF StoresInv
      <4> QED BY <4>1, <4>3, <1>1
    <3>2. CASE e # d
      BY <3>2, <1>1, <1>10 DEF StoresInv
    <3> QED BY <3>1, <3>2
  <2>3. ASSUME NEW k \in DOMAIN t, NEW l \in DOMAIN t, t[k].obj = t[l].obj PROVE k = l
    <3>1. k \in 1..Len(t) /\ l \in 1..Len(t)
      BY <1>9
    <3>2. CASE from(k) \in DOMAIN s /\ t[k] = s[from(k)] /\ from(l) \in DOMAIN s /\ t[l] = s[from(l)]
      BY <3>1, <3>2, <2>3, <1>9 DEF StoresInv, s
    <3>3. CASE from(k) = Len(s) + 1 /\ from(l) = Len(s) + 1
      BY <3>1, <3>3, <1>9
    <3>4. CASE from(k) \in DOMAIN s /\ t[k] = s[from(k)] /\ t[l] = entry
      BY <3>4, <2>3, <1>3, <1>17 DEF s
    <3>5. CASE from(l) \in DOMAIN s /\ t[l] = s[from(l)] /\ t[k] = entry
      BY <3>5, <2>3, <1>3, <1>17 DEF s
    <3> QED BY <3>2, <3>3, <3>4, <3>5, <1>14
  <2>4. ASSUME NEW e \in Databases, e # d, NEW k \in DOMAIN t, NEW l \in DOMAIN store[e] PROVE t[k].obj # store[e][l].obj
    BY <2>4, <1>3, <1>14, <1>17 DEF StoresInv, s
  <2>5. ASSUME NEW e \in Databases, NEW g \in Databases, NEW k \in DOMAIN store'[e], NEW l \in DOMAIN store'[g],
               store'[e][k].obj = store'[g][l].obj
        PROVE  e = g /\ k = l
    <3>1. CASE e = d /\ g = d
      BY <3>1, <2>5, <2>3, <1>10
    <3>2. CASE e = d /\ g # d
      BY <3>2, <2>5, <2>4, <1>10
    <3>3. CASE e # d /\ g = d
      BY <3>3, <2>5, <2>4, <1>10
    <3>4. CASE e # d /\ g # d
      BY <3>4, <2>5, <1>10 DEF StoresInv
    <3> QED BY <3>1, <3>2, <3>3, <3>4
  <2> QED BY <2>1, <2>2, <2>5 DEF StoresInv
<1>19. TablesAgree'
  <2>1. dbs' = {dbHandle'[e] : e \in Databases} \ {0}
    BY <1>13 DEF TablesAgree
  <2>2. ASSUME NEW p \in DOMAIN made'
        PROVE  /\ p \in DOMAIN stmts' => made'[p] \in dbs' /\ p \notin disposed'
               /\ made'[p] \in dbs' \ halfClosed' /\ p \notin disposed' => p \in DOMAIN stmts'
    <3>1. CASE p = o
      BY <3>1, <1>1, <1>2, <1>7, <1>8, <1>11, <1>12, <1>13 DEF HandlesInv
    <3>2. CASE p # o
      BY <3>2, <1>7, <1>11, <1>12, <1>13 DEF TablesAgree
    <3> QED BY <3>1, <3>2
  <2>3. ASSUME NEW k \in DOMAIN t PROVE t[k].obj \notin disposed'
    <3>1. CASE from(k) \in DOMAIN s /\ t[k] = s[from(k)] /\ t[k].obj \notin evicted
      BY <3>1, <1>7 DEF TablesAgree, s
    <3>2. CASE t[k] = entry
      BY <3>2, <1>2, <1>3, <1>7, <1>8 DEF HandlesInv
    <3> QED BY <3>1, <3>2, <1>14
  <2>4. ASSUME NEW e \in Databases, e # d, NEW k \in DOMAIN store[e] PROVE store[e][k].obj \notin disposed'
    <3>1. CASE full
      <4>1. 1 \in DOMAIN s /\ evicted = {s[1].obj}
        BY <3>1, <1>0, <1>5, <1>6 DEF evicted
      <4> QED BY <4>1, <2>4, <1>7 DEF StoresInv, TablesAgree, s
    <3>2. CASE ~full
      BY <3>2, <1>5, <1>7 DEF evicted, TablesAgree
    <3> QED BY <3>1, <3>2
  <2>5. ASSUME NEW k \in DOMAIN t, NEW l \in DOMAIN t, t[k].sql = t[l].sql PROVE k = l
    <3>1. k \in 1..Len(t) /\ l \in 1..Len(t)
      BY <1>9
    <3>2. \A n \in DOMAIN s : s[n].sql # sql
      BY <1>1 DEF cached, s
    <3>3. CASE from(k) \in DOMAIN s /\ t[k] = s[from(k)] /\ from(l) \in DOMAIN s /\ t[l] = s[from(l)]
      BY <3>1, <3>3, <2>5, <1>9 DEF TablesAgree, s
    <3>4. CASE from(k) = Len(s) + 1 /\ from(l) = Len(s) + 1
      BY <3>1, <3>4, <1>9
    <3>5. CASE from(k) \in DOMAIN s /\ t[k] = s[from(k)] /\ t[l] = entry
      BY <3>5, <2>5, <1>3, <3>2
    <3>6. CASE from(l) \in DOMAIN s /\ t[l] = s[from(l)] /\ t[k] = entry
      BY <3>6, <2>5, <1>3, <3>2
    <3> QED BY <3>3, <3>4, <3>5, <3>6, <1>14
  <2>6. ASSUME NEW e \in Databases
        PROVE  /\ Len(store'[e]) <= Capacity
               /\ \A k, l \in DOMAIN store'[e] : store'[e][k].sql = store'[e][l].sql => k = l
               /\ \A k \in DOMAIN store'[e] : store'[e][k].obj \notin disposed'
    <3>1. CASE e = d
      BY <3>1, <1>9, <1>10, <2>3, <2>5
    <3>2. CASE e # d
      BY <3>2, <1>10, <2>4 DEF TablesAgree
    <3> QED BY <3>1, <3>2
  <2> QED BY <2>1, <2>2, <2>6 DEF TablesAgree
<1> QED BY <1>15, <1>16, <1>18, <1>19

-----------------------------------------------------------------------------
\* What a generator does to its statement, if there still is one.
LEMMA IteratorStatement ==
  ASSUME TablesInv, GeneratorsInv, NEW i \in Iterators, iteratorNext(i) \/ iteratorReturn(i)
  PROVE  \/ stmts' = stmts
         \/ /\ iter[i].obj \in DOMAIN stmts
            /\ \E r \in StatementRec :
                  r.db = stmts[iter[i].obj].db /\ stmts' = [stmts EXCEPT ![iter[i].obj] = r]
<1> DEFINE o == iter[i].obj
           s == IF iter[i].state = "new" THEN [stmts[o] EXCEPT !.bound = i] ELSE stmts[o]
           ready == Live(stmts, o) /\ (iter[i].state = "new" => bindParameters(stmts[o], iter[i].args))
           Changed == \E r \in StatementRec : r.db = stmts[o].db /\ stmts' = [stmts EXCEPT ![o] = r]
<1>1. CASE ~Live(stmts, o)
  BY <1>1 DEF iteratorNext, iteratorReturn, endIterator
<1>2. CASE Live(stmts, o)
  <2>1. o \in DOMAIN stmts /\ stmts[o] \in StatementRec
    BY <1>2 DEF Live, TablesInv, StatementsInv
  <2>2. s \in StatementRec /\ s.db = stmts[o].db
    BY <2>1 DEF StatementRec
  <2> HIDE DEF s
  <2>3. resetStatement(s) \in StatementRec /\ resetStatement(s).db = stmts[o].db
    BY <2>2 DEF StatementRec, resetStatement
  <2>4. [s EXCEPT !.at = 0] \in StatementRec /\ [s EXCEPT !.at = 0].db = stmts[o].db
    BY <2>2 DEF StatementRec
  <2>5. [s EXCEPT !.at = @ + 1] \in StatementRec /\ [s EXCEPT !.at = @ + 1].db = stmts[o].db
    BY <2>2 DEF StatementRec
  <2>6. resetStatement(stmts[o]) \in StatementRec /\ resetStatement(stmts[o]).db = stmts[o].db
    BY <2>1 DEF StatementRec, resetStatement
  <2>7. CASE iteratorNext(i)
    <3>1. \/ ready /\ stepIterator(i, s)
          \/ ready /\ s.at = NRows /\ endIterator(i, TRUE, resetStatement(s))
          \/ ready /\ endIterator(i, FALSE, [s EXCEPT !.at = 0])
          \/ ~ready /\ endIterator(i, FALSE, resetStatement(s))
      BY <2>7 DEF iteratorNext, s
    <3>2. \/ stmts' = [stmts EXCEPT ![o] = [s EXCEPT !.at = @ + 1]]
          \/ stmts' = [stmts EXCEPT ![o] = resetStatement(s)]
          \/ stmts' = [stmts EXCEPT ![o] = [s EXCEPT !.at = 0]]
      BY <3>1, <1>2 DEF stepIterator, endIterator
    <3> QED BY <3>2, <2>1, <2>3, <2>4, <2>5
  <2>8. CASE iteratorReturn(i)
    <3>1. stmts' = stmts \/ stmts' = [stmts EXCEPT ![o] = resetStatement(stmts[o])]
      BY <2>8, <1>2 DEF iteratorReturn, endIterator
    <3> QED BY <3>1, <2>1, <2>6
  <2> QED BY <2>7, <2>8
<1> QED BY <1>1, <1>2

-----------------------------------------------------------------------------
\* Every call leaves the tables in agreement.
LEMMA TablesStep == TablesInv /\ GeneratorsInv /\ [SqliteNext]_sqliteVars => TablesInv'
<1> SUFFICES ASSUME TablesInv, GeneratorsInv, [SqliteNext]_sqliteVars PROVE TablesInv'
  OBVIOUS
<1>1. ASSUME NEW d \in Databases, tagClear(d) PROVE TablesInv'
  <2>1. store'[d] = <<>> /\ \A e \in Databases : e # d => store'[e] = store[e]
    BY <1>1 DEF tagClear, TablesInv, StoresInv
  <2>2. store' \in [Databases -> Seq(StoreEntry)]
    BY <1>1 DEF tagClear, TablesInv, StoresInv
  <2>3. \A e \in Databases : \A k \in DOMAIN store'[e] : e # d /\ store'[e] = store[e]
    BY <2>1
  <2> QED
    BY <1>1, <2>1, <2>2, <2>3, SqliteAssumption
    DEF tagClear, TablesInv, HandlesInv, StatementsInv, StoresInv, TablesAgree
<1>2. ASSUME NEW d \in Databases, NEW sql \in SQLs, NEW o, LookedUp(d, sql, o), o \in found(d, sql) \cup {nextID + 1}
      PROVE  TablesInv'
  BY <1>2, HitTables, MissTables DEF LookedUp, tagLookup
<1>3. ASSUME NEW d \in Databases, NEW sql \in SQLs, NEW o \in found(d, sql) \cup {nextID + 1}, tagLookup(d, sql, o)
      PROVE  \A p \in DOMAIN after(d, sql, o) : after(d, sql, o)[p] \in StatementRec
  <2>1. found(d, sql) = {} => o = nextID + 1
    OBVIOUS
  <2>2. \A p \in DOMAIN stmts : stmts[p] \in StatementRec
    BY DEF TablesInv, StatementsInv
  <2> QED BY <2>1, <2>2, NewStatement DEF after, With, Minus
<1>4. ASSUME NEW d \in Databases, NEW sql \in SQLs, NEW args \in TagArgs, tagQuery(d, sql, args) PROVE TablesInv'
  <2>1. PICK o \in found(d, sql) \cup {nextID + 1} :
          /\ tagLookup(d, sql, o)
          /\ LET S == after(d, sql, o)
             IN  IF o \in DOMAIN S
                 THEN /\ \E s \in query(S[o], args) : stmts' = [S EXCEPT ![o] = s]
                      /\ iter' = Disturb(iter, o, "query")
                 ELSE stmts' = S /\ UNCHANGED iter
    BY <1>4 DEF tagQuery
  <2>2. \A p \in DOMAIN after(d, sql, o) : after(d, sql, o)[p] \in StatementRec
    BY <1>3, <2>1
  <2>3. LookedUp(d, sql, o)
    <3>1. CASE o \in DOMAIN after(d, sql, o)
      <4>1. PICK s \in query(after(d, sql, o)[o], args) : stmts' = [after(d, sql, o) EXCEPT ![o] = s]
        BY <2>1, <3>1
      <4>2. s \in StatementRec /\ s.db = after(d, sql, o)[o].db
        BY <2>2, <3>1, QueryForms
      <4> QED BY <4>1, <4>2, <2>1, <2>2, <1>4 DEF LookedUp, tagQuery
    <3>2. CASE o \notin DOMAIN after(d, sql, o)
      BY <3>2, <2>1, <2>2, <1>4 DEF LookedUp, tagQuery
    <3> QED BY <3>1, <3>2
  <2> QED BY <2>3, <1>2
<1>5. ASSUME NEW i \in Iterators, NEW d \in Databases, NEW sql \in SQLs, NEW args \in TagArgs, tagIterate(i, d, sql, args)
      PROVE  TablesInv'
  <2>1. PICK o \in found(d, sql) \cup {nextID + 1} :
          tagLookup(d, sql, o) /\ stmts' = after(d, sql, o)
    BY <1>5 DEF tagIterate
  <2>2. LookedUp(d, sql, o)
    BY <2>1, <1>3, <1>5 DEF LookedUp, tagIterate
  <2> QED BY <2>2, <1>2
<1>6. ASSUME NEW o \in Held, NEW args \in Args, stmtQuery(o, args) PROVE StatementsKept
  <2>1. PICK s \in query(stmts[o], args) : stmts' = [stmts EXCEPT ![o] = s]
    BY <1>6 DEF stmtQuery
  <2>2. o \in DOMAIN stmts /\ stmts[o] \in StatementRec
    BY <1>6 DEF stmtQuery, Live, TablesInv, StatementsInv
  <2>3. s \in StatementRec /\ s.db = stmts[o].db
    BY <2>2, QueryForms
  <2> QED BY <1>6, <2>1, <2>2, <2>3 DEF stmtQuery, StatementsKept, TablesInv, StatementsInv
<1>7. ASSUME NEW o \in Held, NEW allow \in BOOLEAN,
             setAllowBareNamedParameters(o, allow) \/ setAllowUnknownNamedParameters(o, allow)
      PROVE  StatementsKept
  <2>1. o \in DOMAIN stmts /\ stmts[o] \in StatementRec
    BY <1>7 DEF setAllowBareNamedParameters, setAllowUnknownNamedParameters, Live, TablesInv, StatementsInv
  <2>2. [stmts[o] EXCEPT !.bare = allow] \in StatementRec /\ [stmts[o] EXCEPT !.bare = allow].db = stmts[o].db
    BY <2>1 DEF StatementRec
  <2>3. [stmts[o] EXCEPT !.unknown = allow] \in StatementRec /\ [stmts[o] EXCEPT !.unknown = allow].db = stmts[o].db
    BY <2>1 DEF StatementRec
  <2>4. \/ stmts' = [stmts EXCEPT ![o] = [stmts[o] EXCEPT !.bare = allow]]
        \/ stmts' = [stmts EXCEPT ![o] = [stmts[o] EXCEPT !.unknown = allow]]
    BY <1>7 DEF setAllowBareNamedParameters, setAllowUnknownNamedParameters
  <2>5. UNCHANGED <<nextID, dbHandle, dbs, made, disposed, tagVars>>
    BY <1>7 DEF setAllowBareNamedParameters, setAllowUnknownNamedParameters
  <2> QED BY <2>1, <2>2, <2>3, <2>4, <2>5 DEF StatementsKept, TablesInv, StatementsInv
<1>8. ASSUME NEW i \in Iterators, iteratorNext(i) \/ iteratorReturn(i) PROVE StatementsKept
  <2>1. UNCHANGED <<nextID, dbHandle, dbs, made, disposed, tagVars>>
    BY <1>8 DEF iteratorNext, iteratorReturn
  <2> QED
    BY <1>8, <2>1, IteratorStatement DEF StatementsKept, TablesInv, StatementsInv
<1>9. ASSUME StatementsKept PROVE TablesInv'
  BY <1>9, KeptTables
<1>10. ASSUME UNCHANGED <<nextID, dbHandle, dbs, stmts, made, disposed, tagVars>> PROVE TablesInv'
  BY <1>10 DEF tagVars, TablesInv, HandlesInv, StatementsInv, StoresInv, TablesAgree
<1> QED
  BY <1>1, <1>4, <1>5, <1>6, <1>7, <1>8, <1>9, <1>10, OpenTables, CloseTables, PrepareTables, DisposeTables
  DEF SqliteNext, sqliteVars, stmtIterate, tagVars

-----------------------------------------------------------------------------
Identity(seen) == seen = [k \in 1..Len(seen) |-> k]

\* Objects are not forgotten and a disposed one stays disposed.
Growing == DOMAIN made \subseteq DOMAIN made' /\ disposed \subseteq disposed'

LiveAfter(p) == p \in DOMAIN stmts' /\ p \notin disposed'

\* The statement of p is where it was, or is new.
Quiet(p) ==
    \/ p \in DOMAIN stmts /\ stmts'[p].at = stmts[p].at /\ stmts'[p].bound = stmts[p].bound
    \/ p \notin DOMAIN made /\ stmts'[p].at = 0

AtZero(p) == stmts'[p].at = 0
AtKept(p) == p \in DOMAIN stmts /\ stmts'[p].at = stmts[p].at

\* Steps that leave the statements of live generators where they were keep the rows.
LEMMA QuietRows ==
  ASSUME TablesInv, RowsInv, Growing, \A p \in DOMAIN stmts' : Quiet(p), UNCHANGED iter
  PROVE  RowsInv'
<1> USE DEF RowsInv
<1>1. GeneratorsInv'
  BY DEF GeneratorsInv, Growing
<1>2. \A i \in Iterators : iter[i].state \in {"new", "suspended"} /\ LiveAfter(iter[i].obj) =>
         /\ Live(stmts, iter[i].obj)
         /\ stmts'[iter[i].obj].at = stmts[iter[i].obj].at
         /\ stmts'[iter[i].obj].bound = stmts[iter[i].obj].bound
  BY DEF Live, LiveAfter, Growing, Quiet, GeneratorsInv
<1>3. CleanInv'
  BY <1>2 DEF CleanInv, Live, LiveAfter
<1>4. \A o \in DOMAIN stmts' :
         stmts'[o].at # 0 => \E i \in Iterators : iter[i].state = "suspended" /\ iter[i].obj = o
  BY DEF Quiet, RowsFromTheStart
<1>5. RowsFromTheStart'
  BY <1>2, <1>4 DEF RowsFromTheStart, Live, LiveAfter
<1> QED BY <1>1, <1>3, <1>5

\* A generator that is created has not begun, and one may end before it begins.
LEMMA StartRows ==
  ASSUME TablesInv, RowsInv, Growing, \A p \in DOMAIN stmts' : Quiet(p),
         NEW i \in Iterators, iter[i].state # "suspended",
         NEW x, iter' = [iter EXCEPT ![i] = x], x.state \in {"new", "done"}, x.seen = <<>>,
         x.state = "new" => x \in Generator /\ x.obj \in DOMAIN made' /\ x.clean,
         x.state = "done" => x.finished = FALSE
  PROVE  RowsInv'
<1> USE DEF RowsInv
<1>1. /\ DOMAIN iter' = Iterators /\ iter'[i] = x
      /\ \A j \in Iterators : j # i => iter'[j] = iter[j]
      /\ \A j \in Iterators : iter'[j].state = "suspended" => j # i
  BY DEF GeneratorsInv
<1>2. GeneratorsInv'
  BY <1>1 DEF GeneratorsInv, Growing
<1>3. \A j \in Iterators : iter[j].state \in {"new", "suspended"} /\ LiveAfter(iter[j].obj) =>
         /\ Live(stmts, iter[j].obj)
         /\ stmts'[iter[j].obj].at = stmts[iter[j].obj].at
         /\ stmts'[iter[j].obj].bound = stmts[iter[j].obj].bound
  BY DEF Live, LiveAfter, Growing, Quiet, GeneratorsInv
<1>4. CleanInv'
  BY <1>1, <1>3 DEF CleanInv, Live, LiveAfter
<1>5. \A p \in DOMAIN stmts' :
         stmts'[p].at # 0 => \E j \in Iterators : iter'[j].state = "suspended" /\ iter'[j].obj = p
  <2> SUFFICES ASSUME NEW p \in DOMAIN stmts', stmts'[p].at # 0
               PROVE  \E j \in Iterators : iter'[j].state = "suspended" /\ iter'[j].obj = p
    OBVIOUS
  <2>1. PICK j \in Iterators : iter[j].state = "suspended" /\ iter[j].obj = p
    BY DEF Quiet, RowsFromTheStart
  <2> QED BY <2>1, <1>1
<1>6. RowsFromTheStart'
  <2>1. ASSUME NEW j \in Iterators, iter'[j].state # "none", iter'[j].clean
        PROVE  /\ iter'[j].seen = [k \in 1..Len(iter'[j].seen) |-> k]
               /\ iter'[j].state = "done" /\ iter'[j].finished => Len(iter'[j].seen) = NRows
               /\ iter'[j].state = "suspended" /\ LiveAfter(iter'[j].obj) => stmts'[iter'[j].obj].bound = j
    <3>1. CASE j = i
      <4>1. <<>> = [k \in 1..Len(<<>>) |-> k]
        OBVIOUS
      <4> QED BY <3>1, <4>1, <1>1
    <3>2. CASE j # i
      BY <3>2, <2>1, <1>1, <1>3 DEF RowsFromTheStart
    <3> QED BY <3>1, <3>2
  <2> QED BY <2>1, <1>1, <1>5 DEF RowsFromTheStart, Live, LiveAfter
<1> QED BY <1>2, <1>4, <1>6

\* Only the generators that are between rows of o lose their claim.
Disturbs(it, o, i, j) ==
    LET x == Disturb(it, o, i)[j]
        other == j # i /\ it[j].state = "suspended" /\ it[j].obj = o
    IN  /\ x.state = it[j].state
        /\ other => x \in Generator /\ x.obj = it[j].obj /\ x.clean = FALSE /\ x.seen = <<>>
        /\ ~other => x = it[j]

\* What Disturb does to one generator.
LEMMA Disturbed ==
  ASSUME NEW it, NEW o, NEW i, NEW j \in Iterators, it[j].state = "suspended" => it[j] \in Generator
  PROVE  Disturbs(it, o, i, j)
<1> DEFINE g == it[j]
           x == Disturb(it, o, i)[j]
           y == [g EXCEPT !.clean = FALSE, !.seen = <<>>]
           other == j # i /\ g.state = "suspended" /\ g.obj = o
<1>1. x = IF other THEN y ELSE g
  BY DEF Disturb
<1>2. g \in Generator => y \in Generator /\ y.obj = g.obj /\ y.clean = FALSE /\ y.seen = <<>> /\ y.state = g.state
  <2>1. <<>> \in Seq(Nat)
    OBVIOUS
  <2> HIDE DEF g
  <2> QED BY <2>1 DEF Generator
<1> HIDE DEF g, x, y
<1> QED BY <1>1, <1>2 DEF g, x, Disturbs

\* A query of o ends the claims of the generators that are between rows of it.
LEMMA QueryRows ==
  ASSUME TablesInv, RowsInv, Growing, NEW o,
         \A p \in DOMAIN stmts' : p # o => Quiet(p), AtZero(o) \/ AtKept(o),
         iter' = Disturb(iter, o, "query")
  PROVE  RowsInv'
<1> USE SqliteAssumption DEF RowsInv
<1> DEFINE other(j) == iter[j].state = "suspended" /\ iter[j].obj = o
<1>1. /\ DOMAIN iter' = Iterators
      /\ \A j \in Iterators :
           /\ iter'[j].state = iter[j].state
           /\ other(j) => iter'[j] \in Generator /\ iter'[j].obj = iter[j].obj /\ iter'[j].clean = FALSE /\ iter'[j].seen = <<>>
           /\ ~other(j) => iter'[j] = iter[j]
  <2>1. DOMAIN iter' = Iterators
    BY DEF Disturb
  <2>2. ASSUME NEW j \in Iterators
        PROVE  /\ iter'[j].state = iter[j].state
               /\ other(j) => iter'[j] \in Generator /\ iter'[j].obj = iter[j].obj /\ iter'[j].clean = FALSE /\ iter'[j].seen = <<>>
               /\ ~other(j) => iter'[j] = iter[j]
    <3>1. j # "query" /\ (iter[j].state = "suspended" => iter[j] \in Generator)
      BY DEF GeneratorsInv
    <3>2. Disturbs(iter, o, "query", j)
      BY <3>1, Disturbed
    <3> QED BY <3>1, <3>2 DEF Disturbs
  <2> QED BY <2>1, <2>2
<1>2. GeneratorsInv'
  BY <1>1 DEF GeneratorsInv, Growing
<1>3. \A j \in Iterators : iter[j].state = "suspended" => iter'[j].state = "suspended" /\ iter'[j].obj = iter[j].obj
  BY <1>1
<1>4. \A j \in Iterators : iter'[j].state = "suspended" /\ iter'[j].clean =>
         iter'[j] = iter[j] /\ iter[j].obj # o
  BY <1>1
<1>5. \A j \in Iterators : iter[j].state = "suspended" /\ iter[j].obj # o /\ LiveAfter(iter[j].obj) =>
         /\ Live(stmts, iter[j].obj)
         /\ stmts'[iter[j].obj].at = stmts[iter[j].obj].at
         /\ stmts'[iter[j].obj].bound = stmts[iter[j].obj].bound
  BY DEF Live, LiveAfter, Growing, Quiet, GeneratorsInv
<1>6. CleanInv'
  <2> SUFFICES ASSUME NEW j \in Iterators, iter'[j].state = "suspended", iter'[j].clean
               PROVE  /\ \A l \in Iterators : iter'[l].state = "suspended" /\ iter'[l].obj = iter'[j].obj => l = j
                      /\ LiveAfter(iter[j].obj) => stmts'[iter'[j].obj].at = Len(iter'[j].seen)
    BY <1>4 DEF CleanInv, Live, LiveAfter
  <2>1. iter'[j] = iter[j] /\ iter[j].obj # o
    BY <1>4
  <2>2. \A l \in Iterators : iter'[l].state = "suspended" => iter[l].state = "suspended" /\ iter'[l].obj = iter[l].obj
    BY <1>1
  <2> QED BY <2>1, <2>2, <1>5 DEF CleanInv
<1>7. \A p \in DOMAIN stmts' :
         stmts'[p].at # 0 => \E j \in Iterators : iter'[j].state = "suspended" /\ iter'[j].obj = p
  <2> SUFFICES ASSUME NEW p \in DOMAIN stmts', stmts'[p].at # 0
               PROVE  \E j \in Iterators : iter'[j].state = "suspended" /\ iter'[j].obj = p
    OBVIOUS
  <2>1. p \in DOMAIN stmts /\ stmts[p].at # 0
    <3>1. CASE p = o
      BY <3>1 DEF AtZero, AtKept
    <3>2. CASE p # o
      BY <3>2 DEF Quiet
    <3> QED BY <3>1, <3>2
  <2>2. PICK j \in Iterators : iter[j].state = "suspended" /\ iter[j].obj = p
    BY <2>1 DEF RowsFromTheStart
  <2> QED BY <2>2, <1>3
<1>8. RowsFromTheStart'
  <2>1. ASSUME NEW j \in Iterators, iter'[j].state # "none", iter'[j].clean
        PROVE  /\ iter'[j].seen = [k \in 1..Len(iter'[j].seen) |-> k]
               /\ iter'[j].state = "done" /\ iter'[j].finished => Len(iter'[j].seen) = NRows
               /\ iter'[j].state = "suspended" /\ LiveAfter(iter'[j].obj) => stmts'[iter'[j].obj].bound = j
    <3>1. iter'[j] = iter[j] /\ (iter[j].state = "suspended" => iter[j].obj # o)
      BY <1>1, <2>1
    <3> QED BY <3>1, <2>1, <1>5 DEF RowsFromTheStart, Live, LiveAfter
  <2> QED BY <2>1, <1>7 DEF RowsFromTheStart, Live, LiveAfter
<1> QED BY <1>2, <1>6, <1>8

\* A generator goes on or ends.  x is what it becomes; the others of the same
\* statement lose their claims.
LEMMA RunRows ==
  ASSUME TablesInv, RowsInv, UNCHANGED <<made, disposed>>, DOMAIN stmts' = DOMAIN stmts,
         NEW i \in Iterators, iter[i].state \in {"new", "suspended"},
         \A p \in DOMAIN stmts : p # iter[i].obj => stmts'[p] = stmts[p],
         NEW x, iter' = Disturb([iter EXCEPT ![i] = x], iter[i].obj, i),
         x.state \in {"suspended", "done"},
         x.state = "suspended" => x \in Generator /\ x.obj = iter[i].obj,
         iter[i].obj \in DOMAIN stmts /\ stmts'[iter[i].obj].at # 0 => x.state = "suspended",
         x.clean =>
            /\ Identity(x.seen)
            /\ x.state = "done" /\ x.finished => Len(x.seen) = NRows
            /\ x.state = "suspended" =>
                  /\ \A j \in Iterators : iter[j].state = "suspended" /\ iter[j].obj = iter[i].obj => j = i
                  /\ stmts'[iter[i].obj].bound = i /\ stmts'[iter[i].obj].at = Len(x.seen)
  PROVE  RowsInv'
<1> USE DEF RowsInv
<1> DEFINE o == iter[i].obj
           it == [iter EXCEPT ![i] = x]
           other(j) == j # i /\ iter[j].state = "suspended" /\ iter[j].obj = o
<1>1. it[i] = x /\ \A j \in Iterators : j # i => it[j] = iter[j]
  BY DEF GeneratorsInv
<1>2. \A j \in Iterators : Disturbs(it, o, i, j)
  <2>1. \A j \in Iterators : it[j].state = "suspended" => it[j] \in Generator
    BY <1>1 DEF GeneratorsInv
  <2> HIDE DEF it, o
  <2> QED BY <2>1, Disturbed
<1>3. /\ DOMAIN iter' = Iterators /\ iter'[i] = x
      /\ \A j \in Iterators : j # i =>
           /\ iter'[j].state = iter[j].state
           /\ other(j) => iter'[j] \in Generator /\ iter'[j].obj = iter[j].obj /\ iter'[j].clean = FALSE /\ iter'[j].seen = <<>>
           /\ ~other(j) => iter'[j] = iter[j]
  <2>1. DOMAIN iter' = Iterators
    BY DEF Disturb
  <2>2. iter' = Disturb(it, o, i)
    OBVIOUS
  <2> HIDE DEF it, o
  <2>3. iter'[i] = x
    BY <1>1, <1>2, <2>2 DEF Disturbs
  <2>4. ASSUME NEW j \in Iterators, j # i
        PROVE  /\ iter'[j].state = iter[j].state
               /\ other(j) => iter'[j] \in Generator /\ iter'[j].obj = iter[j].obj /\ iter'[j].clean = FALSE /\ iter'[j].seen = <<>>
               /\ ~other(j) => iter'[j] = iter[j]
    BY <1>1, <1>2, <2>2, <2>4 DEF Disturbs
  <2> QED BY <2>1, <2>3, <2>4
<1> HIDE DEF it
<1>4. GeneratorsInv'
  <2>1. ASSUME NEW j \in Iterators
        PROVE  /\ iter'[j].state \in {"none", "new", "suspended", "done"}
               /\ iter'[j].state \in {"new", "suspended"} => iter'[j] \in Generator /\ iter'[j].obj \in DOMAIN made'
               /\ iter'[j].state = "new" => iter'[j].clean /\ iter'[j].seen = <<>>
    <3>1. CASE j = i
      BY <3>1, <1>3 DEF GeneratorsInv
    <3>2. CASE j # i /\ other(j)
      BY <3>2, <1>3 DEF GeneratorsInv
    <3>3. CASE j # i /\ ~other(j)
      <4>1. iter'[j] = iter[j]
        BY <3>3, <1>3
      <4> QED BY <4>1 DEF GeneratorsInv
    <3> QED BY <3>1, <3>2, <3>3
  <2> QED BY <2>1, <1>3 DEF GeneratorsInv
<1>5. \A j \in Iterators : j # i /\ iter[j].state = "suspended" => iter'[j].state = "suspended" /\ iter'[j].obj = iter[j].obj
  BY <1>3
<1>6. \A j \in Iterators : j # i /\ iter'[j].state # "none" /\ iter'[j].clean => iter'[j] = iter[j] /\ ~other(j)
  BY <1>3
<1>7. \A p \in DOMAIN stmts' :
         stmts'[p].at # 0 => \E j \in Iterators : iter'[j].state = "suspended" /\ iter'[j].obj = p
  <2> SUFFICES ASSUME NEW p \in DOMAIN stmts', stmts'[p].at # 0
               PROVE  \E j \in Iterators : iter'[j].state = "suspended" /\ iter'[j].obj = p
    OBVIOUS
  <2>1. CASE p = o
    BY <2>1, <1>3
  <2>2. CASE p # o
    <3>1. PICK j \in Iterators : iter[j].state = "suspended" /\ iter[j].obj = p
      BY <2>2 DEF RowsFromTheStart
    <3> QED BY <3>1, <2>2, <1>5
  <2> QED BY <2>1, <2>2
<1>8. CleanInv'
  <2> SUFFICES ASSUME NEW j \in Iterators, iter'[j].state = "suspended", iter'[j].clean
               PROVE  /\ \A l \in Iterators : iter'[l].state = "suspended" /\ iter'[l].obj = iter'[j].obj => l = j
                      /\ LiveAfter(iter'[j].obj) => stmts'[iter'[j].obj].at = Len(iter'[j].seen)
    BY DEF CleanInv, Live, LiveAfter
  <2>1. CASE j = i
    <3>1. iter'[j] = x /\ x.clean /\ x.state = "suspended" /\ x.obj = o
      BY <2>1, <1>3
    <3>2. /\ \A l \in Iterators : iter[l].state = "suspended" /\ iter[l].obj = o => l = i
          /\ stmts'[o].at = Len(x.seen)
      BY <3>1
    <3>3. ASSUME NEW l \in Iterators, iter'[l].state = "suspended", iter'[l].obj = iter'[j].obj
          PROVE  l = j
      <4>1. iter'[l].obj = o
        BY <3>1, <3>3
      <4>2. l # i => iter[l].state = "suspended" /\ iter[l].obj = o
        BY <1>3, <3>3, <4>1
      <4>3. l = i
        BY <3>2, <4>2
      <4> QED BY <2>1, <4>3
    <3>4. LiveAfter(iter'[j].obj) => stmts'[iter'[j].obj].at = Len(iter'[j].seen)
      BY <3>1, <3>2
    <3> QED BY <3>3, <3>4
  <2>2. CASE j # i
    <3>1. iter'[j] = iter[j] /\ iter[j].obj # o
      BY <2>2, <1>6
    <3>2. \A l \in Iterators : iter[l].state = "suspended" /\ iter[l].obj = iter[j].obj => l = j
      BY <3>1 DEF CleanInv
    <3>3. ASSUME NEW l \in Iterators, iter'[l].state = "suspended", iter'[l].obj = iter'[j].obj
          PROVE  l = j
      <4>1. iter'[l].obj = iter[j].obj
        BY <3>1, <3>3
      <4>2. l # i
        BY <3>1, <4>1, <1>3, <3>3
      <4>3. iter[l].state = "suspended" /\ iter[l].obj = iter[j].obj
        BY <1>3, <3>3, <4>1, <4>2
      <4> QED BY <3>2, <4>3
    <3>5. LiveAfter(iter[j].obj) => Live(stmts, iter[j].obj) /\ stmts'[iter[j].obj] = stmts[iter[j].obj]
      BY <3>1 DEF Live, LiveAfter
    <3>6. LiveAfter(iter[j].obj) => stmts'[iter[j].obj].at = Len(iter[j].seen)
      BY <3>1, <3>5 DEF CleanInv
    <3>8. LiveAfter(iter'[j].obj) => stmts'[iter'[j].obj].at = Len(iter'[j].seen)
      BY <3>1, <3>6
    <3> QED BY <3>3, <3>8
  <2> QED BY <2>1, <2>2
<1>9. RowsFromTheStart'
  <2>1. ASSUME NEW j \in Iterators, iter'[j].state # "none", iter'[j].clean
        PROVE  /\ iter'[j].seen = [k \in 1..Len(iter'[j].seen) |-> k]
               /\ iter'[j].state = "done" /\ iter'[j].finished => Len(iter'[j].seen) = NRows
               /\ iter'[j].state = "suspended" /\ LiveAfter(iter'[j].obj) => stmts'[iter'[j].obj].bound = j
    <3>1. CASE j = i
      <4>1. iter'[j] = x /\ x.clean
        BY <3>1, <2>1, <1>3
      <4>2. /\ x.seen = [k \in 1..Len(x.seen) |-> k]
            /\ x.state = "done" /\ x.finished => Len(x.seen) = NRows
            /\ x.state = "suspended" => x.obj = o /\ stmts'[o].bound = i
        BY <4>1 DEF Identity
      <4>3. iter'[j].seen = [k \in 1..Len(iter'[j].seen) |-> k]
        BY <4>1, <4>2
      <4>4. iter'[j].state = "done" /\ iter'[j].finished => Len(iter'[j].seen) = NRows
        BY <4>1, <4>2
      <4>5. iter'[j].state = "suspended" => stmts'[iter'[j].obj].bound = j
        BY <3>1, <4>1, <4>2
      <4> QED BY <4>3, <4>4, <4>5
    <3>2. CASE j # i
      <4>1. iter'[j] = iter[j] /\ (iter[j].state = "suspended" => iter[j].obj # o)
        BY <3>2, <2>1, <1>6
      <4>2. iter[j].state = "suspended" /\ LiveAfter(iter[j].obj) =>
              Live(stmts, iter[j].obj) /\ stmts'[iter[j].obj] = stmts[iter[j].obj]
        BY <4>1 DEF Live, LiveAfter
      <4>3. /\ iter[j].seen = [k \in 1..Len(iter[j].seen) |-> k]
            /\ iter[j].state = "done" /\ iter[j].finished => Len(iter[j].seen) = NRows
            /\ iter[j].state = "suspended" /\ Live(stmts, iter[j].obj) => stmts[iter[j].obj].bound = j
        BY <4>1, <2>1 DEF RowsFromTheStart
      <4> QED BY <4>1, <4>2, <4>3
    <3> QED BY <3>1, <3>2
  <2> QED BY <2>1, <1>7 DEF RowsFromTheStart, Live, LiveAfter
<1> QED BY <1>4, <1>8, <1>9

\* What a generator with its claim knows when it goes on.
LEMMA CleanHere ==
  ASSUME TablesInv, RowsInv, NEW i \in Iterators, iter[i].state \in {"new", "suspended"}, iter[i].clean, alone(i)
  PROVE  /\ Identity(iter[i].seen) /\ iter[i].seen \in Seq(Nat)
         /\ \A j \in Iterators : iter[j].state = "suspended" /\ iter[j].obj = iter[i].obj => j = i
         /\ iter[i].obj \in DOMAIN stmts =>
               /\ stmts[iter[i].obj].at = Len(iter[i].seen)
               /\ iter[i].state = "suspended" => stmts[iter[i].obj].bound = i
<1> DEFINE o == iter[i].obj
<1>0. iter[i] \in Generator /\ iter[i].seen \in Seq(Nat)
  BY DEF RowsInv, GeneratorsInv, Generator
<1>1. Identity(iter[i].seen)
  BY DEF RowsInv, RowsFromTheStart, Identity
<1>2. o \in DOMAIN stmts => Live(stmts, o)
  BY DEF Live, TablesInv, StatementsInv, TablesAgree
<1>3. CASE iter[i].state = "suspended"
  BY <1>0, <1>1, <1>2, <1>3 DEF RowsInv, CleanInv, RowsFromTheStart
<1>4. CASE iter[i].state = "new"
  <2>1. \A j \in Iterators : iter[j].state = "suspended" => iter[j].obj # o
    BY <1>4 DEF alone
  <2>2. iter[i].seen = <<>>
    BY <1>4 DEF RowsInv, GeneratorsInv
  <2>3. o \in DOMAIN stmts => stmts[o].at = 0
    BY <2>1 DEF RowsInv, RowsFromTheStart
  <2> QED BY <1>0, <1>1, <1>4, <2>1, <2>2, <2>3
<1> QED BY <1>3, <1>4

\* A generator that steps to the next row keeps the rows.
LEMMA StepRows ==
  ASSUME TablesInv, RowsInv, UNCHANGED <<made, disposed>>, NEW i \in Iterators,
         iter[i].state \in {"new", "suspended"}, iter[i].obj \in DOMAIN stmts,
         NEW s \in StatementRec, s.at = stmts[iter[i].obj].at,
         s.bound = (IF iter[i].state = "new" THEN i ELSE stmts[iter[i].obj].bound),
         stepIterator(i, s)
  PROVE  RowsInv'
<1> DEFINE o == iter[i].obj
           c == iter[i].clean /\ alone(i)
           x == [iter[i] EXCEPT !.state = "suspended", !.clean = c,
                                !.seen = IF c THEN Append(@, s.at + 1) ELSE <<>>]
           r == [s EXCEPT !.at = @ + 1]
<1>1. stmts' = [stmts EXCEPT ![o] = r] /\ s.at \in Nat
  BY DEF stepIterator, StatementRec
<1>2. r.at = s.at + 1 /\ r.bound = s.bound
  BY DEF StatementRec
<1>3. iter' = Disturb([iter EXCEPT ![i] = x], o, i)
  <2>1. [iter EXCEPT ![i].state = "suspended",
                     ![i].clean = @ /\ alone(i),
                     ![i].seen = IF iter[i].clean /\ alone(i) THEN Append(@, s.at + 1) ELSE <<>>]
        = [iter EXCEPT ![i] = x]
    BY DEF RowsInv, GeneratorsInv, Generator
  <2> QED BY <2>1 DEF stepIterator
<1>4. iter[i] \in Generator /\ iter[i].seen \in Seq(Nat)
  BY DEF RowsInv, GeneratorsInv, Generator
<1>5. c \in BOOLEAN
  OBVIOUS
<1>6. (IF c THEN Append(iter[i].seen, s.at + 1) ELSE <<>>) \in Seq(Nat)
  BY <1>1, <1>4
<1>7. x \in Generator /\ x.state = "suspended" /\ x.obj = o /\ x.clean = c
      /\ x.seen = (IF c THEN Append(iter[i].seen, s.at + 1) ELSE <<>>)
  <2> HIDE DEF c
  <2> QED BY <1>4, <1>5, <1>6 DEF Generator
<1> HIDE DEF x, r
<1>8. ASSUME x.clean
      PROVE  /\ Identity(x.seen) /\ Len(x.seen) = r.at /\ r.bound = i
             /\ \A j \in Iterators : iter[j].state = "suspended" /\ iter[j].obj = o => j = i
  <2>1. iter[i].clean /\ alone(i)
    BY <1>7, <1>8
  <2>2. /\ Identity(iter[i].seen)
        /\ \A j \in Iterators : iter[j].state = "suspended" /\ iter[j].obj = o => j = i
        /\ stmts[o].at = Len(iter[i].seen)
        /\ iter[i].state = "suspended" => stmts[o].bound = i
    BY <2>1, CleanHere
  <2>3. x.seen = Append(iter[i].seen, Len(iter[i].seen) + 1)
    BY <1>7, <2>1, <2>2
  <2>4. Identity(x.seen) /\ Len(x.seen) = Len(iter[i].seen) + 1
    BY <2>2, <2>3, <1>4 DEF Identity
  <2> QED BY <2>2, <2>4, <1>2
<1>9. /\ DOMAIN stmts' = DOMAIN stmts /\ stmts'[o] = r
      /\ \A p \in DOMAIN stmts : p # o => stmts'[p] = stmts[p]
  BY <1>1
<1> QED BY <1>3, <1>7, <1>8, <1>9, RunRows

\* A generator that ends, returns or throws keeps the rows.
LEMMA EndRows ==
  ASSUME TablesInv, RowsInv, UNCHANGED <<made, disposed>>, NEW i \in Iterators,
         iter[i].state \in {"new", "suspended"}, NEW all \in BOOLEAN,
         all => iter[i].obj \in DOMAIN stmts /\ stmts[iter[i].obj].at = NRows,
         NEW left, iter[i].obj \in DOMAIN stmts => left.at = 0, endIterator(i, all, left)
  PROVE  RowsInv'
<1> DEFINE o == iter[i].obj
           c == iter[i].clean /\ alone(i)
           x == endedGenerator(i, c, all)
<1>1. iter' = Disturb([iter EXCEPT ![i] = x], o, i)
  BY DEF endIterator
<1>2. x.state = "done" /\ x.clean = c /\ x.seen = (IF c THEN iter[i].seen ELSE <<>>) /\ x.finished = all
  BY DEF endedGenerator
<1>3. o \in DOMAIN stmts => Live(stmts, o)
  BY DEF Live, TablesInv, StatementsInv, TablesAgree
<1>4. /\ DOMAIN stmts' = DOMAIN stmts /\ (o \in DOMAIN stmts => stmts'[o].at = 0)
      /\ \A p \in DOMAIN stmts : p # o => stmts'[p] = stmts[p]
  BY <1>3 DEF endIterator
<1> HIDE DEF x
<1>5. ASSUME x.clean PROVE Identity(x.seen) /\ (x.finished => Len(x.seen) = NRows)
  <2>1. iter[i].clean /\ alone(i)
    BY <1>2, <1>5
  <2> QED BY <2>1, <1>2, CleanHere
<1> QED BY <1>1, <1>2, <1>4, <1>5, RunRows

\* The statements after a lookup: the found one as it is, or a new one.
LEMMA LookupQuiet ==
  ASSUME TablesInv, NEW d \in Databases, NEW sql \in SQLs, NEW o \in found(d, sql) \cup {nextID + 1},
         tagLookup(d, sql, o)
  PROVE  /\ Growing /\ o \in DOMAIN made' /\ o \in Nat
         /\ \A p \in DOMAIN after(d, sql, o) :
              \/ p \in DOMAIN stmts /\ after(d, sql, o)[p] = stmts[p]
              \/ p = o /\ p \notin DOMAIN made /\ after(d, sql, o)[p].at = 0
<1>1. CASE o \in found(d, sql) /\ hit(d, sql)
  <2>1. after(d, sql, o) = stmts
    BY <1>1 DEF after
  <2>2. UNCHANGED <<made, disposed>>
    BY <1>1 DEF hit
  <2>3. o \in DOMAIN made
    BY <1>1 DEF found, cached, TablesInv, StoresInv, HandlesInv
  <2> QED BY <2>1, <2>2, <2>3 DEF Growing, TablesInv, HandlesInv
<1>2. CASE miss(d, sql, o)
  <2>1. o = nextID + 1 /\ o \in Nat /\ o \notin DOMAIN made /\ found(d, sql) = {}
    BY <1>2, CachedFound DEF miss, TablesInv, HandlesInv
  <2>2. Growing /\ o \in DOMAIN made'
    BY <1>2 DEF miss, With, Growing
  <2>3. newStatement(d, sql).at = 0
    BY DEF newStatement
  <2> QED BY <2>1, <2>2, <2>3 DEF after, With, Minus
<1> QED BY <1>1, <1>2 DEF tagLookup

\* Every call leaves the generators what they promise.
LEMMA RowsStep == TablesInv /\ RowsInv /\ [SqliteNext]_sqliteVars => RowsInv'
<1> SUFFICES ASSUME TablesInv, RowsInv, [SqliteNext]_sqliteVars PROVE RowsInv'
  OBVIOUS
<1>1. ASSUME NEW d \in Databases, NEW failed \in BOOLEAN,
             dbOpen(d) \/ tagClear(d) \/ dbClose(d, failed)
      PROVE  RowsInv'
  <2>1. Growing /\ UNCHANGED iter
    BY <1>1 DEF dbOpen, tagClear, dbClose, Growing
  <2>2. \A p \in DOMAIN stmts' : p \in DOMAIN stmts /\ stmts'[p] = stmts[p]
    BY <1>1 DEF dbOpen, tagClear, dbClose, Minus
  <2> QED BY <2>1, <2>2, QuietRows DEF Quiet
<1>2. ASSUME NEW d \in Databases, NEW sql \in SQLs, dbPrepare(d, sql) PROVE RowsInv'
  <2>1. Growing /\ UNCHANGED iter
    BY <1>2 DEF dbPrepare, With, Growing
  <2>2. nextID' \notin DOMAIN made
    BY <1>2 DEF dbPrepare, TablesInv, HandlesInv
  <2>3. AtZero(nextID') /\ \A p \in DOMAIN stmts' : p # nextID' => p \in DOMAIN stmts /\ stmts'[p] = stmts[p]
    <3>1. newStatement(d, sql).at = 0
      BY DEF newStatement
    <3>2. DOMAIN stmts' = DOMAIN stmts \cup {nextID'}
      BY <1>2 DEF dbPrepare, With
    <3>3. \A p \in DOMAIN stmts' : stmts'[p] = IF p = nextID' THEN newStatement(d, sql) ELSE stmts[p]
      BY <1>2 DEF dbPrepare, With
    <3>4. stmts'[nextID'] = newStatement(d, sql)
      BY <3>2, <3>3
    <3>5. AtZero(nextID')
      BY <3>1, <3>4 DEF AtZero
    <3>6. \A p \in DOMAIN stmts : p # nextID' => stmts'[p] = stmts[p]
      BY <3>2, <3>3
    <3> QED BY <3>2, <3>5, <3>6
  <2>4. ASSUME NEW p \in DOMAIN stmts' PROVE Quiet(p)
    <3>1. CASE p # nextID'
      BY <3>1, <2>3 DEF Quiet
    <3>2. CASE p = nextID'
      BY <3>2, <2>2, <2>3 DEF Quiet, AtZero
    <3> QED BY <3>1, <3>2
  <2> QED BY <2>1, <2>4, QuietRows
<1>3. ASSUME NEW o \in Held, stmtDispose(o) PROVE RowsInv'
  <2>1. Growing /\ UNCHANGED iter /\ \A p \in DOMAIN stmts' : p \in DOMAIN stmts /\ stmts'[p] = stmts[p]
    BY <1>3 DEF stmtDispose, Growing, Minus
  <2> QED BY <2>1, QuietRows DEF Quiet
<1>4. ASSUME NEW o \in Held, NEW allow \in BOOLEAN,
             setAllowBareNamedParameters(o, allow) \/ setAllowUnknownNamedParameters(o, allow)
      PROVE  RowsInv'
  <2>1. Growing /\ UNCHANGED iter /\ o \in DOMAIN stmts
    BY <1>4 DEF setAllowBareNamedParameters, setAllowUnknownNamedParameters, Growing, Live
  <2>2. stmts[o] \in StatementRec
    BY <2>1 DEF TablesInv, StatementsInv
  <2>3. \/ stmts' = [stmts EXCEPT ![o] = [stmts[o] EXCEPT !.bare = allow]]
        \/ stmts' = [stmts EXCEPT ![o] = [stmts[o] EXCEPT !.unknown = allow]]
    BY <1>4 DEF setAllowBareNamedParameters, setAllowUnknownNamedParameters
  <2>4. \A p \in DOMAIN stmts' :
          p \in DOMAIN stmts /\ stmts'[p].at = stmts[p].at /\ stmts'[p].bound = stmts[p].bound
    BY <2>1, <2>2, <2>3 DEF StatementRec
  <2> QED BY <2>1, <2>4, QuietRows DEF Quiet
<1>5. ASSUME NEW s \in StatementRec, NEW args, NEW r \in query(s, args)
      PROVE  r.at = 0 \/ r.at = s.at
  BY <1>5 DEF query, resetStatement, StatementRec
<1>6. ASSUME NEW o \in Held, NEW args \in Args, stmtQuery(o, args) PROVE RowsInv'
  <2>1. Growing /\ o \in DOMAIN stmts /\ iter' = Disturb(iter, o, "query")
    BY <1>6 DEF stmtQuery, Growing, Live
  <2>2. PICK s \in query(stmts[o], args) : stmts' = [stmts EXCEPT ![o] = s]
    BY <1>6 DEF stmtQuery
  <2>3. s.at = 0 \/ s.at = stmts[o].at
    BY <2>1, <1>5 DEF TablesInv, StatementsInv
  <2>4. DOMAIN stmts' = DOMAIN stmts /\ stmts'[o] = s /\ \A p \in DOMAIN stmts : p # o => stmts'[p] = stmts[p]
    BY <2>1, <2>2
  <2>5. AtZero(o) \/ AtKept(o)
    <3>1. CASE s.at = 0
      BY <3>1, <2>4 DEF AtZero
    <3>2. CASE s.at = stmts[o].at
      BY <3>2, <2>1, <2>4 DEF AtKept
    <3> QED BY <2>3, <3>1, <3>2
  <2>6. ASSUME NEW p \in DOMAIN stmts', p # o PROVE Quiet(p)
    BY <2>4, <2>6 DEF Quiet
  <2> QED BY <2>1, <2>5, <2>6, QueryRows
<1>7. ASSUME NEW d \in Databases, NEW sql \in SQLs, NEW args \in TagArgs, tagQuery(d, sql, args) PROVE RowsInv'
  <2>1. PICK o \in found(d, sql) \cup {nextID + 1} :
          /\ tagLookup(d, sql, o)
          /\ LET S == after(d, sql, o)
             IN  IF o \in DOMAIN S
                 THEN /\ \E s \in query(S[o], args) : stmts' = [S EXCEPT ![o] = s]
                      /\ iter' = Disturb(iter, o, "query")
                 ELSE stmts' = S /\ UNCHANGED iter
    BY <1>7 DEF tagQuery
  <2> DEFINE S == after(d, sql, o)
  <2>2. /\ Growing
        /\ \A p \in DOMAIN S :
              \/ p \in DOMAIN stmts /\ S[p] = stmts[p]
              \/ p = o /\ p \notin DOMAIN made /\ S[p].at = 0
    BY <2>1, LookupQuiet
  <2>3. CASE o \notin DOMAIN S
    <3>1. stmts' = S /\ UNCHANGED iter
      BY <2>1, <2>3
    <3> QED BY <3>1, <2>2, QuietRows DEF Quiet
  <2>4. CASE o \in DOMAIN S
    <3>1. PICK s \in query(S[o], args) : stmts' = [S EXCEPT ![o] = s] /\ iter' = Disturb(iter, o, "query")
      BY <2>1, <2>4
    <3>2. S[o] \in StatementRec
      <4>1. newStatement(d, sql) \in StatementRec
        BY NewStatement
      <4>2. \A p \in DOMAIN stmts : stmts[p] \in StatementRec
        BY DEF TablesInv, StatementsInv
      <4> QED BY <4>1, <4>2, <2>4 DEF after, With, Minus
    <3>3. s.at = 0 \/ s.at = S[o].at
      BY <3>2, <1>5
    <3> HIDE DEF S
    <3>4. DOMAIN stmts' = DOMAIN S /\ stmts'[o] = s /\ \A p \in DOMAIN S : p # o => stmts'[p] = S[p]
      BY <3>1, <2>4
    <3>5. ASSUME NEW p \in DOMAIN stmts', p # o PROVE Quiet(p)
      <4>1. p \in DOMAIN stmts /\ stmts'[p] = stmts[p]
        BY <3>4, <3>5, <2>2
      <4> QED BY <4>1 DEF Quiet
    <3>6. AtZero(o) \/ AtKept(o)
      <4>1. CASE s.at = 0
        BY <4>1, <3>4 DEF AtZero
      <4>2. CASE s.at = S[o].at /\ S[o].at = 0
        BY <4>2, <3>4 DEF AtZero
      <4>3. CASE s.at = S[o].at /\ o \in DOMAIN stmts /\ S[o] = stmts[o]
        BY <4>3, <3>4 DEF AtKept
      <4> QED BY <2>2, <2>4, <3>3, <4>1, <4>2, <4>3
    <3> QED BY <3>1, <3>5, <3>6, <2>2, QueryRows
  <2> QED BY <2>3, <2>4
<1>8. ASSUME NEW i \in Iterators, NEW o \in Held, NEW args \in Args, stmtIterate(i, o, args) PROVE RowsInv'
  <2>1. o \in DOMAIN made /\ o \in Nat
    BY DEF Held, TablesInv, HandlesInv
  <2>2. generator(o, args) \in Generator
    BY <2>1 DEF generator, Generator
  <2>3. /\ generator(o, args).state = "new" /\ generator(o, args).seen = <<>>
        /\ generator(o, args).obj = o /\ generator(o, args).clean
    BY DEF generator
  <2>4. Growing /\ iter[i].state # "suspended" /\ iter' = [iter EXCEPT ![i] = generator(o, args)]
        /\ made' = made /\ \A p \in DOMAIN stmts' : Quiet(p)
    BY <1>8 DEF stmtIterate, Growing, Quiet
  <2> HIDE DEF generator
  <2> QED BY <2>1, <2>2, <2>3, <2>4, StartRows
<1>9. ASSUME NEW i \in Iterators, NEW d \in Databases, NEW sql \in SQLs, NEW args \in TagArgs,
             tagIterate(i, d, sql, args)
      PROVE  RowsInv'
  <2>1. PICK o \in found(d, sql) \cup {nextID + 1} :
          tagLookup(d, sql, o) /\ stmts' = after(d, sql, o) /\ iter' = [iter EXCEPT ![i] = generator(o, args)]
    BY <1>9 DEF tagIterate
  <2>2. /\ Growing /\ o \in DOMAIN made' /\ o \in Nat
        /\ \A p \in DOMAIN after(d, sql, o) :
              \/ p \in DOMAIN stmts /\ after(d, sql, o)[p] = stmts[p]
              \/ p = o /\ p \notin DOMAIN made /\ after(d, sql, o)[p].at = 0
    BY <2>1, LookupQuiet
  <2>3. generator(o, args) \in Generator
    BY <2>2 DEF generator, Generator, TagArgs
  <2>4. /\ generator(o, args).state = "new" /\ generator(o, args).seen = <<>>
        /\ generator(o, args).obj = o /\ generator(o, args).clean
    BY DEF generator
  <2>5. iter[i].state # "suspended" /\ \A p \in DOMAIN stmts' : Quiet(p)
    BY <1>9, <2>1, <2>2 DEF tagIterate, Quiet
  <2> HIDE DEF generator
  <2> QED BY <2>1, <2>2, <2>3, <2>4, <2>5, StartRows
<1>10. ASSUME NEW i \in Iterators, iteratorNext(i) PROVE RowsInv'
  <2> DEFINE o == iter[i].obj
             s == IF iter[i].state = "new" THEN [stmts[o] EXCEPT !.bound = i] ELSE stmts[o]
             ready == Live(stmts, o) /\ (iter[i].state = "new" => bindParameters(stmts[o], iter[i].args))
  <2>1. /\ iter[i].state \in {"new", "suspended"} /\ UNCHANGED <<made, disposed>>
        /\ \/ ready /\ stepIterator(i, s)
           \/ ready /\ s.at = NRows /\ endIterator(i, TRUE, resetStatement(s))
           \/ ready /\ endIterator(i, FALSE, [s EXCEPT !.at = 0])
           \/ ~ready /\ endIterator(i, FALSE, resetStatement(s))
    BY <1>10 DEF iteratorNext
  <2>2. o \in DOMAIN stmts =>
          /\ s \in StatementRec /\ s.at = stmts[o].at
          /\ s.bound = (IF iter[i].state = "new" THEN i ELSE stmts[o].bound)
    <3>1. o \in DOMAIN stmts => stmts[o] \in StatementRec
      BY DEF TablesInv, StatementsInv
    <3> QED BY <3>1 DEF StatementRec
  <2>3. ready => o \in DOMAIN stmts
    BY DEF Live
  <2> HIDE DEF s, ready
  <2>4. o \in DOMAIN stmts => resetStatement(s).at = 0 /\ [s EXCEPT !.at = 0].at = 0
    BY <2>2 DEF resetStatement, StatementRec
  <2>5. CASE ready /\ stepIterator(i, s)
    BY <2>1, <2>2, <2>3, <2>5, StepRows
  <2>6. CASE ready /\ s.at = NRows /\ endIterator(i, TRUE, resetStatement(s))
    BY <2>1, <2>2, <2>3, <2>4, <2>6, EndRows
  <2>7. CASE ready /\ endIterator(i, FALSE, [s EXCEPT !.at = 0])
    BY <2>1, <2>4, <2>7, EndRows
  <2>8. CASE endIterator(i, FALSE, resetStatement(s))
    BY <2>1, <2>4, <2>8, EndRows
  <2> QED BY <2>1, <2>5, <2>6, <2>7, <2>8
<1>11. ASSUME NEW i \in Iterators, iteratorReturn(i) PROVE RowsInv'
  <2>1. iter[i].state \in {"new", "suspended"} /\ UNCHANGED <<made, disposed>>
    BY <1>11 DEF iteratorReturn
  <2>2. CASE iter[i].state = "new"
    <3> DEFINE x == endedGenerator(i, TRUE, FALSE)
    <3>1. iter' = [iter EXCEPT ![i] = x] /\ UNCHANGED stmts
      BY <1>11, <2>2 DEF iteratorReturn
    <3>2. x.state = "done" /\ x.seen = <<>> /\ x.finished = FALSE
      BY <2>2 DEF endedGenerator, RowsInv, GeneratorsInv
    <3>3. Growing /\ \A p \in DOMAIN stmts' : Quiet(p)
      BY <2>1, <3>1 DEF Growing, Quiet
    <3> HIDE DEF x
    <3> QED BY <2>2, <3>1, <3>2, <3>3, StartRows
  <2>3. CASE iter[i].state = "suspended"
    <3>1. endIterator(i, FALSE, resetStatement(stmts[iter[i].obj]))
      BY <1>11, <2>3 DEF iteratorReturn
    <3>2. iter[i].obj \in DOMAIN stmts => resetStatement(stmts[iter[i].obj]).at = 0
      BY DEF TablesInv, StatementsInv, StatementRec, resetStatement
    <3> QED BY <2>1, <3>1, <3>2, EndRows
  <2> QED BY <2>1, <2>2, <2>3
<1>12. ASSUME UNCHANGED sqliteVars PROVE RowsInv'
  <2>1. Growing /\ UNCHANGED iter /\ \A p \in DOMAIN stmts' : Quiet(p)
    BY <1>12 DEF sqliteVars, Growing, Quiet
  <2> QED BY <2>1, QuietRows
<1> QED
  BY <1>1, <1>2, <1>3, <1>4, <1>6, <1>7, <1>8, <1>9, <1>10, <1>11, <1>12 DEF SqliteNext

\* The invariant holds before the first call.
LEMMA SqliteInitially == SqliteInit => TablesInv /\ RowsInv
<1> SUFFICES ASSUME SqliteInit PROVE TablesInv /\ RowsInv
  OBVIOUS
<1>1. DOMAIN stmts = {} /\ DOMAIN made = {} /\ \A d \in Databases : DOMAIN store[d] = {} /\ Len(store[d]) = 0
  BY DEF SqliteInit
<1>2. store \in [Databases -> Seq(StoreEntry)]
  BY DEF SqliteInit
<1>3. dbs = {dbHandle[d] : d \in Databases} \ {0}
  BY DEF SqliteInit
<1>4. HandlesInv /\ StatementsInv /\ StoresInv
  BY <1>1, <1>2 DEF SqliteInit, HandlesInv, StatementsInv, StoresInv
<1>5. TablesAgree
  BY <1>1, <1>3, SqliteAssumption DEF TablesAgree, SqliteInit
<1>6. DOMAIN iter = Iterators /\ \A i \in Iterators : iter[i].state = "none"
  BY DEF SqliteInit
<1>7. RowsInv
  BY <1>1, <1>6 DEF RowsInv, GeneratorsInv, CleanInv, RowsFromTheStart
<1> QED BY <1>4, <1>5, <1>7 DEF TablesInv

\* The invariant of the tables and of the rows.
LEMMA SqliteInvariance == SqliteSpec => [](TablesInv /\ RowsInv)
<1>1. TablesInv /\ RowsInv /\ [SqliteNext]_sqliteVars => TablesInv' /\ RowsInv'
  BY TablesStep, RowsStep DEF RowsInv
<1> QED BY <1>1, SqliteInitially, PTL DEF SqliteSpec

\* The tables of binding.go and the objects of facade.js agree after any calls.
THEOREM TablesAlwaysAgree == SqliteSpec => []TablesAgree
<1>1. TablesInv => TablesAgree
  BY DEF TablesInv
<1> QED BY <1>1, SqliteInvariance, PTL

\* Queries and generators give their rows from the start.
THEOREM RowsAlwaysFromTheStart == SqliteSpec => []RowsFromTheStart
<1>1. RowsInv => RowsFromTheStart
  BY DEF RowsInv
<1> QED BY <1>1, SqliteInvariance, PTL

-----------------------------------------------------------------------------
(* Part 3, WebCrypto: secrets, signatures and exported keys.                    *)

\* A name that is not set.
Blank(x) == x = ""

HandleFields == {"type", "name", "ext", "usages", "fam", "curve", "t", "pub", "len", "hash"}

\* The algorithm is one of the key's kind, and hash, curve and length are what the
\* kind has.  Nothing ties the public half to the secret.
HandleOK(h) ==
    /\ DOMAIN h = HandleFields /\ h.t \in Term /\ h.pub \in Term
    /\ h.len \in Int /\ h.name \in Text /\ h.hash \in Text /\ h.curve \in Text
    /\ \/ /\ h.fam = "oct" /\ h.type = "secret" /\ Blank(h.curve)
          /\ rawSecretAllowed(h, h.len)
          /\ IF h.name = "HMAC" THEN ~Blank(h.hash) ELSE Blank(h.hash)
       \/ /\ h.fam = "RSA" /\ h.type \in {"public", "private"} /\ Blank(h.curve) /\ h.len = 0 /\ ~Blank(h.hash)
       \/ /\ h.fam \in ECAlgs /\ h.type \in {"public", "private"} /\ h.name = h.fam /\ h.len = 0 /\ Blank(h.hash)
       \/ /\ h.fam \in OKPAlgs /\ h.type \in {"public", "private"} /\ h.name = h.fam /\ h.len = 0 /\ Blank(h.hash)
          /\ Blank(h.curve)

BytesOK(b) == b \in ByteString /\ (b.fam \in OKPAlgs \cup {"RSA"} => Blank(b.curve))

\* A value of the random stream, as the bytes of a key.
Secret(i) == <<RandomStream[i]>>

\* The term is not that of a random value.
NotSecret(t) == \A i \in DOMAIN RandomStream : t # Secret(i)

\* Values not yet drawn are nowhere, but that an outside EC JWK may name a public
\* half of any secret.
Drawn ==
    /\ drawn \in 0..Len(RandomStream)
    /\ \A i \in DOMAIN RandomStream : i > drawn =>
          /\ \A h \in keys : IsSecret(h) => h.t # Secret(i)
          /\ \A b \in bytes : b.part # "public" => b.t # Secret(i)

\* Only private keys have the SEC 1 form.
SEC1 == \A b \in bytes, i \in DOMAIN RandomStream : b.t = Secret(i) /\ b.enc = "sec1" => b.part = "private"

CryptoInv ==
    /\ ids \subseteq Algorithm
    /\ \A h \in keys : HandleOK(h)
    /\ \A b \in bytes : BytesOK(b)
    /\ Drawn /\ SEC1 /\ Confined

\* A byte string that the script holds or can make with the calls: what was computed
\* is no random value, the encoding of a handle is a public half unless it may be
\* exported, and encrypting or decrypting keeps the term, the part and the format.
Made(b) ==
    /\ BytesOK(b)
    /\ \/ NotSecret(b.t)
       \/ b.part = "public" /\ b.enc # "sec1"
       \/ \E h \in keys : h.t = b.t /\ h.ext /\ IsSecret(h) /\ (b.enc = "sec1" => b.part = "private")
       \/ \E c \in bytes : c.t = b.t /\ c.part = b.part /\ c.enc = b.enc

\* The algorithm is one of the kind of the encoded key; for RSA it is not compared.
OfKind(a, b) ==
    \/ b.fam = "RSA"
    \/ b.fam = "EC" /\ a.name \in ECAlgs
    \/ b.fam \in OKPAlgs /\ a.name = b.fam

\* A handle read from the byte string b.
ReadFrom(h, b) ==
    /\ HandleOK(h)
    /\ IsSecret(h) => NotSecret(h.t) \/ (h.t = b.t /\ (b.part # "public" \/ b.enc = "sec1"))

-----------------------------------------------------------------------------
(* Terms and byte strings.                                                 *)

\* What is computed from terms is a longer term.
LEMMA LongTerm ==
    ASSUME NEW s \in Term, NEW t \in Term
    PROVE  s \o t \in Term /\ Len(s \o t) > 1
<1>1. Len(s) > 0 /\ Len(t) > 0 BY DEF Term
<1>2. s \o t \in Seq(Text) /\ Len(s \o t) = Len(s) + Len(t) BY DEF Term
<1> QED BY <1>1, <1>2 DEF Term

\* Terms of one word and of two.
LEMMA WordTerms ==
    ASSUME NEW x \in Text, NEW y \in Text
    PROVE  <<x>> \in Term /\ <<x, y>> \in Term
<1>1. <<x>> \in Seq(Text) /\ <<x, y>> \in Seq(Text) OBVIOUS
<1>2. Len(<<x>>) = 1 /\ Len(<<x, y>>) = 2 /\ Len(<<>>) = 0 OBVIOUS
<1>3. <<x>> # <<>> /\ <<x, y>> # <<>> BY <1>2
<1> QED BY <1>1, <1>3 DEF Term

\* The words that terms and byte strings are made of.
LEMMA Words ==
    /\ "pub" \in Text /\ "under" \in Text /\ "point" \in Text /\ "scrambled" \in Text
    /\ "shared" \in Text /\ "PBKDF2" \in Text /\ "HKDF" \in Text
    /\ "" \in Text /\ "raw" \in Text /\ "jwk" \in Text /\ "pkcs8" \in Text
    /\ "pkcs1" \in Text /\ "sec1" \in Text /\ "spki" \in Text /\ "sig" \in Text
    /\ "first" \in Text /\ "last" \in Text /\ "public" \in Text /\ "private" \in Text /\ "secret" \in Text /\ "oct" \in Text
    /\ "RSA" \in Text /\ "EC" \in Text /\ "SHA-256" \in Text
BY WordsAssumption

\* The positions of the random stream.
LEMMA StreamIndex == Len(RandomStream) \in Nat /\ DOMAIN RandomStream = 1..Len(RandomStream)
<1>1. RandomStream \in Seq(Text) BY FreshAssumption
<1> QED BY <1>1

\* A secret is a term of one word.
LEMMA SecretTerm ==
    ASSUME NEW i \in DOMAIN RandomStream
    PROVE  Secret(i) \in Term /\ Len(Secret(i)) = 1
<1>0. RandomStream \in Seq(Text) BY FreshAssumption
<1>1. RandomStream[i] \in Text BY <1>0
<1>2. Len(<<RandomStream[i]>>) = 1 OBVIOUS
<1> QED BY <1>1, <1>2, WordTerms DEF Secret

\* The secrets of the random stream differ.
LEMMA SecretsDiffer ==
    ASSUME NEW i \in DOMAIN RandomStream, NEW j \in DOMAIN RandomStream, Secret(i) = Secret(j)
    PROVE  i = j
<1>1. RandomStream[i] = RandomStream[j] BY SMT DEF Secret
<1> QED BY <1>1, FreshAssumption

\* What was computed is no random value.
LEMMA LongIsNotSecret ==
    ASSUME NEW t, Len(t) > 1
    PROVE  NotSecret(t)
<1>1. ASSUME NEW i \in DOMAIN RandomStream PROVE t # Secret(i)
  <2>1. SUFFICES ASSUME t = Secret(i) PROVE FALSE OBVIOUS
  <2>2. Len(t) = 1 BY <2>1, SecretTerm
  <2> QED BY <2>2
<1> QED BY <1>1 DEF NotSecret

\* Half of 64 bytes is a term of its own, and no random value.
LEMMA HalfTerms ==
    ASSUME NEW t \in Term
    PROVE  firstHalf(t) \in Term /\ NotSecret(firstHalf(t)) /\ lastHalf(t) \in Term
<1>1. CASE t \in DOMAIN Halves
  <2>1. Halves[t] \in [seed : Term, point : Term] BY <1>1, FreshAssumption
  <2>2. firstHalf(t) = Halves[t].seed /\ lastHalf(t) = Halves[t].point BY <1>1 DEF firstHalf, lastHalf
  <2>3. \A i \in DOMAIN RandomStream : Halves[t].seed # <<RandomStream[i]>> BY <1>1, FreshAssumption
  <2> QED BY <2>1, <2>2, <2>3 DEF NotSecret, Secret
<1>2. CASE t \notin DOMAIN Halves
  <2> DEFINE one == <<"first">>
             two == <<"last">>
  <2>1. one \in Term /\ two \in Term BY WordTerms, Words
  <2>2. firstHalf(t) = t \o one /\ lastHalf(t) = t \o two BY <1>2 DEF firstHalf, lastHalf
  <2> HIDE DEF one, two
  <2>3. t \o one \in Term /\ Len(t \o one) > 1 /\ t \o two \in Term BY <2>1, LongTerm
  <2> QED BY <2>2, <2>3, LongIsNotSecret
<1> QED BY <1>1, <1>2

\* As raw key bytes a byte string is its term only where it is not public.
LEMMA ContentTerm ==
    ASSUME NEW b \in ByteString
    PROVE  /\ Content(b) \in Term
           /\ Len(Content(b)) > 1 \/ (Content(b) = b.t /\ b.part # "public")
<1> DEFINE
  word == <<"pub">>
  own == CASE b.part = "public" -> b.t \o word
           [] b.part # "public" /\ b.pub = b.t -> b.t
           [] OTHER -> b.t \o word \o b.pub
<1>0. word \in Term BY WordTerms, Words
<1>1. b.t \in Term /\ b.pub \in Term /\ b.enc \in Text /\ b.layers \in Seq(Layer) BY DEF ByteString
<1>6. Content(b) = IF b.layers # <<>> THEN own \o <<"under">> \o b.layers[Len(b.layers)].t
                   ELSE IF b.enc = "raw" THEN own ELSE own \o <<b.enc>>
  BY DEF Content
<1> HIDE DEF word
<1>7. own = b.t \o word \/ own = b.t \o word \o b.pub \/ (own = b.t /\ b.part # "public")
  OBVIOUS
<1> HIDE DEF own
<1>8. b.t \o word \in Term /\ Len(b.t \o word) > 1 BY <1>0, <1>1, LongTerm
<1>9. b.t \o word \o b.pub \in Term /\ Len(b.t \o word \o b.pub) > 1 BY <1>1, <1>8, LongTerm
<1>2. own \in Term /\ (Len(own) > 1 \/ (own = b.t /\ b.part # "public"))
  BY <1>1, <1>7, <1>8, <1>9
<1>3. CASE b.layers # <<>>
  <2>0. Len(b.layers) \in 1..Len(b.layers) BY <1>1, <1>3
  <2>1. b.layers[Len(b.layers)] \in Layer BY <1>1, <2>0
  <2>4. b.layers[Len(b.layers)].t \in Term BY <2>1 DEF Layer
  <2>2. own \o <<"under">> \in Term BY <1>2, LongTerm, WordTerms, Words
  <2>3. Content(b) = own \o <<"under">> \o b.layers[Len(b.layers)].t BY <1>3, <1>6
  <2> QED BY <2>2, <2>3, <2>4, LongTerm
<1>4. CASE b.layers = <<>> /\ b.enc = "raw"
  BY <1>2, <1>4, <1>6
<1>5. CASE b.layers = <<>> /\ b.enc # "raw"
  <2>1. Content(b) = own \o <<b.enc>> BY <1>5, <1>6
  <2> QED BY <2>1, <1>1, <1>2, LongTerm, WordTerms, Words
<1> QED BY <1>3, <1>4, <1>5

\* The length of a byte string is a number.
LEMMA ByteLengthInt ==
    ASSUME NEW b \in ByteString
    PROVE  byteLength(b) \in Int
BY DEF byteLength, ByteString

\* An algorithm object always yields the name of a hash.
LEMMA HashNamed ==
    ASSUME NEW a \in Algorithm
    PROVE  hashFromAlgorithmObject(a) \in Text /\ ~Blank(hashFromAlgorithmObject(a))
<1>1. a.hash \in Text BY DEF Algorithm
<1>2. "SHA-256" # "" OBVIOUS
<1> QED BY <1>1, <1>2, Words DEF hashFromAlgorithmObject, Blank

\* An encoding is a byte string.
LEMMA EncodedBytes ==
    ASSUME NEW enc \in Text, NEW fam \in Text, NEW curve \in Text, NEW part \in Text,
           NEW t \in Term, NEW len \in Int
    PROVE  Encoded(enc, fam, curve, part, t, len) \in ByteString
<1>1. <<>> \in Seq(Layer) OBVIOUS
<1> QED BY <1>1, Words DEF Encoded, ByteString

-----------------------------------------------------------------------------
(* Handles.                                                                *)

\* The handle of a symmetric key of a length its algorithm takes.
LEMMA SymmetricHandle ==
    ASSUME NEW h, NEW a \in Algorithm, h.name = a.name, h.fam = "oct", h.type = "secret",
           DOMAIN h = HandleFields, h.t \in Term, h.pub \in Term,
           h.len \in Int, rawSecretAllowed(a, h.len), h.curve = "",
           h.hash = IF a.name = "HMAC" THEN hashFromAlgorithmObject(a) ELSE ""
    PROVE  HandleOK(h)
<1>4. Blank(h.curve) /\ h.curve \in Text BY Words DEF Blank
<1>5. h.hash \in Text /\ IF h.name = "HMAC" THEN ~Blank(h.hash) ELSE Blank(h.hash)
  <2>1. CASE a.name = "HMAC"
    <3>1. h.hash = hashFromAlgorithmObject(a) BY <2>1
    <3> QED BY <3>1, <2>1, HashNamed
  <2>2. CASE a.name # "HMAC"
    <3>1. h.hash = "" BY <2>2
    <3>2. h.hash \in Text /\ Blank(h.hash) BY <3>1, Words DEF Blank
    <3> QED BY <3>2, <2>2
  <2> QED BY <2>1, <2>2
<1>6. rawSecretAllowed(h, h.len) BY DEF rawSecretAllowed
<1>7. h.name \in Text BY DEF Algorithm
<1> QED BY <1>4, <1>5, <1>6, <1>7 DEF HandleOK

\* The handle of one half of a pair.
LEMMA PairHandle ==
    ASSUME NEW h, DOMAIN h = HandleFields, h.t \in Term, h.pub \in Term, h.len = 0, h.name \in Text, h.hash \in Text, h.curve \in Text,
           h.type \in {"public", "private"},
           \/ h.fam = "RSA" /\ ~Blank(h.hash) /\ Blank(h.curve)
           \/ h.fam \in ECAlgs /\ h.name = h.fam /\ Blank(h.hash)
           \/ h.fam \in OKPAlgs /\ h.name = h.fam /\ Blank(h.hash) /\ Blank(h.curve)
    PROVE  HandleOK(h)
BY DEF HandleOK

\* The handle of a parsed key, whatever its public half.
LEMMA ParsedHandle ==
    ASSUME NEW type \in {"public", "private"}, NEW a \in Algorithm, NEW b, BytesOK(b), NEW ext, NEW us,
           OfKind(a, b), NEW k \in parsedHandle(type, a, b, ext, us),
           NEW h, h = k \/ h = [k EXCEPT !.pub = b.pub]
    PROVE  HandleOK(h) /\ h.t = b.t /\ h.type = type
<1>8. /\ k.type = type /\ k.name = a.name /\ k.fam = (IF b.fam = "EC" THEN a.name ELSE b.fam)
      /\ k.curve = b.curve /\ k.t = b.t /\ k.len = 0
  BY DEF parsedHandle, cryptoKeyHandle
<1>9. k.hash = IF b.fam = "RSA" THEN hashFromAlgorithmObject(a) ELSE ""
  BY DEF parsedHandle, cryptoKeyHandle
<1>10. k.pub = b.t /\ DOMAIN k = HandleFields BY DEF parsedHandle, cryptoKeyHandle, HandleFields
<1>11. /\ h.type = k.type /\ h.name = k.name /\ h.fam = k.fam /\ h.curve = k.curve /\ h.t = k.t
       /\ h.len = k.len /\ h.hash = k.hash /\ h.pub \in {b.t, b.pub} /\ DOMAIN h = HandleFields
  BY <1>10 DEF HandleFields
<1>1. /\ h.type = type /\ h.name = a.name /\ h.fam = (IF b.fam = "EC" THEN a.name ELSE b.fam)
      /\ h.curve = b.curve /\ h.t = b.t /\ h.len = 0
  BY <1>8, <1>11
<1>7. h.hash = IF b.fam = "RSA" THEN hashFromAlgorithmObject(a) ELSE ""
  BY <1>9, <1>11
<1>2. h.name \in Text BY <1>1 DEF Algorithm
<1>3. /\ b.t \in Term /\ b.pub \in Term /\ b.curve \in Text
      /\ b.fam \in OKPAlgs \cup {"RSA"} => Blank(b.curve)
  BY DEF BytesOK, ByteString
<1>12. h.pub \in Term BY <1>3, <1>11
<1>4. hashFromAlgorithmObject(a) \in Text /\ ~Blank(hashFromAlgorithmObject(a)) BY HashNamed
<1>5. h.hash \in Text /\ IF b.fam = "RSA" THEN ~Blank(h.hash) ELSE Blank(h.hash)
  <2>1. CASE b.fam = "RSA"
    <3>1. h.hash = hashFromAlgorithmObject(a) BY <1>7, <2>1
    <3> QED BY <3>1, <1>4, <2>1
  <2>2. CASE b.fam # "RSA"
    <3>1. h.hash = "" BY <1>7, <2>2
    <3>2. h.hash \in Text /\ Blank(h.hash) BY <3>1, Words DEF Blank
    <3> QED BY <3>2, <2>2
  <2> QED BY <2>1, <2>2
<1>6. \/ h.fam = "RSA" /\ ~Blank(h.hash) /\ Blank(h.curve)
      \/ h.fam \in ECAlgs /\ h.name = h.fam /\ Blank(h.hash)
      \/ h.fam \in OKPAlgs /\ h.name = h.fam /\ Blank(h.hash) /\ Blank(h.curve)
  <2>1. CASE b.fam = "RSA" BY <1>1, <1>3, <1>5, <2>1
  <2>2. CASE b.fam = "EC" /\ a.name \in ECAlgs BY <1>1, <1>5, <2>2
  <2>3. CASE b.fam \in OKPAlgs /\ a.name = b.fam
    <3>1. b.fam # "RSA" /\ b.fam # "EC" BY <2>3 DEF OKPAlgs
    <3> QED BY <1>1, <1>3, <1>5, <2>3, <3>1
  <2> QED BY <2>1, <2>2, <2>3 DEF OfKind
<1> QED BY <1>1, <1>2, <1>3, <1>5, <1>6, <1>11, <1>12, PairHandle

\* The handle that a generated half gets.
LEMMA MadeHandle ==
    ASSUME NEW h, NEW a \in Algorithm, h.name = a.name, h.type \in {"public", "private"},
           DOMAIN h = HandleFields, h.t \in Term, h.pub \in Term,
           h.len = 0, h.curve = IF h.fam \in ECAlgs THEN a.namedCurve ELSE "",
           \/ h.fam = "RSA" /\ h.hash = hashFromAlgorithmObject(a)
           \/ h.fam \in ECAlgs \cup OKPAlgs /\ a.name = h.fam /\ h.hash = ""
    PROVE  HandleOK(h)
<1>2. h.name \in Text /\ a.namedCurve \in Text BY DEF Algorithm
<1>4. h.fam \in ECAlgs => h.fam # "RSA" /\ h.fam \notin OKPAlgs BY DEF ECAlgs, OKPAlgs
<1>5. h.curve \in Text /\ (h.fam \notin ECAlgs => Blank(h.curve))
  <2>1. CASE h.fam \in ECAlgs BY <1>2, <2>1
  <2>2. CASE h.fam \notin ECAlgs
    <3>1. h.curve = "" BY <2>2
    <3> QED BY <3>1, <2>2, Words DEF Blank
  <2> QED BY <2>1, <2>2
<1>6. CASE h.fam = "RSA" /\ h.hash = hashFromAlgorithmObject(a)
  <2>1. h.hash \in Text /\ ~Blank(h.hash) BY <1>6, HashNamed
  <2> QED BY <1>2, <1>4, <1>5, <1>6, <2>1, PairHandle
<1>7. CASE h.fam \in ECAlgs \cup OKPAlgs /\ a.name = h.fam /\ h.hash = ""
  <2>1. h.hash \in Text /\ Blank(h.hash) BY <1>7, Words DEF Blank
  <2> QED BY <1>2, <1>4, <1>5, <1>7, <2>1, PairHandle
<1> QED BY <1>6, <1>7

-----------------------------------------------------------------------------
(* Import.                                                                 *)

\* A raw import makes a good handle, with the bytes' own secret only where they are not public.
LEMMA ReadRaw ==
    ASSUME NEW a \in Algorithm, NEW b, BytesOK(b), NEW ext, NEW us,
           NEW h \in importRawKey(a, b, ext, us)
    PROVE  HandleOK(h) /\ (IsSecret(h) => NotSecret(h.t) \/ (h.t = b.t /\ b.part # "public"))
<1>1. b \in ByteString BY DEF BytesOK
<1>2. b.t \in Term BY <1>1 DEF ByteString
<1>4. Content(b) \in Term /\ (Len(Content(b)) > 1 \/ (Content(b) = b.t /\ b.part # "public"))
  BY <1>1, ContentTerm
<1>3. Content(b) \in Term /\ (NotSecret(Content(b)) \/ (Content(b) = b.t /\ b.part # "public"))
  BY <1>4, LongIsNotSecret
<1>5. CASE h \in importRawSecret(a, b, ext, us)
  <2>1. rawSecretAllowed(a, byteLength(b)) BY <1>5 DEF importRawSecret
  <2>0. h = cryptoKeyHandle("secret", a, ext, us, "oct", Content(b), byteLength(b),
                IF a.name = "HMAC" THEN hashFromAlgorithmObject(a) ELSE "")
    BY <1>5 DEF importRawSecret
  <2>9. "oct" \notin ECAlgs BY DEF ECAlgs
  <2>2. h.name = a.name /\ h.t = Content(b) /\ h.len = byteLength(b) BY <2>0 DEF cryptoKeyHandle
  <2>5. h.fam = "oct" /\ h.type = "secret" BY <2>0 DEF cryptoKeyHandle
  <2>6. h.curve = "" BY <2>0, <2>9 DEF cryptoKeyHandle
  <2>7. h.hash = IF a.name = "HMAC" THEN hashFromAlgorithmObject(a) ELSE "" BY <2>0 DEF cryptoKeyHandle
  <2>8. DOMAIN h = HandleFields /\ h.pub = Content(b) BY <2>0 DEF cryptoKeyHandle, HandleFields
  <2>3. h.t \in Term /\ h.len \in Int /\ rawSecretAllowed(a, h.len)
    BY <1>1, <1>3, <2>1, <2>2, ByteLengthInt
  <2>4. HandleOK(h) BY <1>3, <2>2, <2>3, <2>8, <2>5, <2>6, <2>7, SymmetricHandle
  <2> QED BY <1>3, <2>2, <2>4
<1>6. CASE h \in importRawEC(a, b, ext, us)
  <2>0. a.name \in ECAlgs /\ h = cryptoKeyHandle("public", a, TRUE, us, a.name, b.t, 0, "")
    BY <1>6 DEF importRawEC
  <2>1. h.name = a.name /\ h.fam = a.name /\ h.t = b.t /\ h.len = 0 BY <2>0 DEF cryptoKeyHandle
  <2>3. h.type = "public" BY <2>0 DEF cryptoKeyHandle
  <2>4. h.hash = "" BY <2>0 DEF cryptoKeyHandle
  <2>5. h.curve = IF h.fam \in ECAlgs THEN a.namedCurve ELSE "" BY <2>0 DEF cryptoKeyHandle
  <2>6. DOMAIN h = HandleFields /\ h.pub = b.t BY <2>0 DEF cryptoKeyHandle, HandleFields
  <2>2. HandleOK(h) BY <2>0, <2>1, <2>3, <2>4, <2>5, <2>6, <1>2, MadeHandle
  <2> QED BY <2>2, <2>3 DEF IsSecret
<1>7. CASE h \in importRawOKP(a, b, ext, us)
  <2>1. a.name \in OKPAlgs BY <1>7 DEF importRawOKP
  <2>2. ASSUME NEW type \in {"public", "private"}, NEW e, NEW t \in Term, NEW p \in Term,
               NEW k, k = cryptoKeyHandle(type, a, e, us, a.name, t, 0, ""),
               h = k \/ h = [k EXCEPT !.pub = p]
        PROVE  HandleOK(h) /\ h.t = t /\ h.type = type
    <3>1. k.name = a.name /\ k.fam = a.name /\ k.len = 0 /\ k.t = t BY <2>2 DEF cryptoKeyHandle
    <3>2. k.type = type BY <2>2 DEF cryptoKeyHandle
    <3>3. k.hash = "" BY <2>2 DEF cryptoKeyHandle
    <3>4. k.curve = IF k.fam \in ECAlgs THEN a.namedCurve ELSE "" BY <2>2 DEF cryptoKeyHandle
    <3>5. k.pub = t /\ DOMAIN k = HandleFields BY <2>2 DEF cryptoKeyHandle, HandleFields
    <3>6. /\ h.type = k.type /\ h.name = k.name /\ h.fam = k.fam /\ h.curve = k.curve /\ h.t = k.t
          /\ h.len = k.len /\ h.hash = k.hash /\ h.pub \in {t, p} /\ DOMAIN h = HandleFields
      BY <2>2, <3>5 DEF HandleFields
    <3>7. h.pub \in Term BY <3>6
    <3> QED BY <2>1, <3>1, <3>2, <3>3, <3>4, <3>6, <3>7, MadeHandle
  <2> DEFINE point == <<"point">>
  <2>5. point \in Term BY WordTerms, Words
  <2> HIDE DEF point
  <2>6. rawPoint(a, b) = b.t \/ rawPoint(a, b) = Content(b) \o point BY DEF rawPoint, point
  <2>7. rawPoint(a, b) \in Term BY <2>5, <2>6, <1>2, <1>3, LongTerm
  <2>3. CASE h = privateFromRaw(a, b, ext, us)
    <3>1. CASE byteLength(b) = 32
      <4>1. h = cryptoKeyHandle("private", a, ext, us, a.name, Content(b), 0, "")
        BY <2>3, <3>1 DEF privateFromRaw
      <4>2. HandleOK(h) /\ h.t = Content(b) BY <2>2, <4>1, <1>3
      <4> QED BY <4>2, <1>3
    <3>2. CASE byteLength(b) # 32
      <4> DEFINE k == cryptoKeyHandle("private", a, ext, us, a.name, firstHalf(Content(b)), 0, "")
      <4>1. h = [k EXCEPT !.pub = lastHalf(Content(b))] BY <2>3, <3>2 DEF privateFromRaw
      <4>2. /\ firstHalf(Content(b)) \in Term /\ NotSecret(firstHalf(Content(b)))
            /\ lastHalf(Content(b)) \in Term
        BY <1>3, HalfTerms
      <4> HIDE DEF k
      <4>3. HandleOK(h) /\ h.t = firstHalf(Content(b)) BY <2>2, <4>1, <4>2 DEF k
      <4> QED BY <4>2, <4>3
    <3> QED BY <3>1, <3>2
  <2>4. CASE h = cryptoKeyHandle("public", a, TRUE, us, a.name, rawPoint(a, b), 0, "")
    <3>1. HandleOK(h) /\ h.type = "public" BY <2>2, <2>4, <2>7
    <3> QED BY <3>1 DEF IsSecret
  <2> QED BY <1>7, <2>3, <2>4 DEF importRawOKP
<1> QED BY <1>5, <1>6, <1>7 DEF importRawKey

\* What importKey and unwrapKey make of a byte string holds its secret only if the
\* byte string does.
LEMMA ReadHandle ==
    ASSUME NEW f, NEW a \in Algorithm, NEW b, BytesOK(b), NEW ext, NEW us,
           NEW h \in importUnwrappedKey(f, a, b, ext, us)
    PROVE  ReadFrom(h, b)
<1>1. ASSUME NEW type \in {"public", "private"}, NEW e, h \in parsedHandle(type, a, b, e, us),
             OfKind(a, b), type = "private" => b.part = "private" \/ b.enc = "sec1"
      PROVE  ReadFrom(h, b)
  <2>1. HandleOK(h) /\ h.t = b.t /\ h.type = type BY <1>1, ParsedHandle
  <2>2. IsSecret(h) => b.part # "public" \/ b.enc = "sec1" BY <2>1, <1>1 DEF IsSecret
  <2> QED BY <2>1, <2>2 DEF ReadFrom
<1>2. ASSUME NEW c, BytesOK(c), c.t = b.t, c.part = b.part, h \in importRawKey(a, c, ext, us)
      PROVE  ReadFrom(h, b)
  BY <1>2, ReadRaw DEF ReadFrom
<1>3. ASSUME h \in privateKeyToHandle(a, b, ext, us), b.part = "private" \/ b.enc = "sec1"
      PROVE  ReadFrom(h, b)
  <2>1. h \in parsedHandle("private", a, b, ext, us) /\ compatible(a, b.fam) BY <1>3 DEF privateKeyToHandle
  <2>2. OfKind(a, b) BY <2>1 DEF compatible, OfKind
  <2> QED BY <2>1, <2>2, <1>1, <1>3
<1>4. ASSUME h \in publicKeyToHandle(a, b, us)
      PROVE  ReadFrom(h, b)
  <2>1. h \in parsedHandle("public", a, b, TRUE, us) /\ compatible(a, b.fam) BY <1>4 DEF publicKeyToHandle
  <2>2. OfKind(a, b) BY <2>1 DEF compatible, OfKind
  <2> QED BY <2>1, <2>2, <1>1
<1>5. CASE f = "raw" /\ h \in importRawKey(a, b, ext, us) BY <1>2, <1>5
<1>6. CASE h \in importJWK(a, b, ext, us)
  <2>1. CASE b.fam = "oct"
    <3> DEFINE c == [b EXCEPT !.enc = "raw"]
    <3>1. b \in ByteString BY DEF BytesOK
    <3>2. c \in ByteString /\ c.t = b.t /\ c.part = b.part /\ c.fam = b.fam
      BY <3>1, Words DEF ByteString
    <3>3. BytesOK(c) BY <2>1, <3>2 DEF BytesOK, OKPAlgs
    <3>4. h \in importRawKey(a, c, ext, us) BY <1>6, <2>1 DEF importJWK
    <3> QED BY <3>2, <3>3, <3>4, <1>2
  <2>2. CASE b.fam # "oct"
    <3>1. CASE h \in importRSAJWK(a, b, ext, us)
      <4>1. OfKind(a, b) BY <3>1 DEF importRSAJWK, OfKind
      <4>2. \/ b.part = "private" /\ h \in parsedHandle("private", a, b, ext, us)
            \/ h \in parsedHandle("public", a, b, TRUE, us)
        BY <3>1 DEF importRSAJWK
      <4> QED BY <4>1, <4>2, <1>1
    <3>2. CASE h \in importECJWK(a, b, ext, us)
      <4>1. OfKind(a, b) BY <3>2 DEF importECJWK, OfKind
      <4>2. \/ /\ b.part = "private"
               /\ \E k \in parsedHandle("private", a, b, ext, us) : h = [k EXCEPT !.pub = b.pub]
            \/ h \in parsedHandle("public", a, b, TRUE, us)
        BY <3>2 DEF importECJWK
      <4>3. ASSUME NEW k \in parsedHandle("private", a, b, ext, us), h = [k EXCEPT !.pub = b.pub],
                   b.part = "private"
            PROVE  ReadFrom(h, b)
        <5>1. HandleOK(h) /\ h.t = b.t BY <4>1, <4>3, ParsedHandle
        <5> QED BY <4>3, <5>1 DEF ReadFrom
      <4> QED BY <4>1, <4>2, <4>3, <1>1
    <3>3. CASE h \in importOKPJWK(a, b, ext, us)
      <4>1. OfKind(a, b) BY <3>3 DEF importOKPJWK, OfKind
      <4>2. \/ b.part = "private" /\ h \in parsedHandle("private", a, b, ext, us)
            \/ h \in parsedHandle("public", a, b, TRUE, us)
        BY <3>3 DEF importOKPJWK
      <4> QED BY <4>1, <4>2, <1>1
    <3> QED BY <1>6, <2>2, <3>1, <3>2, <3>3 DEF importJWK
  <2> QED BY <2>1, <2>2
<1>7. CASE f = "pkcs8" /\ parsePrivateKey(b) /\ h \in privateKeyToHandle(a, b, ext, us)
  BY <1>3, <1>7 DEF parsePrivateKey
<1>8. CASE f = "pkcs1" /\ h \in (IF b.part = "private" THEN privateKeyToHandle(a, b, ext, us)
                                 ELSE publicKeyToHandle(a, b, us))
  BY <1>3, <1>4, <1>8
<1>9. CASE f = "sec1" /\ b.enc = "sec1" /\ h \in privateKeyToHandle(a, b, ext, us) BY <1>3, <1>9
<1>10. CASE f = "spki" /\ h \in publicKeyToHandle(a, b, us) BY <1>4, <1>10
<1> QED BY <1>5, <1>6, <1>7, <1>8, <1>9, <1>10 DEF importUnwrappedKey

-----------------------------------------------------------------------------
(* Export.                                                                 *)

\* The fields of a handle that an encoding names.
LEMMA HandleText ==
    ASSUME NEW h, HandleOK(h)
    PROVE  /\ blobFam(h) \in Text /\ h.type \in Text /\ h.curve \in Text
           /\ blobFam(h) \in OKPAlgs \cup {"RSA"} => Blank(h.curve)
           /\ h.fam = "oct" <=> h.type = "secret"
<1>1. CASE h.fam = "oct"
  <2>1. h.fam \notin ECAlgs /\ "oct" \notin OKPAlgs \cup {"RSA"} BY <1>1 DEF ECAlgs, OKPAlgs
  <2>2. blobFam(h) = "oct" BY <1>1, <2>1 DEF blobFam
  <2>3. h.type = "secret" /\ h.curve \in Text BY <1>1 DEF HandleOK, ECAlgs, OKPAlgs
  <2> QED BY <1>1, <2>1, <2>2, <2>3, Words
<1>2. CASE h.fam = "RSA"
  <2>1. h.fam \notin ECAlgs BY <1>2 DEF ECAlgs
  <2>2. blobFam(h) = "RSA" BY <1>2, <2>1 DEF blobFam
  <2>3. h.type \in {"public", "private"} /\ h.curve \in Text /\ Blank(h.curve)
    BY <1>2 DEF HandleOK, ECAlgs, OKPAlgs
  <2> QED BY <1>2, <2>2, <2>3, Words
<1>3. CASE h.fam \in ECAlgs
  <2>1. h.fam # "oct" /\ h.fam # "RSA" /\ h.fam \notin OKPAlgs BY <1>3 DEF ECAlgs, OKPAlgs
  <2>2. blobFam(h) = "EC" /\ "EC" \notin OKPAlgs \cup {"RSA"} BY <1>3 DEF blobFam, OKPAlgs
  <2>3. h.type \in {"public", "private"} /\ h.curve \in Text BY <1>3, <2>1 DEF HandleOK
  <2> QED BY <2>1, <2>2, <2>3, Words
<1>4. CASE h.fam \in OKPAlgs
  <2>1. h.fam # "oct" /\ h.fam # "RSA" /\ h.fam \notin ECAlgs BY <1>4 DEF ECAlgs, OKPAlgs
  <2>2. blobFam(h) = h.fam BY <2>1 DEF blobFam
  <2>3. h.type \in {"public", "private"} /\ h.curve \in Text /\ Blank(h.curve) /\ h.fam \in Text
    BY <1>4, <2>1 DEF HandleOK
  <2> QED BY <2>1, <2>2, <2>3, Words
<1> QED BY <1>1, <1>2, <1>3, <1>4 DEF HandleOK

\* An encoding without layers is a good byte string, ...
LEMMA EncodedOK ==
    ASSUME NEW enc \in Text, NEW fam \in Text, NEW curve \in Text, NEW part \in Text, NEW t \in Term,
           NEW len \in Int, fam \in OKPAlgs \cup {"RSA"} => Blank(curve)
    PROVE  BytesOK(Encoded(enc, fam, curve, part, t, len))
<1> DEFINE b == Encoded(enc, fam, curve, part, t, len)
<1>1. b \in ByteString BY EncodedBytes
<1>2. b.enc = enc /\ b.fam = fam /\ b.curve = curve /\ b.part = part /\ b.t = t BY DEF Encoded
<1> QED BY <1>1, <1>2 DEF BytesOK

\* ... whatever its public half.
LEMMA WithPub ==
    ASSUME NEW e, BytesOK(e), NEW p \in Term
    PROVE  /\ BytesOK([e EXCEPT !.pub = p])
           /\ [e EXCEPT !.pub = p].enc = e.enc /\ [e EXCEPT !.pub = p].part = e.part
           /\ [e EXCEPT !.pub = p].t = e.t
<1> DEFINE b == [e EXCEPT !.pub = p]
<1>1. e \in ByteString BY DEF BytesOK
<1>2. b \in ByteString /\ b.enc = e.enc /\ b.fam = e.fam /\ b.curve = e.curve /\ b.part = e.part /\ b.t = e.t
  BY <1>1 DEF ByteString
<1> QED BY <1>2 DEF BytesOK

\* An export is of the handle's secret only for a secret handle, and of a public half
\* otherwise.
LEMMA Exported ==
    ASSUME NEW f, NEW h, HandleOK(h), NEW b \in exportKeyBytesForWrap(f, h)
    PROVE  /\ BytesOK(b)
           /\ b.part # "public" => IsSecret(h) /\ b.t = h.t
           /\ b.enc = "sec1" => b.part = "private"
<1>1. /\ blobFam(h) \in Text /\ h.type \in Text /\ h.curve \in Text
      /\ blobFam(h) \in OKPAlgs \cup {"RSA"} => Blank(h.curve)
      /\ h.fam = "oct" <=> h.type = "secret"
  BY HandleText
<1>2. h.t \in Term /\ h.pub \in Term /\ h.len \in Int /\ rawPublicLength(h) \in Int
  BY DEF HandleOK, rawPublicLength
<1> DEFINE Good == /\ BytesOK(b)
                   /\ b.part # "public" => IsSecret(h) /\ b.t = h.t
                   /\ b.enc = "sec1" => b.part = "private"
<1>3. ASSUME NEW enc \in {"raw", "jwk"}, HasSecretKey(h),
             b = Encoded(enc, "oct", "", "secret", h.t, h.len)
      PROVE  Good
  <2>1. "oct" \notin OKPAlgs \cup {"RSA"} BY DEF OKPAlgs
  <2>2. enc \in Text /\ "oct" \in Text /\ "" \in Text /\ "secret" \in Text BY Words
  <2>5. BytesOK(Encoded(enc, "oct", "", "secret", h.t, h.len)) BY <1>2, <2>1, <2>2, EncodedOK, Zenon
  <2>6. b.enc = enc /\ b.t = h.t BY <1>3 DEF Encoded
  <2>3. BytesOK(b) /\ b.enc = enc /\ b.t = h.t BY <1>3, <2>5, <2>6
  <2>4. h.type = "secret" BY <1>1, <1>3 DEF HasSecretKey
  <2> QED BY <2>3, <2>4 DEF IsSecret
<1>4. ASSUME NEW enc \in {"raw", "jwk", "pkcs1", "spki"}, NEW len \in Int, b = publicPart(enc, h, len)
      PROVE  Good
  <2>1. enc \in Text /\ "public" \in Text BY Words
  <2>2. b = Encoded(enc, blobFam(h), h.curve, "public", h.pub, len) BY <1>4 DEF publicPart
  <2>4. BytesOK(Encoded(enc, blobFam(h), h.curve, "public", h.pub, len))
    BY <1>1, <1>2, <2>1, EncodedOK, Zenon
  <2>5. b.enc = enc /\ b.part = "public" BY <2>2 DEF Encoded
  <2>3. BytesOK(b) /\ b.enc = enc /\ b.part = "public" BY <2>2, <2>4, <2>5
  <2> QED BY <2>3
<1>5. ASSUME NEW enc \in {"jwk", "pkcs1", "pkcs8", "sec1"}, h.type = "private", b = privatePart(enc, h)
      PROVE  Good
  <2> DEFINE e == Encoded(enc, blobFam(h), h.curve, "private", h.t, 0)
             p == IF enc = "pkcs8" /\ h.fam \in OKPAlgs THEN h.t ELSE h.pub
  <2>1. enc \in Text /\ "private" \in Text BY Words
  <2>2. b = [e EXCEPT !.pub = p] BY <1>5 DEF privatePart
  <2>3. p \in Term BY <1>2
  <2>6. 0 \in Int OBVIOUS
  <2>5. BytesOK(e) BY <1>1, <1>2, <2>1, <2>6, EncodedOK, Zenon
  <2>7. e.enc = enc /\ e.part = "private" /\ e.t = h.t BY DEF Encoded
  <2> HIDE DEF e, p
  <2>4. BytesOK(b) /\ b.enc = enc /\ b.part = "private" /\ b.t = h.t BY <2>2, <2>3, <2>5, <2>7, WithPub
  <2> QED BY <1>5, <2>4 DEF IsSecret
<1>6. ASSUME NEW enc \in {"jwk", "pkcs1"}, b = keyPart(enc, h)
      PROVE  Good
  BY <1>4, <1>5, <1>6 DEF keyPart
<1> HIDE DEF Good
<1>7. ASSUME f = "raw" PROVE Good
  <2>1. b \in exportRawKeyMaterial(h) BY <1>7 DEF exportKeyBytesForWrap
  <2>2. \/ HasSecretKey(h) /\ b = Encoded("raw", "oct", "", "secret", h.t, h.len)
        \/ b = publicPart("raw", h, rawPublicLength(h))
    BY <2>1 DEF exportRawKeyMaterial
  <2> QED BY <1>2, <1>3, <1>4, <2>2
<1>8. ASSUME f = "jwk" PROVE Good
  <2>1. b \in exportJWK(h) BY <1>8 DEF exportKeyBytesForWrap
  <2>2. \/ HasSecretKey(h) /\ b = Encoded("jwk", "oct", "", "secret", h.t, h.len)
        \/ b = keyPart("jwk", h)
    BY <2>1 DEF exportJWK
  <2> QED BY <1>3, <1>6, <2>2
<1>9. ASSUME f # "raw" /\ f # "jwk" PROVE Good
  <2>1. \/ h.type = "private" /\ b = privatePart("pkcs8", h)
        \/ b = keyPart("pkcs1", h)
        \/ h.type = "private" /\ b = privatePart("sec1", h)
        \/ b = publicPart("spki", h, 0)
    BY <1>9 DEF exportKeyBytesForWrap
  <2> QED BY <1>4, <1>5, <1>6, <2>1
<1> QED BY <1>7, <1>8, <1>9 DEF Good

-----------------------------------------------------------------------------
(* Signatures, encryption and derivation.                                  *)

\* A signature says nothing of the secret.
LEMMA SignatureOK ==
    ASSUME NEW a \in Algorithm, NEW k, HandleOK(k), NEW sig \in signData(a, k)
    PROVE  BytesOK(sig) /\ sig.t = k.t /\ sig.part = "public" /\ sig.enc = "sig"
<1> DEFINE e == Encoded("sig", k.fam, k.curve, "public", k.t, k.len)
           p == IF k.fam = "Ed25519" THEN k.pub ELSE k.t
           hash == IF a.name = "Ed25519" THEN "" ELSE hashNameForRSA(a, k)
<1>1. sig = signature(a, k, k.t) /\ canSign(a, k) BY DEF signData
<1>2. k.fam = signFam(a.name) /\ k.fam \in Text
  <2>1. k.fam = signFam(a.name) BY <1>1 DEF canSign
  <2>2. a.name \in Text BY DEF Algorithm
  <2>3. signFam(a.name) \in {"oct", "RSA", a.name} BY DEF signFam
  <2> QED BY <2>1, <2>2, <2>3, Words
<1>3. k.t \in Term /\ k.pub \in Term /\ k.len \in Int /\ k.curve \in Text BY DEF HandleOK
<1>4. k.fam \in OKPAlgs \cup {"RSA"} => Blank(k.curve) BY DEF HandleOK, OKPAlgs, ECAlgs
<1>5. e \in ByteString BY <1>2, <1>3, Words, EncodedBytes
<1>6. e.t = k.t /\ e.part = "public" /\ e.enc = "sig" /\ e.fam = k.fam /\ e.curve = k.curve BY DEF Encoded
<1>7. sig = [e EXCEPT !.alg = a.name, !.pub = p, !.hash = hash] BY <1>1 DEF signature
<1>10. hash \in Text
  <2>1. a.hash \in Text /\ k.hash \in Text BY DEF Algorithm, HandleOK
  <2>2. hashNameForRSA(a, k) \in {a.hash, k.hash, "SHA-256"} BY DEF hashNameForRSA
  <2> QED BY <2>1, <2>2, Words
<1>11. p \in Term BY <1>3
<1> HIDE DEF e, p, hash
<1>8. a.name \in Text BY DEF Algorithm
<1>9. sig \in ByteString /\ sig.t = e.t /\ sig.part = e.part /\ sig.enc = e.enc /\ sig.fam = e.fam /\ sig.curve = e.curve
  BY <1>5, <1>7, <1>8, <1>10, <1>11 DEF ByteString
<1> QED BY <1>4, <1>6, <1>9 DEF BytesOK

\* The byte string keeps its term, part, format and kind.
Keeps(c, b) == c.t = b.t /\ c.part = b.part /\ c.enc = b.enc

\* A layer of encryption put on or taken off keeps term, part and format.
LEMMA SealOpen ==
    ASSUME NEW a \in Algorithm, NEW k, HandleOK(k), NEW b, BytesOK(b)
    PROVE  /\ BytesOK(Seal(a, k, b)) /\ Keeps(Seal(a, k, b), b)
           /\ b.layers # <<>> => BytesOK(Open(b)) /\ Keeps(Open(b), b)
<1>1. b \in ByteString /\ (b.fam \in OKPAlgs \cup {"RSA"} => Blank(b.curve)) BY DEF BytesOK
<1>2. b.layers \in Seq(Layer) BY <1>1 DEF ByteString
<1>3. layer(a, k) \in Layer
  <2>1. /\ a.name \in Text /\ a.iv \in Text /\ a.hash \in Text /\ k.hash \in Text
        /\ k.t \in Term /\ k.len \in Int
    BY DEF Algorithm, HandleOK
  <2>2. hashNameForRSA(a, k) \in {a.hash, k.hash, "SHA-256"} BY DEF hashNameForRSA
  <2>3. hashNameForRSA(a, k) \in Text BY <2>1, <2>2, Words
  <2>6. ASSUME NEW hash \in Text, layer(a, k) = [alg |-> a.name, t |-> k.t, len |-> k.len, iv |-> a.iv, hash |-> hash]
        PROVE  layer(a, k) \in Layer
    BY <2>1, <2>6 DEF Layer
  <2>4. CASE a.name = "RSA-OAEP"
    <3>1. layer(a, k) = [alg |-> a.name, t |-> k.t, len |-> k.len, iv |-> a.iv, hash |-> hashNameForRSA(a, k)]
      BY <2>4 DEF layer
    <3> QED BY <2>3, <2>6, <3>1
  <2>5. CASE a.name # "RSA-OAEP"
    <3>1. layer(a, k) = [alg |-> a.name, t |-> k.t, len |-> k.len, iv |-> a.iv, hash |-> ""]
      BY <2>5 DEF layer
    <3>2. "" \in Text BY Words
    <3> QED BY <2>6, <3>1, <3>2
  <2> QED BY <2>4, <2>5
<1>4. ASSUME NEW ls \in Seq(Layer), NEW c, c = [b EXCEPT !.layers = ls]
      PROVE  BytesOK(c) /\ Keeps(c, b)
  <2>1. c \in ByteString /\ c.t = b.t /\ c.part = b.part /\ c.enc = b.enc /\ c.fam = b.fam /\ c.curve = b.curve
    BY <1>1, <1>4 DEF ByteString
  <2> QED BY <1>1, <2>1 DEF BytesOK, Keeps
<1>5. Append(b.layers, layer(a, k)) \in Seq(Layer) BY <1>2, <1>3
<1>6. b.layers # <<>> => SubSeq(b.layers, 1, Len(b.layers) - 1) \in Seq(Layer) BY <1>2
<1>7. Seal(a, k, b) = [b EXCEPT !.layers = Append(b.layers, layer(a, k))] BY DEF Seal
<1>8. Open(b) = [b EXCEPT !.layers = SubSeq(b.layers, 1, Len(b.layers) - 1)] BY DEF Open
<1>9. BytesOK(Seal(a, k, b)) /\ Keeps(Seal(a, k, b), b) BY <1>4, <1>5, <1>7
<1>10. b.layers # <<>> => BytesOK(Open(b)) /\ Keeps(Open(b), b) BY <1>4, <1>6, <1>8
<1> QED BY <1>9, <1>10

\* Derived bits are a good byte string of the derived term.
LEMMA DerivedOK ==
    ASSUME NEW t \in Term, NEW n \in Int
    PROVE  BytesOK(Derived(t, n)) /\ Derived(t, n).t = t
<1>1. Derived(t, n) = Encoded("raw", "oct", "", "secret", t, n) BY DEF Derived
<1>2. "oct" \notin OKPAlgs \cup {"RSA"} BY DEF OKPAlgs
<1>3. "raw" \in Text /\ "oct" \in Text /\ "" \in Text /\ "secret" \in Text BY Words
<1>4. BytesOK(Encoded("raw", "oct", "", "secret", t, n)) BY <1>2, <1>3, EncodedOK, Zenon
<1>5. Derived(t, n).t = t BY DEF Derived, Encoded
<1> QED BY <1>1, <1>4, <1>5

\* Encryption keeps term, part and format.
LEMMA Encrypted ==
    ASSUME NEW a \in Algorithm, NEW k, HandleOK(k), NEW b, BytesOK(b), NEW c \in encryptData(a, k, b)
    PROVE  BytesOK(c) /\ Keeps(c, b)
<1>1. c = Seal(a, k, b) \/ (c = Open(b) /\ b.layers # <<>>)
  BY DEF encryptData, encryptSecret, encryptRSA, ctrStream, IsUnder
<1> QED BY <1>1, SealOpen

\* Decryption gives what was encrypted, or other bytes.
LEMMA Decrypted ==
    ASSUME NEW a \in Algorithm, NEW k, HandleOK(k), NEW b, BytesOK(b), NEW c \in decryptData(a, k, b)
    PROVE  BytesOK(c) /\ (Keeps(c, b) \/ Len(c.t) > 1)
<1>1. CASE c = Seal(a, k, b) \/ (c = Open(b) /\ b.layers # <<>>) BY <1>1, SealOpen
<1>2. CASE c \in scrambled(a, k, b)
  <2> DEFINE word == <<"scrambled">>
  <2>1. word \in Term BY WordTerms, Words
  <2> HIDE DEF word
  <2>2. b.t \in Term /\ k.t \in Term BY DEF BytesOK, ByteString, HandleOK
  <2>3. b.t \o word \in Term BY <2>1, <2>2, LongTerm
  <2>4. b.t \o word \o k.t \in Term /\ Len(b.t \o word \o k.t) > 1 BY <2>2, <2>3, LongTerm
  <2>5. PICK n \in {8, 16, 24, 32} : c = Encoded("raw", "oct", "", "secret", b.t \o word \o k.t, n)
    BY <1>2 DEF scrambled, word
  <2>6. c = Derived(b.t \o word \o k.t, n) BY <2>5 DEF Derived
  <2> DEFINE t == b.t \o word \o k.t
  <2>7. n \in Int OBVIOUS
  <2>8. t \in Term /\ Len(t) > 1 /\ c = Derived(t, n) BY <2>4, <2>6
  <2> HIDE DEF t
  <2>9. BytesOK(c) /\ c.t = t BY <2>7, <2>8, DerivedOK
  <2> QED BY <2>8, <2>9
<1> QED BY <1>1, <1>2 DEF decryptData, decryptSecret, decryptRSA, ctrStream, IsUnder

\* A shared secret has a longer term than either key.
LEMMA SharedTerm ==
    ASSUME NEW t \in Term, NEW u \in Term
    PROVE  sharedTerm(t, u) \in Term /\ Len(sharedTerm(t, u)) > 1
<1> DEFINE x == CHOOSE z \in {t, u} : TRUE
           y == CHOOSE z \in {t, u} : {x, z} = {t, u}
           word == <<"shared">>
<1>1. x \in {t, u} OBVIOUS
<1> HIDE DEF x
<1>2. \E z \in {t, u} : {x, z} = {t, u} BY <1>1
<1>3. y \in {t, u} BY <1>2
<1> HIDE DEF y
<1>4. word \in Term BY WordTerms, Words
<1>5. sharedTerm(t, u) = word \o x \o y BY DEF sharedTerm, x, y
<1> HIDE DEF word
<1>6. word \o x \in Term BY <1>1, <1>4, LongTerm
<1>7. word \o x \o y \in Term /\ Len(word \o x \o y) > 1 BY <1>3, <1>6, LongTerm
<1> QED BY <1>5, <1>7

\* What is derived is longer than a value of the random stream.
LEMMA DerivedBits ==
    ASSUME NEW a \in Algorithm, NEW base, HandleOK(base), NEW peer, HandleOK(peer), NEW n \in Int,
           NEW b \in deriveBits(a, base, peer, n)
    PROVE  BytesOK(b) /\ Len(b.t) > 1
<1>1. base.t \in Term /\ peer.pub \in Term BY DEF HandleOK
<1>2. hashFromAlgorithmObject(a) \in Text BY HashNamed
<1>3. ASSUME NEW t \in Term, Len(t) > 1, b = Derived(t, n) PROVE BytesOK(b) /\ Len(b.t) > 1
  BY <1>3, DerivedOK
<1>4. CASE b \in deriveBitsPBKDF2(a, base, n)
  <2> DEFINE word == <<"PBKDF2", hashFromAlgorithmObject(a)>>
  <2>1. word \in Term BY <1>2, WordTerms, Words
  <2>2. b = Derived(base.t \o word, n) BY <1>4 DEF deriveBitsPBKDF2
  <2> HIDE DEF word
  <2> QED BY <1>1, <1>3, <2>1, <2>2, LongTerm
<1>5. CASE b \in deriveBitsHKDF(a, base, n)
  <2> DEFINE word == <<"HKDF", hashFromAlgorithmObject(a)>>
  <2>1. word \in Term BY <1>2, WordTerms, Words
  <2>2. b = Derived(base.t \o word, n) BY <1>5 DEF deriveBitsHKDF
  <2> HIDE DEF word
  <2> QED BY <1>1, <1>3, <2>1, <2>2, LongTerm
<1>6. CASE b \in deriveBitsECDH(a, base, peer, n)
  <2>1. b = Derived(sharedTerm(base.t, peer.pub), n) BY <1>6 DEF deriveBitsECDH
  <2> QED BY <1>1, <1>3, <2>1, SharedTerm
<1>7. CASE b \in deriveBitsX25519(a, base, peer, n)
  <2>1. b = Derived(sharedTerm(base.t, peer.pub), n) BY <1>7 DEF deriveBitsX25519
  <2> QED BY <1>1, <1>3, <2>1, SharedTerm
<1> QED BY <1>4, <1>5, <1>6, <1>7 DEF deriveBits

-----------------------------------------------------------------------------
(* Generation.                                                             *)

PairKind(a, fam, hash) ==
    \/ fam = "RSA" /\ hash = hashFromAlgorithmObject(a)
    \/ fam \in ECAlgs \cup OKPAlgs /\ a.name = fam /\ hash = ""

\* A half of a generated pair.
LEMMA PairOK ==
    ASSUME NEW a \in Algorithm, NEW t \in Term, NEW ext, NEW us, NEW fam, NEW hash,
           PairKind(a, fam, hash), NEW h \in keyPair(a, t, ext, us, fam, hash)
    PROVE  HandleOK(h) /\ h.t = t
<1>1. ASSUME NEW type \in {"public", "private"}, NEW e, NEW u,
             h = cryptoKeyHandle(type, a, e, u, fam, t, 0, hash)
      PROVE  HandleOK(h) /\ h.t = t
  <2>1. h.name = a.name /\ h.fam = fam /\ h.len = 0 /\ h.t = t BY <1>1 DEF cryptoKeyHandle
  <2>2. h.type = type BY <1>1 DEF cryptoKeyHandle
  <2>3. h.hash = hash BY <1>1 DEF cryptoKeyHandle
  <2>4. h.curve = IF h.fam \in ECAlgs THEN a.namedCurve ELSE "" BY <1>1 DEF cryptoKeyHandle
  <2>5. DOMAIN h = HandleFields /\ h.pub = t BY <1>1 DEF cryptoKeyHandle, HandleFields
  <2> QED BY <2>1, <2>2, <2>3, <2>4, <2>5, MadeHandle DEF PairKind
<1> QED BY <1>1 DEF keyPair

\* The one secret handle of a pair has the flag the call asked for.
LEMMA PairSecret ==
    ASSUME NEW a, NEW t, NEW ext, NEW us, NEW fam, NEW hash,
           NEW h \in keyPair(a, t, ext, us, fam, hash), IsSecret(h)
    PROVE  h = cryptoKeyHandle("private", a, ext, us[2], fam, t, 0, hash) /\ h.ext = ext
<1>1. h # cryptoKeyHandle("public", a, TRUE, us[1], fam, t, 0, hash)
  <2>1. ASSUME h = cryptoKeyHandle("public", a, TRUE, us[1], fam, t, 0, hash) PROVE h.type = "public"
    BY <2>1 DEF cryptoKeyHandle
  <2> QED BY <2>1 DEF IsSecret
<1>2. h = cryptoKeyHandle("private", a, ext, us[2], fam, t, 0, hash) BY <1>1 DEF keyPair
<1>3. h.ext = ext BY <1>2 DEF cryptoKeyHandle
<1> QED BY <1>2, <1>3

\* A length is right for its algorithm, and there is one.
LEMMA SecretLength ==
    ASSUME NEW a \in Algorithm, NEW n \in secretLength(a)
    PROVE  /\ n \in Int /\ rawSecretAllowed(a, n) /\ \A m \in secretLength(a) : m = n
           /\ a.name \in AESAlgs \cup {"DES-CBC", "3DES-CBC", "HMAC"}
<1>1. a.length \in Int BY DEF Algorithm
<1>2. CASE a.name \in AESAlgs
  <2>1. secretLength(a) = {m \in {16, 24, 32} : a.length = 8 * m} BY <1>2 DEF secretLength, AESAlgs
  <2>2. n \in {16, 24, 32} /\ a.length = 8 * n BY <2>1
  <2>3. rawSecretAllowed(a, n) BY <1>2, <2>2 DEF rawSecretAllowed, AESAlgs
  <2> QED BY <1>2, <2>1, <2>2, <2>3
<1>3. CASE a.name = "DES-CBC"
  <2>1. n = 8 /\ \A m \in secretLength(a) : m = 8 BY <1>3 DEF secretLength, AESAlgs
  <2>2. rawSecretAllowed(a, n) BY <1>3, <2>1 DEF rawSecretAllowed, AESAlgs
  <2> QED BY <1>3, <2>1, <2>2
<1>4. CASE a.name = "3DES-CBC"
  <2>1. secretLength(a) = {m \in {16, 24} : a.length = 8 * m \/ (a.length = 0 /\ m = 24)}
    BY <1>4 DEF secretLength, AESAlgs
  <2>2. n \in {16, 24} /\ \A m \in secretLength(a) : m = n BY <1>1, <2>1
  <2>3. rawSecretAllowed(a, n) BY <1>4, <2>2 DEF rawSecretAllowed, AESAlgs
  <2> QED BY <1>4, <2>2, <2>3
<1>5. CASE a.name = "HMAC"
  <2>1. n = (IF a.length > 0 THEN a.length \div 8 ELSE digestLengthBytes(hashFromAlgorithmObject(a)))
        /\ \A m \in secretLength(a) : m = n
    BY <1>5 DEF secretLength, AESAlgs
  <2>2. n \in Int
    <3>1. digestLengthBytes(hashFromAlgorithmObject(a)) \in Int BY DEF digestLengthBytes
    <3>2. a.length \div 8 \in Int BY <1>1
    <3> QED BY <2>1, <3>1, <3>2
  <2>3. rawSecretAllowed(a, n) BY <1>5 DEF rawSecretAllowed, AESAlgs
  <2> QED BY <1>5, <2>1, <2>2, <2>3
<1> QED BY <1>2, <1>3, <1>4, <1>5 DEF secretLength

\* The handles of a generateKey call hold its random value, and the secret ones are one.
LEMMA Generated ==
    ASSUME NEW a \in Algorithm, NEW t \in Term, NEW ext, NEW us, NEW h \in generated(a, t, ext, us)
    PROVE  /\ HandleOK(h) /\ h.t = t
           /\ IsSecret(h) => h.ext = ext
           /\ \A k \in generated(a, t, ext, us) : IsSecret(h) /\ IsSecret(k) => h = k
<1>1. CASE generateSecret(a, t, ext, us) # {}
  <2>14. secretLength(a) # {}
    <3>1. SUFFICES ASSUME secretLength(a) = {} PROVE FALSE OBVIOUS
    <3> QED BY <1>1, <3>1 DEF generateSecret
  <2>1. PICK n \in secretLength(a) : TRUE BY <2>14
  <2>2. /\ n \in Int /\ rawSecretAllowed(a, n) /\ \A m \in secretLength(a) : m = n
        /\ a.name \in AESAlgs \cup {"DES-CBC", "3DES-CBC", "HMAC"}
    BY <2>1, SecretLength
  <2>3. a.name \notin ECAlgs \cup OKPAlgs \cup RSAAlgs BY <2>2 DEF ECAlgs, OKPAlgs, RSAAlgs, AESAlgs
  <2>4. \A k \in generated(a, t, ext, us) : k \in generateSecret(a, t, ext, us)
    BY <2>3 DEF generated, generateEC, generateOKP, generateRSA
  <2>5. \A k \in generateSecret(a, t, ext, us) :
          k = cryptoKeyHandle("secret", a, ext, us, "oct", t, n,
                IF a.name = "HMAC" THEN hashFromAlgorithmObject(a) ELSE "")
    BY <2>2 DEF generateSecret
  <2>6. h = cryptoKeyHandle("secret", a, ext, us, "oct", t, n,
                IF a.name = "HMAC" THEN hashFromAlgorithmObject(a) ELSE "")
    BY <2>4, <2>5
  <2>7. "oct" \notin ECAlgs BY DEF ECAlgs
  <2>8. h.name = a.name /\ h.t = t /\ h.len = n /\ h.ext = ext BY <2>6 DEF cryptoKeyHandle
  <2>9. h.fam = "oct" /\ h.type = "secret" BY <2>6 DEF cryptoKeyHandle
  <2>10. h.curve = "" BY <2>6, <2>7 DEF cryptoKeyHandle
  <2>11. h.hash = IF a.name = "HMAC" THEN hashFromAlgorithmObject(a) ELSE "" BY <2>6 DEF cryptoKeyHandle
  <2>13. DOMAIN h = HandleFields /\ h.pub = t BY <2>6 DEF cryptoKeyHandle, HandleFields
  <2>12. HandleOK(h) BY <2>2, <2>8, <2>9, <2>10, <2>11, <2>13, SymmetricHandle
  <2> QED BY <2>4, <2>5, <2>6, <2>8, <2>12
<1>2. ASSUME NEW fam, NEW hash, NEW u,
             PairKind(a, fam, hash), generated(a, t, ext, us) = keyPair(a, t, ext, u, fam, hash)
      PROVE  /\ HandleOK(h) /\ h.t = t
             /\ IsSecret(h) => h.ext = ext
             /\ \A k \in generated(a, t, ext, us) : IsSecret(h) /\ IsSecret(k) => h = k
  <2>3. h \in keyPair(a, t, ext, u, fam, hash) BY <1>2
  <2>1. HandleOK(h) /\ h.t = t BY <1>2, <2>3, PairOK
  <2>2. \A k \in generated(a, t, ext, us) : IsSecret(k) =>
          k = cryptoKeyHandle("private", a, ext, u[2], fam, t, 0, hash) /\ k.ext = ext
    <3>1. ASSUME NEW k \in keyPair(a, t, ext, u, fam, hash), IsSecret(k)
          PROVE  k = cryptoKeyHandle("private", a, ext, u[2], fam, t, 0, hash) /\ k.ext = ext
      BY <3>1, PairSecret
    <3> QED BY <1>2, <3>1
  <2> QED BY <2>1, <2>2
<1>3. CASE a.name \in ECAlgs /\ a.namedCurve \in Curves /\ generateSecret(a, t, ext, us) = {}
  <2>1. a.name \notin OKPAlgs \cup RSAAlgs BY <1>3 DEF ECAlgs, OKPAlgs, RSAAlgs
  <2>2. generateOKP(a, t, ext, us) = {} BY <2>1 DEF generateOKP
  <2>3. generateRSA(a, t, ext, us) = {} BY <2>1 DEF generateRSA
  <2>4. generated(a, t, ext, us) = generateEC(a, t, ext, us) BY <1>3, <2>2, <2>3 DEF generated
  <2>5. generateEC(a, t, ext, us) = keyPair(a, t, ext, splitECUsages(a.name, us), a.name, "")
    BY <1>3 DEF generateEC
  <2>6. PairKind(a, a.name, "") BY <1>3 DEF PairKind
  <2> QED BY <1>2, <2>4, <2>5, <2>6
<1>4. CASE a.name \in OKPAlgs /\ generateSecret(a, t, ext, us) = {}
  <2>1. a.name \notin ECAlgs \cup RSAAlgs BY <1>4 DEF ECAlgs, OKPAlgs, RSAAlgs
  <2>2. generateEC(a, t, ext, us) = {} BY <2>1 DEF generateEC
  <2>3. generateRSA(a, t, ext, us) = {} BY <2>1 DEF generateRSA
  <2>4. generated(a, t, ext, us) = generateOKP(a, t, ext, us) BY <1>4, <2>2, <2>3 DEF generated
  <2>5. generateOKP(a, t, ext, us) = keyPair(a, t, ext, splitOKPUsages(a.name, us), a.name, "")
    BY <1>4 DEF generateOKP
  <2>6. PairKind(a, a.name, "") BY <1>4 DEF PairKind
  <2> QED BY <1>2, <2>4, <2>5, <2>6
<1>5. CASE a.name \in RSAAlgs /\ a.length >= 512 /\ generateSecret(a, t, ext, us) = {}
  <2>1. a.name \notin ECAlgs \cup OKPAlgs BY <1>5 DEF ECAlgs, OKPAlgs, RSAAlgs
  <2>2. generateEC(a, t, ext, us) = {} BY <2>1 DEF generateEC
  <2>3. generateOKP(a, t, ext, us) = {} BY <2>1 DEF generateOKP
  <2>4. generated(a, t, ext, us) = generateRSA(a, t, ext, us) BY <1>5, <2>2, <2>3 DEF generated
  <2>5. generateRSA(a, t, ext, us) =
          keyPair(a, t, ext, splitRSAUsages(a.name, us), "RSA", hashFromAlgorithmObject(a))
    BY <1>5 DEF generateRSA
  <2>6. PairKind(a, "RSA", hashFromAlgorithmObject(a)) BY DEF PairKind
  <2> QED BY <1>2, <2>4, <2>5, <2>6
<1> QED BY <1>1, <1>3, <1>4, <1>5 DEF generated, generateEC, generateOKP, generateRSA

-----------------------------------------------------------------------------
(* The invariant, step by step.                                            *)

\* Confined for the value i of the random stream.
ConfinedAt(i) ==
    \/ Secret(i) \in reached
    \/ \E h \in keys : IsSecret(h) /\ h.ext /\ h.t = Secret(i)
    \/ /\ \A b \in bytes : b.t = Secret(i) => b.part = "public"
       /\ \A h, k \in keys : IsSecret(h) /\ IsSecret(k) /\ h.t = Secret(i) /\ k.t = Secret(i) => h = k

\* Confined, one value of the stream at a time.
LEMMA ConfinedByValue == Confined <=> \A i \in DOMAIN RandomStream : ConfinedAt(i)
BY DEF Confined, ConfinedAt, Free, Secret

\* A byte string that the script can make keeps the invariant.
LEMMA AddBytes ==
    ASSUME CryptoInv, NEW b, Made(b), bytes' = bytes \cup {b}, UNCHANGED <<ids, keys, drawn, reached>>
    PROVE  CryptoInv'
<1> USE DEF CryptoInv
<1>1. (\A h \in keys : HandleOK(h))' BY DEF HandleOK
<1>2. (\A c \in bytes : BytesOK(c))' BY DEF Made, BytesOK
<1>3. ASSUME NEW i \in DOMAIN RandomStream, b.t = Secret(i)
      PROVE  \/ b.part = "public" /\ b.enc # "sec1"
             \/ \E h \in keys : h.t = b.t /\ h.ext /\ IsSecret(h) /\ (b.enc = "sec1" => b.part = "private")
             \/ \E c \in bytes : c.t = b.t /\ c.part = b.part /\ c.enc = b.enc
  BY <1>3 DEF Made, NotSecret
<1>4. Drawn' BY <1>3 DEF Drawn, Secret, IsSecret
<1>5. SEC1' BY <1>3 DEF SEC1, Secret
<1>6. Confined'
  <2>1. SUFFICES ASSUME NEW i \in DOMAIN RandomStream PROVE ConfinedAt(i)'
    BY DEF Confined, ConfinedAt, Free, Secret
  <2>2. ConfinedAt(i) BY ConfinedByValue
  <2> QED BY <2>2, <1>3 DEF ConfinedAt, Secret
<1> QED BY <1>1, <1>2, <1>4, <1>5, <1>6

\* So does a handle read from one.
LEMMA AddKey ==
    ASSUME CryptoInv, NEW b, Made(b), NEW h, ReadFrom(h, b), keys' = keys \cup {h},
           UNCHANGED <<ids, bytes, drawn, reached>>
    PROVE  CryptoInv'
<1> USE DEF CryptoInv
<1>1. (\A k \in keys : HandleOK(k))' BY DEF HandleOK, ReadFrom
<1>2. (\A c \in bytes : BytesOK(c))' BY DEF BytesOK
<1>3. ASSUME NEW i \in DOMAIN RandomStream, IsSecret(h), h.t = Secret(i)
      PROVE  i <= drawn /\ (Secret(i) \in reached \/ \E k \in keys : IsSecret(k) /\ k.ext /\ k.t = Secret(i))
  <2>1. ~NotSecret(h.t) BY <1>3 DEF NotSecret
  <2>2. b.t = Secret(i) /\ (b.part # "public" \/ b.enc = "sec1") BY <1>3, <2>1 DEF ReadFrom
  <2>3. ~NotSecret(b.t) BY <2>2 DEF NotSecret
  <2>4. i \in Int /\ drawn \in Int BY StreamIndex DEF Drawn
  <2>5. CASE \E k \in keys : k.t = b.t /\ k.ext /\ IsSecret(k)
    <3>1. PICK k \in keys : k.t = b.t /\ k.ext /\ IsSecret(k) BY <2>5
    <3>2. ~(i > drawn) BY <3>1, <2>2 DEF Drawn
    <3> QED BY <2>2, <2>4, <3>1, <3>2
  <2>6. CASE \E c \in bytes : c.t = b.t /\ c.part = b.part /\ c.enc = b.enc
    <3>1. PICK c \in bytes : c.t = b.t /\ c.part = b.part /\ c.enc = b.enc BY <2>6
    <3>2. c.part # "public" BY <2>2, <3>1 DEF SEC1
    <3>3. ~(i > drawn) BY <3>1, <3>2, <2>2 DEF Drawn
    <3>4. ConfinedAt(i) BY ConfinedByValue
    <3> QED BY <2>2, <2>4, <3>1, <3>2, <3>3, <3>4 DEF ConfinedAt
  <2> QED BY <2>2, <2>3, <2>5, <2>6 DEF Made
<1>4. Drawn'
  <2>1. ASSUME NEW i \in DOMAIN RandomStream, i > drawn
        PROVE  /\ \A k \in keys' : IsSecret(k) => k.t # Secret(i)
               /\ \A c \in bytes' : c.part # "public" => c.t # Secret(i)
    <3>1. i \in Int /\ drawn \in Int BY StreamIndex DEF Drawn
    <3>2. ~(i <= drawn) BY <2>1, <3>1
    <3>3. IsSecret(h) => h.t # Secret(i) BY <1>3, <3>2
    <3> QED BY <2>1, <3>3 DEF Drawn
  <2> QED BY <2>1 DEF Drawn, Secret, IsSecret
<1>5. SEC1' BY DEF SEC1, Secret
<1>6. Confined'
  <2>1. SUFFICES ASSUME NEW i \in DOMAIN RandomStream PROVE ConfinedAt(i)'
    BY DEF Confined, ConfinedAt, Free, Secret
  <2>2. ConfinedAt(i) BY ConfinedByValue
  <2> QED BY <2>2, <1>3 DEF ConfinedAt, Secret, IsSecret
<1> QED BY <1>1, <1>2, <1>4, <1>5, <1>6

\* The value drawn is nowhere yet, and the one secret handle of it is the script's only one.
LEMMA AddGenerated ==
    ASSUME CryptoInv, subtleGenerateKey
    PROVE  CryptoInv'
<1> USE DEF CryptoInv
<1>1. PICK a \in ids, ext \in BOOLEAN, us \in UsageSets :
        /\ drawn < Len(RandomStream) /\ drawn' = drawn + 1
        /\ keys' = keys \cup generated(a, <<RandomStream[drawn']>>, ext, us)
        /\ UNCHANGED <<ids, bytes, reached>>
  BY DEF subtleGenerateKey
<1> DEFINE n == drawn + 1
           new == generated(a, Secret(n), ext, us)
<1>2. n \in DOMAIN RandomStream /\ drawn \in Int /\ n \in 0..Len(RandomStream) /\ drawn' = n
  BY <1>1, StreamIndex DEF Drawn
<1>3. keys' = keys \cup new BY <1>1, <1>2 DEF Secret
<1> HIDE DEF n
<1>4. Secret(n) \in Term BY <1>2, SecretTerm
<1>5. a \in Algorithm BY <1>1
<1>6. \A h \in new : /\ HandleOK(h) /\ h.t = Secret(n)
                     /\ IsSecret(h) => h.ext = ext
                     /\ \A k \in new : IsSecret(h) /\ IsSecret(k) => h = k
  BY <1>4, <1>5, Generated
<1> HIDE DEF new
<1>7. (\A h \in keys : HandleOK(h))' BY <1>3, <1>6 DEF HandleOK
<1>8. (\A b \in bytes : BytesOK(b))' BY <1>1 DEF BytesOK
<1>9. n > drawn BY <1>2 DEF n
<1>10. /\ \A h \in keys : IsSecret(h) => h.t # Secret(n)
       /\ \A b \in bytes : b.part # "public" => b.t # Secret(n)
  BY <1>2, <1>9 DEF Drawn
<1>11. \A i \in DOMAIN RandomStream : i > n => i > drawn /\ i # n BY <1>2, StreamIndex DEF n
<1>12. \A i \in DOMAIN RandomStream : i # n => Secret(i) # Secret(n) BY <1>2, SecretsDiffer
<1>13. Drawn'
  <2>1. ASSUME NEW i \in DOMAIN RandomStream, i > n
        PROVE  /\ \A h \in keys' : IsSecret(h) => h.t # Secret(i)
               /\ \A b \in bytes' : b.part # "public" => b.t # Secret(i)
    <3>1. Secret(i) # Secret(n) /\ i > drawn BY <2>1, <1>11, <1>12
    <3> QED BY <3>1, <1>1, <1>3, <1>6 DEF Drawn
  <2> QED BY <1>2, <2>1 DEF Drawn, Secret, IsSecret
<1>14. SEC1' BY <1>1 DEF SEC1, Secret
<1>15. Confined'
  <2>1. SUFFICES ASSUME NEW i \in DOMAIN RandomStream PROVE ConfinedAt(i)'
    BY DEF Confined, ConfinedAt, Free, Secret
  <2>2. ConfinedAt(i) BY ConfinedByValue
  <2>3. CASE i = n
    <3>1. \A b \in bytes' : b.t = Secret(i) => b.part = "public" BY <1>1, <1>10, <2>3
    <3>2. \A h, k \in keys' : IsSecret(h) /\ IsSecret(k) /\ h.t = Secret(i) /\ k.t = Secret(i) => h = k
      BY <1>3, <1>6, <1>10, <2>3
    <3> QED BY <3>1, <3>2 DEF ConfinedAt, IsSecret, Secret
  <2>4. CASE i # n
    <3>1. \A h \in new : h.t # Secret(i) BY <1>6, <1>12, <2>4
    <3> QED BY <3>1, <1>1, <1>3, <2>2 DEF ConfinedAt, IsSecret, Secret
  <2> QED BY <2>3, <2>4
<1> QED BY <1>1, <1>7, <1>8, <1>13, <1>14, <1>15

\* deriveKey asks for a number of bits.
LEMMA DerivedLength ==
    ASSUME NEW a \in Algorithm, NEW bits \in deriveKeyLengthBits(a)
    PROVE  bits \in Int
<1>1. a.length \in Int BY DEF Algorithm
<1>2. digestLengthBytes(hashFromAlgorithmObject(a)) \in Int BY DEF digestLengthBytes
<1>3. bits \in {64, 192, 128, a.length, 8 * digestLengthBytes(hashFromAlgorithmObject(a))}
  BY DEF deriveKeyLengthBits
<1> QED BY <1>1, <1>2, <1>3

\* What the script holds it can make.
LEMMA HeldIsMade ==
    ASSUME CryptoInv, NEW b \in bytes
    PROVE  Made(b)
BY DEF CryptoInv, Made

\* What is made from a byte string that can be made can be made.
LEMMA KeptIsMade ==
    ASSUME NEW b, Made(b), NEW c, BytesOK(c), Keeps(c, b) \/ Len(c.t) > 1
    PROVE  Made(c)
BY LongIsNotSecret DEF Made, Keeps

\* The export of an extractable handle can be made.
LEMMA ExportIsMade ==
    ASSUME CryptoInv, NEW f, NEW h \in keys, h.ext, NEW b \in exportKeyBytesForWrap(f, h)
    PROVE  Made(b)
<1>1. HandleOK(h) BY DEF CryptoInv
<1>2. /\ BytesOK(b) /\ (b.part # "public" => IsSecret(h) /\ b.t = h.t)
      /\ (b.enc = "sec1" => b.part = "private")
  BY <1>1, Exported
<1> QED BY <1>2 DEF Made

\* A secret read from the Go handle counts as reached.
LEMMA ReadSlot ==
    ASSUME CryptoInv, readHandleSlot
    PROVE  CryptoInv'
<1> USE DEF CryptoInv
<1>1. PICK h \in keys : /\ IsSecret(h) /\ (h.fam = "oct" => h.len > 0)
        /\ bytes' = bytes \cup {slotBytes(h)} /\ reached' = reached \cup {h.t}
        /\ UNCHANGED <<ids, keys, drawn>>
  BY DEF readHandleSlot
<1> DEFINE b == slotBytes(h)
<1>2. HandleOK(h) OBVIOUS
<1>3. BytesOK(b) /\ b.t = h.t /\ b.part # "public" /\ b.enc # "sec1"
  <2>1. h.t \in Term /\ h.len \in Int /\ "raw" \in Text /\ "oct" \in Text /\ "secret" \in Text
        /\ "" \in Text /\ "private" \in Text
    BY <1>2, Words DEF HandleOK
  <2>2. /\ blobFam(h) \in Text /\ h.curve \in Text
        /\ blobFam(h) \in OKPAlgs \cup {"RSA"} => Blank(h.curve)
    BY <1>2, HandleText
  <2>3. CASE h.fam = "oct"
    <3>1. b = Encoded("raw", "oct", "", "secret", h.t, h.len) BY <2>3 DEF slotBytes
    <3>2. "oct" \notin OKPAlgs \cup {"RSA"} BY DEF OKPAlgs
    <3>3. BytesOK(Encoded("raw", "oct", "", "secret", h.t, h.len)) BY <2>1, <3>2, EncodedOK, Zenon
    <3>4. b.t = h.t /\ b.part = "secret" /\ b.enc = "raw" BY <2>3 DEF slotBytes, Encoded
    <3> QED BY <3>1, <3>3, <3>4
  <2>4. CASE h.fam # "oct"
    <3> DEFINE n == IF h.fam \in OKPAlgs THEN 32 ELSE 1
    <3>1. b = Encoded("raw", blobFam(h), h.curve, "private", h.t, n) BY <2>4 DEF slotBytes
    <3>2. n \in Int OBVIOUS
    <3>4. b.t = h.t /\ b.part = "private" /\ b.enc = "raw" BY <2>4 DEF slotBytes, Encoded
    <3> HIDE DEF n
    <3>3. BytesOK(Encoded("raw", blobFam(h), h.curve, "private", h.t, n))
      BY <2>1, <2>2, <3>2, EncodedOK, Zenon
    <3> QED BY <3>1, <3>3, <3>4
  <2> QED BY <2>3, <2>4
<1>4. bytes' = bytes \cup {b} BY <1>1
<1> HIDE DEF b
<1>5. (\A k \in keys : HandleOK(k))' BY <1>1 DEF HandleOK
<1>6. (\A c \in bytes : BytesOK(c))' BY <1>3, <1>4 DEF BytesOK
<1>7. Drawn' BY <1>1, <1>3, <1>4 DEF Drawn, Secret, IsSecret
<1>8. SEC1' BY <1>3, <1>4 DEF SEC1, Secret
<1>9. Confined'
  <2>1. SUFFICES ASSUME NEW i \in DOMAIN RandomStream PROVE ConfinedAt(i)'
    BY DEF Confined, ConfinedAt, Free, Secret
  <2>2. ConfinedAt(i) BY ConfinedByValue
  <2> QED BY <2>2, <1>1, <1>3, <1>4 DEF ConfinedAt, Secret, IsSecret
<1> QED BY <1>1, <1>5, <1>6, <1>7, <1>8, <1>9

\* So does the secret of a handle whose Extractable is set.
LEMMA SetSlot ==
    ASSUME CryptoInv, setHandleSlot
    PROVE  CryptoInv'
<1> USE DEF CryptoInv
<1>1. PICK h \in keys :
        /\ keys' = (keys \ {h}) \cup {[h EXCEPT !.ext = ~h.ext]}
        /\ reached' = IF IsSecret(h) THEN reached \cup {h.t} ELSE reached
        /\ UNCHANGED <<ids, bytes, drawn>>
  BY DEF setHandleSlot
<1> DEFINE k == [h EXCEPT !.ext = ~h.ext]
<1>2. HandleOK(h) OBVIOUS
<1>3. /\ k.type = h.type /\ k.name = h.name /\ k.fam = h.fam /\ k.curve = h.curve /\ k.t = h.t
      /\ k.pub = h.pub /\ k.len = h.len /\ k.hash = h.hash /\ DOMAIN k = HandleFields
  BY <1>2 DEF HandleOK, HandleFields
<1>4. keys' = (keys \ {h}) \cup {k} BY <1>1
<1> HIDE DEF k
<1>5. HandleOK(k)
  <2>1. rawSecretAllowed(h, h.len) => rawSecretAllowed(k, k.len) BY <1>3 DEF rawSecretAllowed
  <2> QED BY <1>2, <1>3, <2>1 DEF HandleOK
<1>6. IsSecret(k) <=> IsSecret(h) BY <1>3 DEF IsSecret
<1>7. (\A g \in keys : HandleOK(g))' BY <1>4, <1>5 DEF HandleOK
<1>8. (\A c \in bytes : BytesOK(c))' BY <1>1 DEF BytesOK
<1>9. Drawn' BY <1>1, <1>3, <1>4, <1>6 DEF Drawn, Secret, IsSecret
<1>10. SEC1' BY <1>1 DEF SEC1, Secret
<1>11. Confined'
  <2>1. SUFFICES ASSUME NEW i \in DOMAIN RandomStream PROVE ConfinedAt(i)'
    BY DEF Confined, ConfinedAt, Free, Secret
  <2>2. ConfinedAt(i) BY ConfinedByValue
  <2>3. CASE IsSecret(h) /\ h.t = Secret(i) BY <1>1, <2>3 DEF ConfinedAt, Secret
  <2>4. CASE ~(IsSecret(h) /\ h.t = Secret(i))
    BY <2>2, <2>4, <1>1, <1>3, <1>4, <1>6 DEF ConfinedAt, Secret, IsSecret
  <2> QED BY <2>3, <2>4
<1> QED BY <1>1, <1>7, <1>8, <1>9, <1>10, <1>11

\* Every step keeps the invariant.
LEMMA CryptoStep ==
    ASSUME CryptoInv, [CryptoNext]_cryptoVars
    PROVE  CryptoInv'
<1>1. \A a \in ids : a \in Algorithm BY DEF CryptoInv
<1>2. \A k \in keys : HandleOK(k) BY DEF CryptoInv
<1>3. CASE subtleGenerateKey BY <1>3, AddGenerated
<1>4. CASE subtleImportKey
  <2>1. PICK f \in Formats, a \in ids, b \in bytes, ext \in BOOLEAN, us \in UsageSets :
          \E h \in importUnwrappedKey(f, a, b, ext, us) :
            keys' = keys \cup {h} /\ UNCHANGED <<ids, bytes, drawn, reached>>
    BY <1>4 DEF subtleImportKey
  <2>2. PICK h \in importUnwrappedKey(f, a, b, ext, us) :
            keys' = keys \cup {h} /\ UNCHANGED <<ids, bytes, drawn, reached>>
    BY <2>1
  <2>3. Made(b) /\ BytesOK(b) BY HeldIsMade DEF Made
  <2>4. ReadFrom(h, b) BY <1>1, <2>3, ReadHandle
  <2> QED BY <2>2, <2>3, <2>4, AddKey
<1>5. CASE subtleExportKey
  <2>1. PICK f \in Formats, h \in keys : /\ h.ext
          /\ \E b \in exportKeyBytesForWrap(f, h) : bytes' = bytes \cup {b}
          /\ UNCHANGED <<ids, keys, drawn, reached>>
    BY <1>5 DEF subtleExportKey
  <2>2. PICK b \in exportKeyBytesForWrap(f, h) : bytes' = bytes \cup {b} BY <2>1
  <2>3. Made(b) BY <2>1, ExportIsMade
  <2> QED BY <2>1, <2>2, <2>3, AddBytes
<1>6. CASE subtleSign
  <2>1. PICK a \in ids, k \in keys : /\ \E sig \in signData(a, k) : bytes' = bytes \cup {sig}
          /\ UNCHANGED <<ids, keys, drawn, reached>>
    BY <1>6 DEF subtleSign
  <2>2. PICK sig \in signData(a, k) : bytes' = bytes \cup {sig} BY <2>1
  <2>3. BytesOK(sig) /\ sig.t = k.t /\ sig.part = "public" /\ sig.enc = "sig" BY <1>1, <1>2, SignatureOK
  <2>4. Made(sig) BY <2>3 DEF Made
  <2> QED BY <2>1, <2>2, <2>4, AddBytes
<1>7. CASE subtleEncrypt
  <2>1. PICK a \in ids, k \in keys, b \in bytes :
          /\ \E c \in encryptData(a, k, b) : bytes' = bytes \cup {c}
          /\ UNCHANGED <<ids, keys, drawn, reached>>
    BY <1>7 DEF subtleEncrypt
  <2>2. PICK c \in encryptData(a, k, b) : bytes' = bytes \cup {c} BY <2>1
  <2>3. Made(b) /\ BytesOK(b) BY HeldIsMade DEF Made
  <2>4. Made(c) BY <1>1, <1>2, <2>3, Encrypted, KeptIsMade
  <2> QED BY <2>1, <2>2, <2>4, AddBytes
<1>8. CASE subtleDecrypt
  <2>1. PICK a \in ids, k \in keys, b \in bytes :
          /\ \E c \in decryptData(a, k, b) : bytes' = bytes \cup {c}
          /\ UNCHANGED <<ids, keys, drawn, reached>>
    BY <1>8 DEF subtleDecrypt
  <2>2. PICK c \in decryptData(a, k, b) : bytes' = bytes \cup {c} BY <2>1
  <2>3. Made(b) /\ BytesOK(b) BY HeldIsMade DEF Made
  <2>4. Made(c) BY <1>1, <1>2, <2>3, Decrypted, KeptIsMade
  <2> QED BY <2>1, <2>2, <2>4, AddBytes
<1>9. CASE subtleDeriveBits
  <2>1. PICK a \in ids, base \in keys, peer \in keys, bits \in BitLengths :
          /\ \E b \in deriveBits(a, base, peer, bits \div 8) : bytes' = bytes \cup {b}
          /\ UNCHANGED <<ids, keys, drawn, reached>>
    BY <1>9 DEF subtleDeriveBits
  <2>2. PICK b \in deriveBits(a, base, peer, bits \div 8) : bytes' = bytes \cup {b} BY <2>1
  <2>3. bits \in Int BY CallAssumption
  <2>4. bits \div 8 \in Int BY <2>3
  <2>5. BytesOK(b) /\ Len(b.t) > 1 BY <1>1, <1>2, <2>4, DerivedBits
  <2>6. Made(b) BY <2>5, LongIsNotSecret DEF Made
  <2> QED BY <2>1, <2>2, <2>6, AddBytes
<1>10. CASE subtleDeriveKey
  <2>1. PICK a \in ids, d \in ids, base \in keys, peer \in keys, ext \in BOOLEAN, us \in UsageSets :
          \E bits \in deriveKeyLengthBits(d) : \E b \in deriveBits(a, base, peer, bits \div 8) :
            \E h \in importRawKey(d, b, ext, us) :
              keys' = keys \cup {h} /\ UNCHANGED <<ids, bytes, drawn, reached>>
    BY <1>10 DEF subtleDeriveKey
  <2>2. PICK bits \in deriveKeyLengthBits(d) : \E b \in deriveBits(a, base, peer, bits \div 8) :
            \E h \in importRawKey(d, b, ext, us) :
              keys' = keys \cup {h} /\ UNCHANGED <<ids, bytes, drawn, reached>>
    BY <2>1
  <2>3. PICK b \in deriveBits(a, base, peer, bits \div 8) : \E h \in importRawKey(d, b, ext, us) :
              keys' = keys \cup {h} /\ UNCHANGED <<ids, bytes, drawn, reached>>
    BY <2>2
  <2>4. PICK h \in importRawKey(d, b, ext, us) : keys' = keys \cup {h} /\ UNCHANGED <<ids, bytes, drawn, reached>>
    BY <2>3
  <2>5. bits \in Int BY <1>1, DerivedLength
  <2>6. bits \div 8 \in Int BY <2>5
  <2>7. BytesOK(b) /\ Len(b.t) > 1 BY <1>1, <1>2, <2>6, DerivedBits
  <2>8. Made(b) BY <2>7, LongIsNotSecret DEF Made
  <2>9. ReadFrom(h, b) BY <1>1, <2>7, ReadRaw DEF ReadFrom
  <2> QED BY <2>4, <2>8, <2>9, AddKey
<1>11. CASE subtleWrapKey
  <2>1. PICK f \in Formats, h \in keys, w \in keys, a \in ids : /\ h.ext
          /\ \E b \in exportKeyBytesForWrap(f, h) : \E c \in encryptData(a, w, b) : bytes' = bytes \cup {c}
          /\ UNCHANGED <<ids, keys, drawn, reached>>
    BY <1>11 DEF subtleWrapKey
  <2>2. PICK b \in exportKeyBytesForWrap(f, h) : \E c \in encryptData(a, w, b) : bytes' = bytes \cup {c}
    BY <2>1
  <2>3. PICK c \in encryptData(a, w, b) : bytes' = bytes \cup {c} BY <2>2
  <2>4. Made(b) /\ BytesOK(b) BY <2>1, ExportIsMade DEF Made
  <2>5. Made(c) BY <1>1, <1>2, <2>4, Encrypted, KeptIsMade
  <2> QED BY <2>1, <2>3, <2>5, AddBytes
<1>12. CASE subtleUnwrapKey
  <2>1. PICK f \in Formats, c \in bytes, w \in keys, a \in ids, d \in ids, ext \in BOOLEAN, us \in UsageSets :
          \E b \in decryptData(a, w, c) : \E h \in importUnwrappedKey(f, d, b, ext, us) :
            keys' = keys \cup {h} /\ UNCHANGED <<ids, bytes, drawn, reached>>
    BY <1>12 DEF subtleUnwrapKey
  <2>2. PICK b \in decryptData(a, w, c) : \E h \in importUnwrappedKey(f, d, b, ext, us) :
            keys' = keys \cup {h} /\ UNCHANGED <<ids, bytes, drawn, reached>>
    BY <2>1
  <2>3. PICK h \in importUnwrappedKey(f, d, b, ext, us) :
            keys' = keys \cup {h} /\ UNCHANGED <<ids, bytes, drawn, reached>>
    BY <2>2
  <2>4. Made(c) /\ BytesOK(c) BY HeldIsMade DEF Made
  <2>5. Made(b) /\ BytesOK(b) BY <1>1, <1>2, <2>4, Decrypted, KeptIsMade
  <2>6. ReadFrom(h, b) BY <1>1, <2>5, ReadHandle
  <2> QED BY <2>3, <2>5, <2>6, AddKey
<1>13. CASE readHandleSlot BY <1>13, ReadSlot
<1>14. CASE setHandleSlot BY <1>14, SetSlot
<1>15. CASE UNCHANGED cryptoVars
  BY <1>15 DEF cryptoVars, CryptoInv, Drawn, SEC1, Confined, Free, Secret, HandleOK, BytesOK, IsSecret
<1> QED BY <1>3, <1>4, <1>5, <1>6, <1>7, <1>8, <1>9, <1>10, <1>11, <1>12, <1>13, <1>14, <1>15 DEF CryptoNext

\* The invariant holds before the first call.
LEMMA CryptoStart ==
    ASSUME CryptoInit
    PROVE  CryptoInv
<1>1. ids \in Scripts /\ keys = {} /\ bytes \subseteq Outside /\ drawn = 0 BY DEF CryptoInit, Outside
<1>2. ids \subseteq Algorithm BY <1>1, CallAssumption
<1>3. \A b \in bytes : BytesOK(b)
  <2>1. \A b \in bytes : b \in ByteString /\ (b.fam \in {"RSA", "Ed25519", "X25519"} => Blank(b.curve))
    BY <1>1, FreshAssumption DEF Blank
  <2> QED BY <2>1 DEF BytesOK, OKPAlgs
<1>4. \A b \in bytes, i \in DOMAIN RandomStream : b.t # Secret(i) BY <1>1, FreshAssumption DEF Secret
<1>5. Drawn
  <2>1. Len(RandomStream) \in Nat BY StreamIndex
  <2> QED BY <1>1, <1>4, <2>1 DEF Drawn
<1>6. SEC1 BY <1>4 DEF SEC1
<1>7. Confined BY <1>1, <1>4, ConfinedByValue DEF ConfinedAt
<1> QED BY <1>1, <1>2, <1>3, <1>5, <1>6, <1>7 DEF CryptoInv

\* The calls let the secret of a generated key out only where a handle of it is
\* extractable, in every program over any algorithm objects, formats, usages and outside
\* bytes: subtle_api.go's checks in exportKey and wrapKey are enough.  The exception is
\* the one the property names: the Go handle in the slot of a CryptoKey
\* (runtime_helpers.go:274), which a script can read and write.
THEOREM SecretsStayConfined == CryptoSpec => []Confined
<1>1. CryptoInit => CryptoInv BY CryptoStart
<1>2. CryptoInv /\ [CryptoNext]_cryptoVars => CryptoInv' BY CryptoStep
<1>3. CryptoInv => Confined BY DEF CryptoInv
<1> QED BY <1>1, <1>2, <1>3, PTL DEF CryptoSpec

-----------------------------------------------------------------------------
(* Signatures.                                                             *)

\* The two copies of the choice of the hash agree.
LEMMA SameHash ==
    ASSUME NEW a, NEW h, NEW k
    PROVE  hashNameForRSA(a, k) = hashNameForRSA(a, h) <=>
             a.hash # "" \/ k.hash = h.hash \/ {k.hash, h.hash} = {"", "SHA-256"}
<1>1. CASE a.hash # "" BY <1>1 DEF hashNameForRSA
<1>2. CASE a.hash = ""
  <2>1. hashNameForRSA(a, k) = (IF k.hash # "" THEN k.hash ELSE "SHA-256") BY <1>2 DEF hashNameForRSA
  <2>2. hashNameForRSA(a, h) = (IF h.hash # "" THEN h.hash ELSE "SHA-256") BY <1>2 DEF hashNameForRSA
  <2>3. {k.hash, h.hash} = {"", "SHA-256"} <=>
          \/ k.hash = "" /\ h.hash = "SHA-256"
          \/ k.hash = "SHA-256" /\ h.hash = ""
    OBVIOUS
  <2> QED BY <1>2, <2>1, <2>2, <2>3
<1> QED BY <1>1, <1>2

\* The hash that a signature is made with.
SignedHash(a, k) == IF a.name = "Ed25519" THEN "" ELSE hashNameForRSA(a, k)

\* The public half that a signature is over.
SignedPub(k, t) == IF k.fam = "Ed25519" THEN k.pub ELSE t

\* The fields of a signature.
LEMMA SignatureFields ==
    ASSUME NEW a, NEW k, NEW t
    PROVE  signature(a, k, t) =
             [enc |-> "sig", fam |-> k.fam, curve |-> k.curve, part |-> "public", t |-> t,
              pub |-> SignedPub(k, t), len |-> k.len,
              alg |-> a.name, hash |-> SignedHash(a, k), layers |-> <<>>]
<1>1. signature(a, k, t) = [Encoded("sig", k.fam, k.curve, "public", t, k.len)
                              EXCEPT !.alg = a.name, !.pub = SignedPub(k, t), !.hash = SignedHash(a, k)]
  BY DEF signature, SignedHash, SignedPub
<1> QED BY <1>1 DEF Encoded

\* Signatures are equal where the material and the hash are.
LEMMA SameSignature ==
    ASSUME NEW a, NEW h, NEW k, NEW t, NEW u
    PROVE  signature(a, h, t) = signature(a, k, u) <=>
             /\ k.fam = h.fam /\ u = t /\ k.len = h.len /\ k.curve = h.curve
             /\ SignedPub(k, u) = SignedPub(h, t)
             /\ a.name = "Ed25519" \/ hashNameForRSA(a, k) = hashNameForRSA(a, h)
<1>1. signature(a, h, t) = signature(a, k, u) <=>
        /\ k.fam = h.fam /\ u = t /\ k.len = h.len /\ k.curve = h.curve
        /\ SignedPub(k, u) = SignedPub(h, t)
        /\ SignedHash(a, k) = SignedHash(a, h)
  BY SignatureFields
<1>2. SignedHash(a, k) = SignedHash(a, h) <=> a.name = "Ed25519" \/ hashNameForRSA(a, k) = hashNameForRSA(a, h)
  BY DEF SignedHash
<1> QED BY <1>1, <1>2

\* Verification through the public half of the signing secret, from the definitions
\* alone.
LEMMA OwnVerified == VerifiesOwn
<1> SUFFICES ASSUME NEW a \in ids, NEW h \in keys, NEW sig \in signData(a, h), NEW k \in keys
             PROVE  verifyData(a, k, sig) <=>
                      /\ k.fam = h.fam /\ k.pub = h.t /\ k.len = h.len /\ k.curve = h.curve
                      /\ h.fam = "Ed25519" => h.pub = h.t
                      /\ a.name = "Ed25519" \/ a.hash # "" \/ k.hash = h.hash
                             \/ {k.hash, h.hash} = {"", "SHA-256"}
  BY DEF VerifiesOwn
<1>1. canSign(a, h) /\ sig = signature(a, h, h.t) BY DEF signData
<1>2. /\ a.name \in {"HMAC", "RSASSA-PKCS1-V1_5", "RSA-PSS", "ECDSA", "Ed25519"}
      /\ h.fam = signFam(a.name) /\ (h.fam = "oct" => h.len > 0)
  BY <1>1 DEF canSign
<1> DEFINE verified == verifyData(a, k, sig)
           same == k.fam = h.fam /\ k.pub = h.t /\ k.len = h.len /\ k.curve = h.curve
           halves == h.fam = "Ed25519" => h.pub = h.t
           equal == hashNameForRSA(a, k) = hashNameForRSA(a, h)
           alike == a.hash # "" \/ k.hash = h.hash \/ {k.hash, h.hash} = {"", "SHA-256"}
<1>3. sig = signature(a, k, k.pub) <=>
        same /\ SignedPub(k, k.pub) = SignedPub(h, h.t) /\ (a.name = "Ed25519" \/ equal)
  BY <1>1, SameSignature
<1>4. verified <=> sig = signature(a, k, k.pub) BY <1>2, <1>3 DEF verifyData
<1>5. equal <=> alike BY SameHash
<1>6. same => (SignedPub(k, k.pub) = SignedPub(h, h.t) <=> halves) BY DEF SignedPub
<1>7. verified <=> same /\ halves /\ (a.name = "Ed25519" \/ alike)
  <2> HIDE DEF verified, same, halves, equal, alike
  <2> QED BY <1>3, <1>4, <1>5, <1>6
<1> QED BY <1>7

\* A signature is accepted through the handles whose public half is that of the secret
\* it was made with and which resolve the same hash, and through no other, whatever
\* handles a program makes: an Ed25519 key of 64 raw bytes whose halves do not belong
\* together (crypto.go:838) signs what no handle accepts.
THEOREM SignaturesVerifyThroughTheirKey == CryptoSpec => []VerifiesOwn
BY OwnVerified, PTL

-----------------------------------------------------------------------------
(* Exports are read back.                                                  *)

\* The handle k, read back from the export b of the handle h in the format f, holds
\* what b holds of h.
IsBack(k, h, b, f) ==
    /\ k.t = IF b.part = "public" THEN h.pub ELSE h.t
    /\ k.pub = IF b.part = "public" \/ (f = "jwk" /\ h.fam \in ECAlgs) THEN h.pub ELSE h.t
    /\ k.fam = h.fam /\ k.curve = h.curve
    /\ k.len = h.len /\ k.hash = h.hash
    /\ k.type = b.part
    /\ IsSecret(k) => k.ext = h.ext

\* What the kinds of handles have, by family.
LEMMA HandleKinds ==
    ASSUME NEW h, HandleOK(h)
    PROVE  /\ h.fam = "oct" \/ h.fam = "RSA" \/ h.fam \in ECAlgs \/ h.fam \in OKPAlgs
           /\ h.fam = "oct" => /\ h.type = "secret" /\ h.curve = "" /\ rawSecretAllowed(h, h.len)
                               /\ IF h.name = "HMAC" THEN h.hash # "" ELSE h.hash = ""
           /\ h.fam # "oct" => h.len = 0 /\ h.type \in {"public", "private"}
           /\ h.fam = "RSA" => h.hash # ""
           /\ h.fam \in ECAlgs \cup OKPAlgs => h.name = h.fam /\ h.hash = ""
           /\ h.fam \in OKPAlgs \cup {"RSA"} => h.curve = ""
<1>1. h.fam \in ECAlgs => h.fam # "oct" /\ h.fam # "RSA" /\ h.fam \notin OKPAlgs BY DEF ECAlgs, OKPAlgs
<1>2. h.fam \in OKPAlgs => h.fam # "oct" /\ h.fam # "RSA" BY DEF OKPAlgs
<1>3. /\ h.fam = "oct" \/ h.fam = "RSA" \/ h.fam \in ECAlgs \/ h.fam \in OKPAlgs
      /\ h.fam = "oct" => /\ h.type = "secret" /\ Blank(h.curve) /\ rawSecretAllowed(h, h.len)
                          /\ IF h.name = "HMAC" THEN ~Blank(h.hash) ELSE Blank(h.hash)
      /\ h.fam # "oct" => h.len = 0 /\ h.type \in {"public", "private"}
      /\ h.fam = "RSA" => ~Blank(h.hash)
      /\ h.fam \in ECAlgs \cup OKPAlgs => h.name = h.fam /\ Blank(h.hash)
      /\ h.fam \in OKPAlgs \cup {"RSA"} => Blank(h.curve)
  BY <1>1, <1>2 DEF HandleOK
<1> QED BY <1>3 DEF Blank

\* The empty record has no fields.
LEMMA EmptyDomain == DOMAIN <<>> = {}
OBVIOUS

\* The algorithm that describes an exported key.
LEMMA OwnIdFields ==
    ASSUME NEW h, NEW b
    PROVE  /\ OwnId(h, b).name = h.name /\ OwnId(h, b).hash = h.hash
           /\ OwnId(h, b).namedCurve = h.curve
           /\ OwnId(h, b).keyType = IF b.part = "public" THEN "public" ELSE ""
BY DEF OwnId

\* The export b is of the handle h, whose kind is not symmetric.
IsExport(b, h) ==
    /\ b.fam = blobFam(h) /\ b.curve = h.curve /\ b.part \in {"public", "private"}
    /\ b.t = IF b.part = "public" THEN h.pub ELSE h.t

\* A parsed key is read back, but that its public half is that of the secret read.
LEMMA ParsedFields ==
    ASSUME NEW h, HandleOK(h), h.fam # "oct", NEW b, IsExport(b, h),
           NEW type, type = b.part, NEW ext, type = "private" => ext = h.ext,
           NEW us, NEW k \in parsedHandle(type, OwnId(h, b), b, ext, us)
    PROVE  /\ k.t = b.t /\ k.pub = b.t /\ k.fam = h.fam /\ k.curve = h.curve
           /\ k.len = h.len /\ k.hash = h.hash /\ k.type = b.part
           /\ IsSecret(k) => k.ext = h.ext
           /\ DOMAIN k = HandleFields
<1> DEFINE a == OwnId(h, b)
<1>1. /\ h.fam = "RSA" \/ h.fam \in ECAlgs \/ h.fam \in OKPAlgs
      /\ h.len = 0
      /\ h.fam = "RSA" => h.hash # ""
      /\ h.fam \in ECAlgs \cup OKPAlgs => h.name = h.fam /\ h.hash = ""
  BY HandleKinds
<1>2. a.name = h.name /\ a.hash = h.hash BY OwnIdFields
<1> HIDE DEF a
<1>3. k = [cryptoKeyHandle(type, a, ext, us, IF b.fam = "EC" THEN a.name ELSE b.fam, b.t, 0,
                      IF b.fam = "RSA" THEN hashFromAlgorithmObject(a) ELSE "")
             EXCEPT !.curve = b.curve]
  BY DEF parsedHandle, a
<1>4. k.type = type /\ k.t = b.t /\ k.len = 0 /\ k.ext = ext BY <1>3 DEF cryptoKeyHandle
<1>9. k.pub = b.t /\ DOMAIN k = HandleFields BY <1>3 DEF cryptoKeyHandle, HandleFields
<1>10. b.fam = blobFam(h) /\ b.curve = h.curve /\ b.part \in {"public", "private"} BY DEF IsExport
<1>5. k.fam = IF b.fam = "EC" THEN a.name ELSE b.fam BY <1>3 DEF cryptoKeyHandle
<1>6. k.hash = IF b.fam = "RSA" THEN hashFromAlgorithmObject(a) ELSE "" BY <1>3 DEF cryptoKeyHandle
<1>7. k.curve = b.curve BY <1>3 DEF cryptoKeyHandle
<1>8. k.fam = h.fam /\ k.hash = h.hash
  <2>1. CASE h.fam = "RSA"
    <3>1. b.fam = "RSA" BY <1>10, <2>1 DEF blobFam, ECAlgs
    <3>2. hashFromAlgorithmObject(a) = h.hash BY <1>1, <1>2, <2>1 DEF hashFromAlgorithmObject
    <3> QED BY <1>5, <1>6, <2>1, <3>1, <3>2
  <2>2. CASE h.fam \in ECAlgs
    <3>1. b.fam = "EC" BY <1>10, <2>2 DEF blobFam
    <3> QED BY <1>1, <1>2, <1>5, <1>6, <2>2, <3>1
  <2>3. CASE h.fam \in OKPAlgs
    <3>1. b.fam = h.fam /\ h.fam # "RSA" /\ h.fam # "EC" BY <1>10, <2>3 DEF blobFam, OKPAlgs, ECAlgs
    <3> QED BY <1>1, <1>5, <1>6, <2>3, <3>1
  <2> QED BY <1>1, <2>1, <2>2, <2>3
<1> QED BY <1>1, <1>4, <1>7, <1>8, <1>9, <1>10 DEF IsSecret

\* A parsed key is read back as it was, ...
LEMMA ParsedBack ==
    ASSUME NEW h, HandleOK(h), h.fam # "oct", NEW b, IsExport(b, h),
           NEW type, type = b.part, NEW ext, type = "private" => ext = h.ext,
           NEW f, b.part = "public" \/ f # "jwk" \/ h.fam \notin ECAlgs,
           NEW us, NEW k \in parsedHandle(type, OwnId(h, b), b, ext, us)
    PROVE  IsBack(k, h, b, f)
BY ParsedFields DEF IsBack, IsExport

\* ... of an elliptic curve JWK with the public half it names.
LEMMA ParsedPairBack ==
    ASSUME NEW h, HandleOK(h), h.fam \in ECAlgs, NEW b, IsExport(b, h), b.part = "private", b.pub = h.pub,
           NEW us, NEW k \in parsedHandle("private", OwnId(h, b), b, h.ext, us)
    PROVE  IsBack([k EXCEPT !.pub = b.pub], h, b, "jwk")
<1> DEFINE g == [k EXCEPT !.pub = b.pub]
<1>0. h.fam # "oct" BY DEF ECAlgs
<1>1. /\ k.t = b.t /\ k.fam = h.fam /\ k.curve = h.curve
      /\ k.len = h.len /\ k.hash = h.hash /\ k.type = b.part
      /\ IsSecret(k) => k.ext = h.ext
      /\ DOMAIN k = HandleFields
  BY <1>0, ParsedFields
<1>2. /\ g.type = k.type /\ g.fam = k.fam /\ g.curve = k.curve /\ g.t = k.t /\ g.ext = k.ext
      /\ g.len = k.len /\ g.hash = k.hash /\ g.pub = b.pub
  BY <1>1 DEF HandleFields
<1> HIDE DEF g
<1>3. IsBack(g, h, b, "jwk") BY <1>1, <1>2 DEF IsBack, IsExport, IsSecret
<1> QED BY <1>3 DEF g

\* The raw bytes of a symmetric key are read back, and so is its JWK.
LEMMA SecretBack ==
    ASSUME NEW h, HandleOK(h), HasSecretKey(h), NEW b, b.part = "secret",
           NEW c, c.enc = "raw", c.part = "secret", c.layers = <<>>, c.t = h.t, c.pub = h.t, c.len = h.len,
           NEW us, NEW f
    PROVE  /\ importRawKey(OwnId(h, b), c, h.ext, us) # {}
           /\ \A k \in importRawKey(OwnId(h, b), c, h.ext, us) : IsBack(k, h, b, f)
<1> DEFINE a == OwnId(h, b)
<1>1. /\ h.fam = "oct" /\ h.type = "secret" /\ h.curve = "" /\ rawSecretAllowed(h, h.len)
      /\ IF h.name = "HMAC" THEN h.hash # "" ELSE h.hash = ""
  BY HandleKinds DEF HasSecretKey
<1>2. a.name = h.name /\ a.hash = h.hash BY OwnIdFields
<1> HIDE DEF a
<1>3. rawSecretAllowed(a, h.len) BY <1>1, <1>2 DEF rawSecretAllowed
<1>4. a.name \notin ECAlgs \cup OKPAlgs BY <1>3 DEF rawSecretAllowed, ECAlgs, OKPAlgs, AESAlgs
<1>7. byteLength(c) = h.len
  <2>1. DOMAIN c.layers = {} BY EmptyDomain, Zenon
  <2> QED BY <2>1 DEF byteLength
<1>8. Content(c) = h.t BY DEF Content
<1>9. importRawEC(a, c, h.ext, us) = {} BY <1>4 DEF importRawEC
<1>10. importRawOKP(a, c, h.ext, us) = {} BY <1>4 DEF importRawOKP
<1> DEFINE hash == IF a.name = "HMAC" THEN hashFromAlgorithmObject(a) ELSE ""
           one == cryptoKeyHandle("secret", a, h.ext, us, "oct", h.t, h.len, hash)
<1>11. importRawSecret(a, c, h.ext, us) = {one} BY <1>3, <1>7, <1>8 DEF importRawSecret
<1>12. importRawKey(a, c, h.ext, us) = {one} BY <1>9, <1>10, <1>11 DEF importRawKey
<1>13. hash = h.hash BY <1>1, <1>2 DEF hashFromAlgorithmObject
<1> HIDE DEF hash
<1>14. one.t = h.t /\ one.len = h.len /\ one.ext = h.ext BY DEF cryptoKeyHandle
<1>15. one.type = "secret" BY DEF cryptoKeyHandle
<1>16. one.fam = "oct" BY DEF cryptoKeyHandle
<1>17. one.curve = "" BY DEF cryptoKeyHandle, ECAlgs
<1>18. one.hash = hash BY DEF cryptoKeyHandle
<1>20. one.pub = h.t BY DEF cryptoKeyHandle
<1> HIDE DEF one
<1>21. h.fam \notin ECAlgs BY <1>1 DEF ECAlgs
<1>19. IsBack(one, h, b, f) BY <1>1, <1>13, <1>14, <1>15, <1>16, <1>17, <1>18, <1>20, <1>21 DEF IsBack
<1> QED BY <1>12, <1>19 DEF a

\* The raw form of an elliptic curve key is its point.
LEMMA PointBack ==
    ASSUME NEW h, HandleOK(h), h.fam \in ECAlgs, NEW us,
           NEW b, b = Encoded("raw", "EC", h.curve, "public", h.pub, rawPublicLength(h)), NEW f
    PROVE  /\ importRawKey(OwnId(h, b), b, h.ext, us) # {}
           /\ \A k \in importRawKey(OwnId(h, b), b, h.ext, us) : IsBack(k, h, b, f)
<1> DEFINE a == OwnId(h, b)
           one == cryptoKeyHandle("public", a, TRUE, us, a.name, b.t, 0, "")
<1>1. h.name = h.fam /\ h.hash = "" /\ h.len = 0 BY HandleKinds DEF ECAlgs
<1>2. a.name = h.name /\ a.namedCurve = h.curve BY OwnIdFields
<1> HIDE DEF a
<1>3. b.enc = "raw" /\ b.fam = "EC" /\ b.part = "public" /\ b.layers = <<>> BY DEF Encoded
<1>4. b.t = h.pub /\ b.curve = h.curve BY DEF Encoded
<1>5. a.name \in ECAlgs BY <1>1, <1>2
<1>6. importRawSecret(a, b, h.ext, us) = {}
  <2>1. ~rawSecretAllowed(a, byteLength(b)) BY <1>5 DEF rawSecretAllowed, ECAlgs, AESAlgs
  <2> QED BY <2>1 DEF importRawSecret
<1>7. importRawOKP(a, b, h.ext, us) = {}
  <2>1. a.name \notin OKPAlgs BY <1>5 DEF ECAlgs, OKPAlgs
  <2> QED BY <2>1 DEF importRawOKP
<1>8. importRawEC(a, b, h.ext, us) = {one} BY <1>2, <1>3, <1>4, <1>5 DEF importRawEC
<1>9. importRawKey(a, b, h.ext, us) = {one} BY <1>6, <1>7, <1>8 DEF importRawKey
<1>10. one.t = h.pub /\ one.pub = h.pub /\ one.len = h.len BY <1>1, <1>4 DEF cryptoKeyHandle
<1>11. one.type = "public" BY DEF cryptoKeyHandle
<1>12. one.fam = h.fam BY <1>1, <1>2 DEF cryptoKeyHandle
<1>13. one.curve = h.curve BY <1>2, <1>5 DEF cryptoKeyHandle
<1>14. one.hash = h.hash BY <1>1 DEF cryptoKeyHandle
<1> HIDE DEF one
<1>15. IsBack(one, h, b, f) BY <1>3, <1>10, <1>11, <1>12, <1>13, <1>14 DEF IsBack, IsSecret
<1> QED BY <1>9, <1>15 DEF a

\* The raw form of an Ed25519 or X25519 key is its public key.
LEMMA OKPBack ==
    ASSUME NEW h, HandleOK(h), h.fam \in OKPAlgs, NEW us,
           NEW b, b = Encoded("raw", h.fam, h.curve, "public", h.pub, rawPublicLength(h)), NEW f
    PROVE  /\ importRawKey(OwnId(h, b), b, h.ext, us) # {}
           /\ \A k \in importRawKey(OwnId(h, b), b, h.ext, us) : IsBack(k, h, b, f)
<1> DEFINE a == OwnId(h, b)
           one == cryptoKeyHandle("public", a, TRUE, us, a.name, b.t, 0, "")
<1>1. h.name = h.fam /\ h.hash = "" /\ h.len = 0 /\ h.curve = "" BY HandleKinds DEF OKPAlgs
<1>3. b.enc = "raw" /\ b.fam = h.fam /\ b.part = "public" /\ b.layers = <<>> BY DEF Encoded
<1>4. b.t = h.pub /\ b.len = rawPublicLength(h) BY DEF Encoded
<1>2. a.name = h.name /\ a.keyType = "public" BY <1>3, OwnIdFields
<1> HIDE DEF a
<1>5. a.name \in OKPAlgs /\ a.name = b.fam BY <1>1, <1>2, <1>3
<1>6. importRawSecret(a, b, h.ext, us) = {}
  <2>1. ~rawSecretAllowed(a, byteLength(b)) BY <1>5 DEF rawSecretAllowed, OKPAlgs, AESAlgs
  <2> QED BY <2>1 DEF importRawSecret
<1>7. importRawEC(a, b, h.ext, us) = {}
  <2>1. a.name \notin ECAlgs BY <1>5 DEF ECAlgs, OKPAlgs
  <2> QED BY <2>1 DEF importRawEC
<1>8. byteLength(b) = 32
  <2>1. DOMAIN b.layers = {} BY <1>3
  <2>2. b.len = 32 BY <1>1, <1>4 DEF rawPublicLength
  <2> QED BY <1>3, <2>1, <2>2 DEF byteLength
<1>9. ~rawIsPrivate(a, b, us) BY <1>2 DEF rawIsPrivate
<1>10. rawPoint(a, b) = b.t BY <1>3, <1>5 DEF rawPoint
<1>11. importRawOKP(a, b, h.ext, us) = {one} BY <1>5, <1>8, <1>9, <1>10 DEF importRawOKP
<1>12. importRawKey(a, b, h.ext, us) = {one} BY <1>6, <1>7, <1>11 DEF importRawKey
<1>13. one.t = h.pub /\ one.pub = h.pub /\ one.len = h.len BY <1>1, <1>4 DEF cryptoKeyHandle
<1>14. one.type = "public" BY DEF cryptoKeyHandle
<1>15. one.fam = h.fam BY <1>1, <1>2 DEF cryptoKeyHandle
<1>16. a.name \notin ECAlgs BY <1>5 DEF ECAlgs, OKPAlgs
<1>17. one.curve = h.curve BY <1>1, <1>16 DEF cryptoKeyHandle
<1>18. one.hash = h.hash BY <1>1 DEF cryptoKeyHandle
<1> HIDE DEF one
<1>19. IsBack(one, h, b, f) BY <1>3, <1>13, <1>14, <1>15, <1>17, <1>18 DEF IsBack, IsSecret
<1> QED BY <1>12, <1>19 DEF a

\* The public and the private part of a key are exports of it.
LEMMA PartIsExport ==
    ASSUME NEW h, NEW enc, NEW len
    PROVE  IsExport(publicPart(enc, h, len), h) /\ IsExport(privatePart(enc, h), h)
<1> DEFINE b == publicPart(enc, h, len)
           c == privatePart(enc, h)
<1>1. b.part = "public" /\ b.fam = blobFam(h) /\ b.curve = h.curve /\ b.t = h.pub BY DEF publicPart, Encoded
<1>2. c.part = "private" /\ c.fam = blobFam(h) /\ c.curve = h.curve /\ c.t = h.t BY DEF privatePart, Encoded
<1> QED BY <1>1, <1>2 DEF IsExport

\* An export is imported again as the key it came from.
LEMMA ReadBack ==
    ASSUME NEW h, HandleOK(h), h.fam = "RSA" => h.name \in RSAAlgs,
           NEW f, NEW b \in exportKeyBytesForWrap(f, h)
    PROVE  /\ importUnwrappedKey(f, OwnId(h, b), b, h.ext, h.usages) # {}
           /\ f \in {"jwk", "pkcs8", "sec1", "pkcs1"} => b.part = h.type
           /\ \A k \in importUnwrappedKey(f, OwnId(h, b), b, h.ext, h.usages) : IsBack(k, h, b, f)
<1> DEFINE a == OwnId(h, b)
           us == h.usages
           Good(s) == s # {} /\ \A k \in s : IsBack(k, h, b, f)
<1>1. a.name = h.name BY OwnIdFields
<1>2. /\ h.fam = "oct" \/ h.fam = "RSA" \/ h.fam \in ECAlgs \/ h.fam \in OKPAlgs
      /\ h.fam = "oct" => h.type = "secret"
      /\ h.fam # "oct" => h.type \in {"public", "private"}
      /\ h.fam \in ECAlgs \cup OKPAlgs => h.name = h.fam
      /\ h.fam \in OKPAlgs \cup {"RSA"} => h.curve = ""
  BY HandleKinds
<1>4. ASSUME h.fam # "oct", IsExport(b, h), b.part = "public" \/ f # "jwk" \/ h.fam \notin ECAlgs,
             NEW type, type = b.part, NEW ext, type = "private" => ext = h.ext
      PROVE  Good(parsedHandle(type, a, b, ext, us))
  <2>1. parsedHandle(type, a, b, ext, us) # {} BY DEF parsedHandle
  <2>2. \A k \in parsedHandle(type, a, b, ext, us) : IsBack(k, h, b, f) BY <1>4, ParsedBack
  <2> QED BY <2>1, <2>2
<1>3. ASSUME f = "jwk", h.fam \in ECAlgs, IsExport(b, h), b.part = "private", b.pub = h.pub
      PROVE  Good({[k EXCEPT !.pub = b.pub] : k \in parsedHandle("private", a, b, h.ext, us)})
  <2>1. parsedHandle("private", a, b, h.ext, us) # {} BY DEF parsedHandle
  <2>2. \A k \in parsedHandle("private", a, b, h.ext, us) : IsBack([k EXCEPT !.pub = b.pub], h, b, f)
    BY <1>3, ParsedPairBack
  <2> QED BY <2>1, <2>2
<1>5. h.fam # "oct" => compatible(a, blobFam(h))
  <2>1. CASE h.fam = "RSA" BY <1>1, <2>1 DEF compatible, blobFam, ECAlgs
  <2>2. CASE h.fam \in ECAlgs BY <1>1, <1>2, <2>2 DEF compatible, blobFam
  <2>3. CASE h.fam \in OKPAlgs
    <3>1. h.fam \notin ECAlgs BY <2>3 DEF ECAlgs, OKPAlgs
    <3> QED BY <1>1, <1>2, <2>3, <3>1 DEF compatible, blobFam
  <2> QED BY <1>2, <2>1, <2>2, <2>3
<1>6. h.fam # "oct" => blobFam(h) # "oct" BY <1>2 DEF blobFam, ECAlgs
<1> HIDE DEF a, us
<1>7. CASE f = "raw"
  <2>1. importUnwrappedKey(f, a, b, h.ext, us) = importRawKey(a, b, h.ext, us)
    BY <1>7 DEF importUnwrappedKey
  <2>2. CASE HasSecretKey(h)
    <3>1. b = Encoded("raw", "oct", "", "secret", h.t, h.len)
      BY <1>7, <2>2 DEF exportKeyBytesForWrap, exportRawKeyMaterial, HasSecretKey, ECAlgs, OKPAlgs
    <3>2. b.part = "secret" /\ b.enc = "raw" /\ b.layers = <<>> BY <3>1 DEF Encoded
    <3>3. b.t = h.t /\ b.pub = h.t /\ b.len = h.len BY <3>1 DEF Encoded
    <3> QED BY <3>3, <1>7, <2>1, <2>2, <3>2, SecretBack DEF a, us
  <2>3. CASE ~HasSecretKey(h)
    <3>1. h.fam \in ECAlgs \cup OKPAlgs /\ b = Encoded("raw", blobFam(h), h.curve, "public", h.pub, rawPublicLength(h))
      BY <1>7, <2>3 DEF exportKeyBytesForWrap, exportRawKeyMaterial, publicPart
    <3>2. CASE h.fam \in ECAlgs
      <4>1. blobFam(h) = "EC" BY <3>2 DEF blobFam
      <4> QED BY <1>7, <2>1, <3>1, <3>2, <4>1, PointBack DEF a, us
    <3>3. CASE h.fam \in OKPAlgs
      <4>1. blobFam(h) = h.fam BY <3>3 DEF blobFam, ECAlgs, OKPAlgs
      <4> QED BY <1>7, <2>1, <3>1, <3>3, <4>1, OKPBack DEF a, us
    <3> QED BY <3>1, <3>2, <3>3
  <2> QED BY <2>2, <2>3
<1>8. CASE f = "jwk"
  <2>1. CASE HasSecretKey(h)
    <3>1. b = Encoded("jwk", "oct", "", "secret", h.t, h.len)
      BY <1>8, <2>1 DEF exportKeyBytesForWrap, exportJWK, HasSecretKey
    <3>2. b.enc = "jwk" /\ b.part = "secret" /\ b.fam = "oct" /\ b.layers = <<>> BY <3>1 DEF Encoded
    <3> DEFINE c == [b EXCEPT !.enc = "raw"]
    <3>3. c.enc = "raw" /\ c.part = "secret" /\ c.layers = <<>> BY <3>1 DEF Encoded
    <3>6. c.t = h.t /\ c.pub = h.t /\ c.len = h.len BY <3>1 DEF Encoded
    <3>4. importUnwrappedKey(f, a, b, h.ext, us) = importRawKey(a, c, h.ext, us)
      BY <1>8, <3>2 DEF importUnwrappedKey, importJWK
    <3>5. h.type = "secret" BY <1>2, <2>1 DEF HasSecretKey
    <3> HIDE DEF c
    <3> QED BY <2>1, <3>2, <3>3, <3>4, <3>5, <3>6, SecretBack DEF a, us
  <2>2. CASE ~HasSecretKey(h)
    <3>1. h.fam # "oct" /\ b = keyPart("jwk", h)
      BY <1>8, <2>2 DEF exportKeyBytesForWrap, exportJWK
    <3>2. /\ b.enc = "jwk" /\ b.layers = <<>> /\ b.part = h.type /\ IsExport(b, h)
          /\ b.part = "private" => b.pub = h.pub
      <4>1. CASE h.type = "private"
        <5>1. b = privatePart("jwk", h) BY <3>1, <4>1 DEF keyPart
        <5>2. b.enc = "jwk" /\ b.layers = <<>> /\ b.part = "private" /\ b.pub = h.pub
          BY <5>1 DEF privatePart, Encoded
        <5>3. IsExport(b, h) BY <5>1, PartIsExport, Zenon
        <5> QED BY <4>1, <5>2, <5>3
      <4>2. CASE h.type # "private"
        <5>1. b = publicPart("jwk", h, 0) /\ h.type = "public" BY <1>2, <3>1, <4>2 DEF keyPart
        <5>2. b.enc = "jwk" /\ b.layers = <<>> /\ b.part = "public" BY <5>1 DEF publicPart, Encoded
        <5>3. IsExport(b, h) BY <5>1, PartIsExport, Zenon
        <5> QED BY <5>1, <5>2, <5>3
      <4> QED BY <4>1, <4>2
    <3>7. b.fam = blobFam(h) BY <3>2 DEF IsExport
    <3>3. importUnwrappedKey(f, a, b, h.ext, us) =
            importRSAJWK(a, b, h.ext, us) \cup importECJWK(a, b, h.ext, us) \cup importOKPJWK(a, b, h.ext, us)
      BY <1>6, <1>8, <3>1, <3>2, <3>7 DEF importUnwrappedKey, importJWK
    <3>4. b.part # "private" => Good(parsedHandle("public", a, b, TRUE, us))
      BY <1>2, <1>4, <3>1, <3>2
    <3>8. b.part = "private" /\ h.fam \notin ECAlgs => Good(parsedHandle("private", a, b, h.ext, us))
      BY <1>4, <3>1, <3>2
    <3>5. Good(importUnwrappedKey(f, a, b, h.ext, us))
      <4>1. CASE h.fam = "RSA"
        <5>1. b.fam = "RSA" /\ h.fam \notin ECAlgs BY <3>7, <4>1 DEF blobFam, ECAlgs
        <5>2. importECJWK(a, b, h.ext, us) = {} /\ importOKPJWK(a, b, h.ext, us) = {}
          BY <5>1 DEF importECJWK, importOKPJWK, OKPAlgs
        <5>3. Good(importRSAJWK(a, b, h.ext, us)) BY <3>4, <3>8, <5>1 DEF importRSAJWK
        <5> QED BY <3>3, <5>2, <5>3
      <4>2. CASE h.fam \in ECAlgs
        <5>1. b.fam = "EC" /\ a.name \in ECAlgs BY <1>1, <1>2, <3>7, <4>2 DEF blobFam
        <5>2. importRSAJWK(a, b, h.ext, us) = {} /\ importOKPJWK(a, b, h.ext, us) = {}
          BY <5>1 DEF importRSAJWK, importOKPJWK, OKPAlgs
        <5>4. importECJWK(a, b, h.ext, us) =
                IF b.part = "private"
                THEN {[k EXCEPT !.pub = b.pub] : k \in parsedHandle("private", a, b, h.ext, us)}
                ELSE parsedHandle("public", a, b, TRUE, us)
          BY <5>1 DEF importECJWK
        <5>5. CASE b.part = "private"
          <6>1. Good({[k EXCEPT !.pub = b.pub] : k \in parsedHandle("private", a, b, h.ext, us)})
            BY <1>3, <1>8, <3>2, <4>2, <5>5
          <6> QED BY <3>3, <5>2, <5>4, <5>5, <6>1
        <5>6. CASE b.part # "private" BY <3>3, <3>4, <5>2, <5>4, <5>6
        <5> QED BY <5>5, <5>6
      <4>3. CASE h.fam \in OKPAlgs
        <5>1. h.fam \notin ECAlgs /\ h.fam # "RSA" /\ h.fam # "EC" BY <4>3 DEF ECAlgs, OKPAlgs
        <5>2. b.fam = h.fam /\ a.name = b.fam BY <1>1, <1>2, <3>7, <4>3, <5>1 DEF blobFam
        <5>3. importRSAJWK(a, b, h.ext, us) = {} /\ importECJWK(a, b, h.ext, us) = {}
          BY <5>1, <5>2 DEF importRSAJWK, importECJWK
        <5>4. Good(importOKPJWK(a, b, h.ext, us)) BY <3>4, <3>8, <4>3, <5>1, <5>2 DEF importOKPJWK
        <5> QED BY <3>3, <5>3, <5>4
      <4> QED BY <1>2, <3>1, <4>1, <4>2, <4>3
    <3> QED BY <3>2, <3>5 DEF a, us
  <2> QED BY <2>1, <2>2
<1>9. ASSUME h.fam # "oct", f # "jwk", b.part = "private", IsExport(b, h)
      PROVE  Good(privateKeyToHandle(a, b, h.ext, us))
  <2>1. privateKeyToHandle(a, b, h.ext, us) = parsedHandle("private", a, b, h.ext, us)
    BY <1>5, <1>9 DEF privateKeyToHandle, IsExport
  <2>2. Good(parsedHandle("private", a, b, h.ext, us)) BY <1>4, <1>9
  <2> QED BY <2>1, <2>2
<1>10. ASSUME h.fam # "oct", b.part = "public", IsExport(b, h)
       PROVE  Good(publicKeyToHandle(a, b, us))
  <2>1. publicKeyToHandle(a, b, us) = parsedHandle("public", a, b, TRUE, us)
    BY <1>5, <1>10 DEF publicKeyToHandle, IsExport
  <2>2. Good(parsedHandle("public", a, b, TRUE, us)) BY <1>4, <1>10
  <2> QED BY <2>1, <2>2
<1>11. CASE f = "pkcs8"
  <2>1. h.type = "private" /\ b = privatePart("pkcs8", h) BY <1>11 DEF exportKeyBytesForWrap
  <2>2. b.enc = "pkcs8" /\ b.layers = <<>> /\ b.part = "private" /\ IsExport(b, h)
    <3>1. b.enc = "pkcs8" /\ b.layers = <<>> /\ b.part = "private" BY <2>1 DEF privatePart, Encoded
    <3>2. IsExport(b, h) BY <2>1, PartIsExport, Zenon
    <3> QED BY <3>1, <3>2
  <2>3. importUnwrappedKey(f, a, b, h.ext, us) = privateKeyToHandle(a, b, h.ext, us)
    BY <1>11, <2>2 DEF importUnwrappedKey, parsePrivateKey
  <2>4. h.fam # "oct" BY <1>2, <2>1
  <2> QED BY <1>9, <1>11, <2>1, <2>2, <2>3, <2>4 DEF a, us
<1>12. CASE f = "pkcs1"
  <2>1. h.fam = "RSA" /\ b = keyPart("pkcs1", h) BY <1>12 DEF exportKeyBytesForWrap
  <2>2. b.enc = "pkcs1" /\ b.layers = <<>> /\ b.part = h.type /\ IsExport(b, h)
    <3>1. CASE h.type = "private"
      <4>1. b = privatePart("pkcs1", h) BY <2>1, <3>1 DEF keyPart
      <4>2. b.enc = "pkcs1" /\ b.layers = <<>> /\ b.part = "private" BY <4>1 DEF privatePart, Encoded
      <4>3. IsExport(b, h) BY <4>1, PartIsExport, Zenon
      <4> QED BY <3>1, <4>2, <4>3
    <3>2. CASE h.type # "private"
      <4>1. b = publicPart("pkcs1", h, 0) /\ h.type = "public" BY <1>2, <2>1, <3>2 DEF keyPart
      <4>2. b.enc = "pkcs1" /\ b.layers = <<>> /\ b.part = "public" BY <4>1 DEF publicPart, Encoded
      <4>3. IsExport(b, h) BY <4>1, PartIsExport, Zenon
      <4> QED BY <4>1, <4>2, <4>3
    <3> QED BY <3>1, <3>2
  <2>4. importUnwrappedKey(f, a, b, h.ext, us) =
          IF b.part = "private" THEN privateKeyToHandle(a, b, h.ext, us) ELSE publicKeyToHandle(a, b, us)
    BY <1>12, <2>2 DEF importUnwrappedKey
  <2> QED BY <1>2, <1>9, <1>10, <1>12, <2>1, <2>2, <2>4 DEF a, us
<1>13. CASE f = "sec1"
  <2>1. h.type = "private" /\ h.fam \in ECAlgs /\ b = privatePart("sec1", h)
    BY <1>13 DEF exportKeyBytesForWrap
  <2>2. b.enc = "sec1" /\ b.layers = <<>> /\ b.part = "private" /\ IsExport(b, h)
    <3>1. b.enc = "sec1" /\ b.layers = <<>> /\ b.part = "private" BY <2>1 DEF privatePart, Encoded
    <3>2. IsExport(b, h) BY <2>1, PartIsExport, Zenon
    <3> QED BY <3>1, <3>2
  <2>3. h.fam # "oct" BY <2>1 DEF ECAlgs
  <2>4. importUnwrappedKey(f, a, b, h.ext, us) = privateKeyToHandle(a, b, h.ext, us)
    BY <1>13, <2>2 DEF importUnwrappedKey
  <2> QED BY <1>9, <1>13, <2>1, <2>2, <2>3, <2>4 DEF a, us
<1>14. CASE f = "spki"
  <2>1. h.fam # "oct" /\ b = publicPart("spki", h, 0) BY <1>14 DEF exportKeyBytesForWrap
  <2>2. b.enc = "spki" /\ b.layers = <<>> /\ b.part = "public" /\ IsExport(b, h)
    <3>1. b.enc = "spki" /\ b.layers = <<>> /\ b.part = "public" BY <2>1 DEF publicPart, Encoded
    <3>2. IsExport(b, h) BY <2>1, PartIsExport, Zenon
    <3> QED BY <3>1, <3>2
  <2>3. importUnwrappedKey(f, a, b, h.ext, us) = publicKeyToHandle(a, b, us)
    BY <1>14, <2>2 DEF importUnwrappedKey
  <2> QED BY <1>10, <1>14, <2>1, <2>2, <2>3 DEF a, us
<1> QED BY <1>7, <1>8, <1>11, <1>12, <1>13, <1>14 DEF exportKeyBytesForWrap

\* Whatever exportKey returns, in any format and of any handle a program comes to
\* hold, importKey reads back as the same material for the handle's own algorithm; of
\* a private key whose halves do not belong together (crypto.go:838, key_io.go:143)
\* with the public half of its secret, but for the JWK of an elliptic curve key.
THEOREM ExportsAreReadBack == CryptoSpec => []RoundTrip
<1>1. CryptoInit => CryptoInv BY CryptoStart
<1>2. CryptoInv /\ [CryptoNext]_cryptoVars => CryptoInv' BY CryptoStep
<1>3. CryptoInv => RoundTrip
  <2>1. SUFFICES ASSUME CryptoInv PROVE RoundTrip OBVIOUS
  <2>2. \A h \in keys : HandleOK(h) BY <2>1 DEF CryptoInv
  <2>3. SUFFICES ASSUME NEW h \in keys, NEW f \in Formats, NEW b \in exportKeyBytesForWrap(f, h),
                        h.fam = "RSA" => h.name \in RSAAlgs
                 PROVE  /\ importUnwrappedKey(f, OwnId(h, b), b, h.ext, h.usages) # {}
                        /\ f \in {"jwk", "pkcs8", "sec1", "pkcs1"} => b.part = h.type
                        /\ \A k \in importUnwrappedKey(f, OwnId(h, b), b, h.ext, h.usages) : IsBack(k, h, b, f)
    BY DEF RoundTrip, IsBack
  <2> QED BY <2>2, <2>3, ReadBack
<1> QED BY <1>1, <1>2, <1>3, PTL DEF CryptoSpec

-----------------------------------------------------------------------------
(* Part 4, Require: the two tables of modules.                                  *)

\* A module object is made for a file of the loader or for a registered name.
ModuleObject ==
    [kind : {"file"}, of : Exists, state : {"running", "done", "failed"}]
    \cup [kind : {"native"}, of : Natives, state : {"running", "done", "failed"}]
    \cup [kind : {"core"}, of : Core, state : {"running", "done", "failed"}]

\* The tables hold module objects.
EntriesInv ==
    /\ native \subseteq Natives
    /\ objects \in Seq(ModuleObject)
    /\ \A k \in DOMAIN modules : modules[k] \in DOMAIN objects
    /\ \A k \in DOMAIN nodeModules : nodeModules[k] \in DOMAIN objects

\* A load of a file was found by the search for its key, and a key that is a file is
\* that file.
IsLoad(load, m) ==
    m.kind = "file" =>
      /\ <<load.isPath, load.key, m.of>> \in Findable
      /\ load.isPath => load.key = m.of \/ load.key \notin Exists

Load == [object : Nat, isPath : BOOLEAN, key : {keyOf(req) : req \in Requests} \cup {req.path : req \in Requests}]

\* The loads in progress are of objects whose code runs, of each once.
LoadsInv ==
    /\ evaluating \in Seq(Load)
    /\ \A i \in DOMAIN evaluating :
         /\ evaluating[i].object \in DOMAIN objects
         /\ objects[evaluating[i].object].state = "running"
         /\ IsLoad(evaluating[i], objects[evaluating[i].object])
    /\ \A i, j \in DOMAIN evaluating :
         evaluating[i].object = evaluating[j].object => i = j

\* A file whose code has not returned is entered under its own path; another key, and
\* nodeModules, have it only if it was required while it ran.
CycleInv ==
    \A i \in DOMAIN objects : objects[i].kind = "file" /\ objects[i].state # "done" =>
      /\ \A k \in DOMAIN modules : modules[k] = i =>
           \/ i \in partial
           \/ objects[i].state = "running" /\ k = objects[i].of
      /\ \A k \in DOMAIN nodeModules : nodeModules[k] = i => i \in partial

\* A failed file is not entered under its own path.
FailedInv ==
    \A i \in DOMAIN objects : objects[i].kind = "file" /\ objects[i].state = "failed" =>
      \A k \in DOMAIN modules : modules[k] = i => k # objects[i].of

RequireInv ==
    /\ EntriesInv /\ LoadsInv /\ CycleInv /\ FailedInv /\ EvaluatedOnce /\ FoundByTheSearch

-----------------------------------------------------------------------------
(* The search.                                                             *)

\* Three files and what comes after them: the first is the first.
LEMMA FirstOfThree ==
    ASSUME NEW a, NEW b, NEW c, NEW S, NEW rest \in Seq(S)
    PROVE  /\ DOMAIN (<<a, b, c>> \o rest) = 1..(3 + Len(rest))
           /\ (<<a, b, c>> \o rest)[1] = a
<1> DEFINE all == S \cup {a, b, c}
<1>1. <<a, b, c>> \in Seq(all) /\ Len(<<a, b, c>>) = 3 OBVIOUS
<1>2. rest \in Seq(all) OBVIOUS
<1> QED BY <1>1, <1>2

\* loadIndex tries two files.
LEMMA IndexFiles ==
    ASSUME NEW path
    PROVE  \E S : loadIndex(path) \in Seq(S)
<1> DEFINE a == DefaultPathResolver(path, <<"index", ".js">>)
           b == DefaultPathResolver(path, <<"index", ".json">>)
<1>1. <<a, b>> \in Seq({a, b}) OBVIOUS
<1> QED BY <1>1 DEF loadIndex

\* loadAsDirectory tries a sequence of files.
LEMMA DirectoryFiles ==
    ASSUME NEW path, NEW unread
    PROVE  \E S : loadAsDirectory(path, unread) \in Seq(S)
<1> DEFINE m == DefaultPathResolver(path, Main[path])
           a == m \o <<".js">>
           b == m \o <<".json">>
<1>1. PICK S : loadIndex(m) \in Seq(S) BY IndexFiles
<1>2. <<m, a, b>> \o loadIndex(m) \in Seq(S \cup {m, a, b})
  <2>1. <<m, a, b>> \in Seq(S \cup {m, a, b}) OBVIOUS
  <2>2. loadIndex(m) \in Seq(S \cup {m, a, b}) BY <1>1
  <2> QED BY <2>1, <2>2
<1>3. loadAsFile(m) \o loadIndex(m) = <<m, a, b>> \o loadIndex(m) BY DEF loadAsFile
<1>4. CASE path \notin DOMAIN Main \/ DefaultPathResolver(path, <<"package", ".json">>) \in unread
  <2>1. loadAsDirectory(path, unread) = loadIndex(path) BY <1>4 DEF loadAsDirectory
  <2> QED BY <2>1, IndexFiles
<1>5. CASE ~(path \notin DOMAIN Main \/ DefaultPathResolver(path, <<"package", ".json">>) \in unread)
  <2>1. loadAsDirectory(path, unread) = loadAsFile(m) \o loadIndex(m)
    BY <1>5 DEF loadAsDirectory
  <2> QED BY <2>1, <1>2, <1>3
<1> QED BY <1>4, <1>5

\* A file path is tried itself first.
LEMMA KeyFirst ==
    ASSUME NEW req \in Requests, NEW unread \in SUBSET Unreliable, req.isPath
    PROVE  \E n \in Nat : /\ DOMAIN Tried[<<req, unread>>] = 1..(3 + n)
                          /\ Tried[<<req, unread>>][1] = keyOf(req)
<1> DEFINE p == keyOf(req)
           rest == loadAsDirectory(p, unread)
<1>1. Tried[<<req, unread>>] = loadAsFile(p) \o rest
  <2>1. Tried[<<req, unread>>] = loadAsFileOrDirectory(p, unread) BY DEF Tried
  <2> QED BY <2>1 DEF loadAsFileOrDirectory
<1>2. PICK S : rest \in Seq(S) BY DirectoryFiles
<1>3. loadAsFile(p) = <<p, p \o <<".js">>, p \o <<".json">>>> BY DEF loadAsFile
<1>4. Len(rest) \in Nat BY <1>2
<1> HIDE DEF rest
<1>5. /\ DOMAIN (loadAsFile(p) \o rest) = 1..(3 + Len(rest))
      /\ (loadAsFile(p) \o rest)[1] = p
  BY <1>2, <1>3, FirstOfThree
<1> QED BY <1>1, <1>4, <1>5

\* The search returns a path that it tried, a file or an entry of the table.
LEMMA HitTried ==
    ASSUME NEW req \in Requests, NEW unread \in SUBSET Unreliable,
           NEW path \in Hit(Tried[<<req, unread>>])
    PROVE  /\ <<req.isPath, keyOf(req), path>> \in Findable
           /\ path \in Exists \/ path \in DOMAIN modules
<1> DEFINE q == <<req, unread>>
<1>1. q \in DOMAIN Tried /\ q[1] = req BY DEF Tried
<1>2. PICK i \in DOMAIN Tried[q] : path = Tried[q][i] /\ path \in Exists \cup DOMAIN modules
  BY DEF Hit
<1>3. path \in Range(Tried[q]) BY <1>2 DEF Range
<1>4. <<q[1].isPath, keyOf(q[1]), path>> \in Findable BY <1>1, <1>3 DEF Findable
<1> QED BY <1>1, <1>2, <1>4

\* A file path that is a file of the loader is what its search returns.
LEMMA HitOwnFile ==
    ASSUME NEW req \in Requests, NEW unread \in SUBSET Unreliable, req.isPath,
           NEW path \in Hit(Tried[<<req, unread>>]), keyOf(req) \in Exists
    PROVE  path = keyOf(req)
<1> DEFINE paths == Tried[<<req, unread>>]
           known == Exists \cup DOMAIN modules
<1>1. PICK n \in Nat : DOMAIN paths = 1..(3 + n) /\ paths[1] = keyOf(req) BY KeyFirst
<1>2. PICK i \in DOMAIN paths :
        path = paths[i] /\ \A j \in 1..i - 1 : paths[j] \notin known
  BY DEF Hit
<1> HIDE DEF paths
<1>3. paths[1] \in known BY <1>1
<1>4. i \in Nat /\ ~(1 \in 1..i - 1) BY <1>1, <1>2, <1>3
<1>5. i = 1 BY <1>1, <1>4
<1> QED BY <1>1, <1>2, <1>5

-----------------------------------------------------------------------------
(* The names of core modules.                                              *)

\* The name of a core module with the prefix is its name again without it.
LEMMA Prefixed ==
    ASSUME NEW c \in Seq(STRING)
    PROVE  Head(<<"node:">> \o c) = "node:" /\ Tail(<<"node:">> \o c) = c
<1> DEFINE S == STRING \cup {"node:"}
<1>1. <<"node:">> \in Seq(S) /\ c \in Seq(S) OBVIOUS
<1>2. <<"node:">> \o c \in Seq(S) /\ Len(<<"node:">> \o c) = Len(c) + 1 BY <1>1
<1>3. \A i \in 1..Len(c) : (<<"node:">> \o c)[i + 1] = c[i] BY <1>1
<1>4. Head(<<"node:">> \o c) = "node:" BY <1>1, <1>2
<1>5. Tail(<<"node:">> \o c) \in Seq(S) /\ Len(Tail(<<"node:">> \o c)) = Len(c) BY <1>2
<1>6. \A i \in 1..Len(c) : Tail(<<"node:">> \o c)[i] = c[i] BY <1>2, <1>3
<1> QED BY <1>1, <1>4, <1>5, <1>6

\* Every name of a core module is native.
LEMMA CoreNamesNative ==
    ASSUME NEW c \in Core, NEW k \in coreNames(c)
    PROVE  isNative(k)
<1>0. c \in Seq(STRING) BY NamesAssumption
<1>1. CASE k = c BY <1>1 DEF isNative, coreOf
<1>2. CASE k = <<"node:">> \o c
  <2>1. hasPrefix(k) /\ Tail(k) = c BY <1>0, <1>2, Prefixed DEF hasPrefix
  <2> QED BY <2>1 DEF isNative, coreOf
<1> QED BY <1>1, <1>2 DEF coreNames

\* A name that is native stays so.
LEMMA NativeStays ==
    ASSUME NEW k, native \subseteq native', isNative(k)
    PROVE  isNative(k)'
BY DEF isNative

-----------------------------------------------------------------------------
(* The entries.                                                            *)

\* What an entry may hold does not depend on the state of the module's code.
LEMMA SameModule ==
    ASSUME NEW k, NEW isPath, NEW m, NEW n, m.kind = n.kind, m.of = n.of
    PROVE  /\ IsOwn(k, m) <=> IsOwn(k, n)
           /\ Taken(isPath, k, m) <=> Taken(isPath, k, n)
<1>1. \A f : IsOwn(f, m) <=> IsOwn(f, n) BY DEF IsOwn
<1> QED BY <1>1 DEF Taken

\* The fields of a module object.
LEMMA ObjectFields ==
    ASSUME NEW m \in ModuleObject
    PROVE  /\ m.kind \in {"file", "native", "core"}
           /\ m.state \in {"running", "done", "failed"}
           /\ m.kind = "file" => m.of \in Exists
           /\ m.kind # "file" => m.of \in Core \cup Natives
BY DEF ModuleObject

\* A path in Findable as a file path is asked for.
LEMMA FindableAsked ==
    ASSUME NEW k, NEW f, <<TRUE, k, f>> \in Findable
    PROVE  Asked(k)
<1>1. PICK q \in DOMAIN Tried : \E g \in Range(Tried[q]) :
        <<TRUE, k, f>> = <<q[1].isPath, keyOf(q[1]), g>>
  BY DEF Findable
<1>2. q[1] \in Requests BY DEF Tried
<1> QED BY <1>1, <1>2 DEF Asked

\* What the search for k tries is findable.
LEMMA OthersFindable ==
    ASSUME NEW isPath \in BOOLEAN, NEW k, NEW f \in Others(isPath, k)
    PROVE  <<isPath, k, f>> \in Findable
<1>1. PICK t \in Findable : t[1] = isPath /\ t[2] = k /\ t[3] = f BY DEF Others
<1>2. PICK q \in DOMAIN Tried : \E g \in Range(Tried[q]) :
        t = <<q[1].isPath, keyOf(q[1]), g>>
  BY DEF Findable
<1>3. t = <<isPath, k, f>> BY <1>1, <1>2
<1> QED BY <1>3

\* And a path found by it is among them, if it is not k itself.
LEMMA FindableOthers ==
    ASSUME NEW isPath \in BOOLEAN, NEW k, NEW f, <<isPath, k, f>> \in Findable,
           isPath => f # k
    PROVE  f \in Others(isPath, k)
<1> DEFINE t == <<isPath, k, f>>
<1>1. t \in Findable /\ t[1] = isPath /\ t[2] = k /\ t[3] = f OBVIOUS
<1> QED BY <1>1 DEF Others

\* What the search for k takes from the entry f of the table is accounted for, if the
\* entry f is.
LEMMA TakenFrom ==
    ASSUME NEW m \in ModuleObject, NEW isPath \in BOOLEAN, NEW k, NEW f \in Others(isPath, k),
           IsOwn(f, m) \/ Taken(TRUE, f, m)
    PROVE  Taken(isPath, k, m)
<1>1. CASE IsOwn(f, m) BY <1>1 DEF Taken
<1>2. CASE ~IsOwn(f, m) /\ Taken(TRUE, f, m)
  <2>1. PICK g \in Others(TRUE, f) : IsOwn(g, m) \/ \E h \in Others(TRUE, g) : Asked(h)
    BY <1>2 DEF Taken
  <2>2. <<TRUE, f, g>> \in Findable BY OthersFindable
  <2>3. Asked(g)
    <3>1. CASE \E h \in Others(TRUE, g) : Asked(h)
      <4>1. PICK h \in Others(TRUE, g) : Asked(h) BY <3>1
      <4>2. <<TRUE, g, h>> \in Findable BY OthersFindable
      <4> QED BY <4>2, FindableAsked
    <3>2. CASE IsOwn(g, m) /\ m.kind = "file"
      <4>1. g # m.of BY <1>2, <2>2, <3>2 DEF IsOwn
      <4>2. <<TRUE, g, m.of>> \in Findable BY <3>2, <4>1 DEF IsOwn
      <4> QED BY <4>2, FindableAsked
    <3>3. CASE IsOwn(g, m) /\ m.kind # "file"
      <4>1. m.of \in Core \cup Natives /\ g \in coreNames(m.of) BY <3>3, ObjectFields DEF IsOwn
      <4> QED BY <4>1 DEF Asked
    <3> QED BY <2>1, <3>1, <3>2, <3>3
  <2> QED BY <2>3 DEF Taken
<1> QED BY <1>1, <1>2

-----------------------------------------------------------------------------
(* The steps.                                                              *)

\* Whose code starts is entered under its own names, none of which was a file's.
LEMMA EvaluateKeeps ==
    ASSUME RequireInv, NEW object \in ModuleObject, NEW K, NEW load \in Load,
           object.state = "running", load.object = Len(objects) + 1,
           Evaluate(object, K, load), IsLoad(load, object),
           \A k \in K : IsOwn(k, object),
           \A k \in K : k \notin DOMAIN modules \/ isNative(k),
           object.kind = "file" => K = {object.of}
    PROVE  RequireInv'
<1> DEFINE n == Len(objects) + 1
<1> USE DEF RequireInv
<1>1. /\ objects \in Seq(ModuleObject) /\ evaluating \in Seq(Load)
      /\ DOMAIN objects = 1..Len(objects) /\ Len(objects) \in Nat
      /\ DOMAIN evaluating = 1..Len(evaluating) /\ Len(evaluating) \in Nat
  BY DEF EntriesInv, LoadsInv
<1>2. /\ objects' \in Seq(ModuleObject) /\ DOMAIN objects' = DOMAIN objects \cup {n}
      /\ \A i \in DOMAIN objects : objects'[i] = objects[i]
      /\ objects'[n] = object /\ n \notin DOMAIN objects
  BY <1>1 DEF Evaluate
<1>3. /\ DOMAIN modules' = DOMAIN modules \cup K
      /\ \A k \in K : modules'[k] = n
      /\ \A k \in DOMAIN modules \ K : modules'[k] = modules[k]
  BY DEF Evaluate, Entered
<1>4. native' = native /\ nodeModules' = nodeModules /\ partial' = partial BY DEF Evaluate
<1>5. EntriesInv'
  <2>1. \A k \in DOMAIN modules' : modules'[k] \in DOMAIN objects'
    BY <1>2, <1>3 DEF EntriesInv
  <2>2. \A k \in DOMAIN nodeModules' : nodeModules'[k] \in DOMAIN objects'
    BY <1>2, <1>4 DEF EntriesInv
  <2> QED BY <1>2, <1>4, <2>1, <2>2 DEF EntriesInv
<1>6. LoadsInv'
  <2> DEFINE l == Len(evaluating) + 1
  <2>1. /\ evaluating' \in Seq(Load) /\ DOMAIN evaluating' = DOMAIN evaluating \cup {l}
        /\ \A i \in DOMAIN evaluating : evaluating'[i] = evaluating[i]
        /\ evaluating'[l] = load /\ l \notin DOMAIN evaluating
    BY <1>1 DEF Evaluate
  <2> HIDE DEF l
  <2>2. ASSUME NEW i \in DOMAIN evaluating'
        PROVE  /\ evaluating'[i].object \in DOMAIN objects'
               /\ objects'[evaluating'[i].object].state = "running"
               /\ IsLoad(evaluating'[i], objects'[evaluating'[i].object])
    <3>1. CASE i = l BY <1>2, <2>1, <3>1
    <3>2. CASE i \in DOMAIN evaluating BY <1>2, <2>1, <3>2 DEF LoadsInv
    <3> QED BY <2>1, <3>1, <3>2
  <2>3. ASSUME NEW i \in DOMAIN evaluating', NEW j \in DOMAIN evaluating',
               evaluating'[i].object = evaluating'[j].object
        PROVE  i = j
    <3>1. \A k \in DOMAIN evaluating : evaluating'[k].object # n BY <1>2, <2>1 DEF LoadsInv
    <3>2. evaluating'[l].object = n BY <2>1
    <3> QED BY <2>1, <2>3, <3>1, <3>2 DEF LoadsInv
  <2> QED BY <2>1, <2>2, <2>3 DEF LoadsInv
<1>7. CycleInv'
  <2> SUFFICES ASSUME NEW i \in DOMAIN objects', objects'[i].kind = "file", objects'[i].state # "done"
               PROVE  /\ \A k \in DOMAIN modules' : modules'[k] = i =>
                           \/ i \in partial
                           \/ objects'[i].state = "running" /\ k = objects'[i].of
                      /\ \A k \in DOMAIN nodeModules : nodeModules[k] = i => i \in partial
    BY <1>4 DEF CycleInv
  <2>1. CASE i = n
    BY <1>2, <1>3, <2>1 DEF EntriesInv
  <2>2. CASE i \in DOMAIN objects
    BY <1>2, <1>3, <2>2 DEF CycleInv
  <2> QED BY <1>2, <2>1, <2>2
<1>8. FailedInv'
  <2> SUFFICES ASSUME NEW i \in DOMAIN objects', objects'[i].kind = "file",
                      objects'[i].state = "failed", NEW k \in DOMAIN modules', modules'[k] = i
               PROVE  k # objects'[i].of
    BY DEF FailedInv
  <2> QED BY <1>2, <1>3 DEF FailedInv
<1>9. EvaluatedOnce'
  <2> SUFFICES ASSUME NEW i \in DOMAIN objects', objects'[i].kind = "file",
                      ~isNative(objects'[i].of), objects'[i].state # "failed"
               PROVE  objects'[i].of \in DOMAIN modules' /\ modules'[objects'[i].of] = i
    BY <1>4 DEF EvaluatedOnce, FileModules, isNative
  <2>1. CASE i = n BY <1>2, <1>3, <2>1
  <2>2. CASE i \in DOMAIN objects
    <3>1. objects[i].of \in DOMAIN modules /\ modules[objects[i].of] = i
      BY <1>2, <2>2 DEF EvaluatedOnce, FileModules
    <3>2. objects[i].of \notin K BY <1>2, <2>2, <3>1
    <3> QED BY <1>2, <1>3, <2>2, <3>1, <3>2
  <2> QED BY <1>2, <2>1, <2>2
<1>10. FoundByTheSearch'
  <2>1. ASSUME NEW k \in DOMAIN modules'
        PROVE  IsOwn(k, objects'[modules'[k]]) \/ Taken(TRUE, k, objects'[modules'[k]])
    <3>1. CASE k \in K BY <1>2, <1>3, <3>1
    <3>2. CASE k \notin K
      <4>1. k \in DOMAIN modules /\ modules'[k] = modules[k] /\ modules[k] \in DOMAIN objects
        BY <1>3, <3>2 DEF EntriesInv
      <4>2. objects'[modules'[k]] = objects[modules[k]] BY <1>2, <4>1
      <4> QED BY <4>1, <4>2 DEF FoundByTheSearch
    <3> QED BY <3>1, <3>2
  <2>2. ASSUME NEW k \in DOMAIN nodeModules
        PROVE  \/ <<FALSE, k, objects'[nodeModules[k]].of>> \in Findable
               \/ Taken(FALSE, k, objects'[nodeModules[k]])
    <3>1. objects'[nodeModules[k]] = objects[nodeModules[k]] BY <1>2 DEF EntriesInv
    <3> QED BY <3>1 DEF FoundByTheSearch
  <2> QED BY <1>4, <2>1, <2>2 DEF FoundByTheSearch
<1> QED BY <1>5, <1>6, <1>7, <1>8, <1>9, <1>10

\* A file that the search found, and that no table held, is loaded.
LEMMA LoadModuleKeeps ==
    ASSUME RequireInv, NEW req \in Requests, NEW unread \in SUBSET Unreliable,
           NEW path \in Hit(Tried[<<req, unread>>]), path \notin DOMAIN modules,
           loadModule(path, req)
    PROVE  RequireInv'
<1> DEFINE object == [kind |-> "file", of |-> path, state |-> "running"]
           load == [object |-> Len(objects) + 1, isPath |-> req.isPath, key |-> keyOf(req)]
<1>1. path \in Exists /\ <<req.isPath, keyOf(req), path>> \in Findable BY HitTried
<1>2. object \in ModuleObject BY <1>1 DEF ModuleObject
<1>3. load \in Load
  <2>1. Len(objects) + 1 \in Nat BY DEF RequireInv, EntriesInv
  <2>2. req.isPath \in BOOLEAN BY NamesAssumption
  <2> QED BY <2>1, <2>2 DEF Load
<1>4. IsLoad(load, object)
  <2>1. req.isPath => keyOf(req) = path \/ keyOf(req) \notin Exists BY HitOwnFile
  <2> QED BY <1>1, <2>1 DEF IsLoad
<1>5. IsOwn(path, object) BY DEF IsOwn
<1>6. Evaluate(object, {path}, load) BY DEF loadModule
<1>7. object.state = "running" /\ object.of = path /\ load.object = Len(objects) + 1 OBVIOUS
<1> HIDE DEF object, load
<1> QED BY <1>2, <1>3, <1>4, <1>5, <1>6, <1>7, EvaluateKeeps

\* A registered or core module is loaded.
LEMMA LoadNativeKeeps ==
    ASSUME RequireInv, NEW req \in Requests, loadNative(req.path)
    PROVE  RequireInv'
<1> DEFINE name == req.path
           load == [object |-> Len(objects) + 1, isPath |-> TRUE, key |-> name]
           registered == [kind |-> "native", of |-> name, state |-> "running"]
           core == [kind |-> "core", of |-> coreOf(name), state |-> "running"]
<1>1. load \in Load /\ load.object = Len(objects) + 1
  <2>1. Len(objects) + 1 \in Nat BY DEF RequireInv, EntriesInv
  <2> QED BY <2>1 DEF Load
<1>2. CASE name \in native /\ Evaluate(registered, {name}, load)
  <2>1. registered \in ModuleObject BY <1>2 DEF ModuleObject, RequireInv, EntriesInv
  <2>2. IsLoad(load, registered) BY DEF IsLoad
  <2>3. IsOwn(name, registered) BY DEF IsOwn, coreNames
  <2>4. isNative(name) BY <1>2 DEF isNative
  <2>5. registered.state = "running" /\ registered.kind # "file" OBVIOUS
  <2> HIDE DEF load, registered
  <2> QED BY <1>1, <1>2, <2>1, <2>2, <2>3, <2>4, <2>5, EvaluateKeeps
<1>3. CASE coreOf(name) \in Core /\ Evaluate(core, coreNames(coreOf(name)), load)
  <2>1. core \in ModuleObject BY <1>3 DEF ModuleObject
  <2>2. IsLoad(load, core) BY DEF IsLoad
  <2>3. \A k \in coreNames(coreOf(name)) : IsOwn(k, core) BY DEF IsOwn
  <2>4. \A k \in coreNames(coreOf(name)) : isNative(k) BY <1>3, CoreNamesNative
  <2>5. core.state = "running" /\ core.kind # "file" OBVIOUS
  <2> HIDE DEF load, core
  <2> QED BY <1>1, <1>3, <2>1, <2>2, <2>3, <2>4, <2>5, EvaluateKeeps
<1> QED BY <1>2, <1>3 DEF loadNative

\* What a table holds is handed out.
LEMMA HandOutKeeps ==
    ASSUME RequireInv, NEW m \in DOMAIN objects, HandOut(m),
           UNCHANGED <<native, modules, nodeModules, objects, evaluating>>
    PROVE  RequireInv'
<1> USE DEF RequireInv
<1>1. partial \subseteq partial' BY DEF HandOut
<1>2. EntriesInv' BY DEF EntriesInv
<1>3. LoadsInv' BY DEF LoadsInv
<1>4. CycleInv' BY <1>1 DEF CycleInv
<1>5. FailedInv' BY DEF FailedInv
<1>6. EvaluatedOnce' BY DEF EvaluatedOnce, FileModules, isNative
<1>7. FoundByTheSearch' BY DEF FoundByTheSearch
<1> QED BY <1>2, <1>3, <1>4, <1>5, <1>6, <1>7

\* What the search found in the table is entered under the path asked for as well.
LEMMA EnterFoundKeeps ==
    ASSUME RequireInv, NEW req \in Requests, NEW unread \in SUBSET Unreliable,
           NEW path \in Hit(Tried[<<req, unread>>]), path \in DOMAIN modules,
           req.isPath => keyOf(req) \notin DOMAIN modules,
           Enter(req.isPath, keyOf(req), modules[path]), HandOut(modules[path]),
           UNCHANGED <<native, objects, evaluating>>
    PROVE  RequireInv'
<1> DEFINE m == modules[path]
           key == keyOf(req)
<1> USE DEF RequireInv
<1>0. m \in DOMAIN objects /\ req.isPath \in BOOLEAN BY NamesAssumption DEF EntriesInv
<1>1. /\ <<req.isPath, key, path>> \in Findable
      /\ req.isPath => path # key /\ key \notin Exists
  BY HitTried, HitOwnFile
<1>2. partial \subseteq partial' /\ (objects[m].state = "running" => m \in partial')
  BY DEF HandOut
<1>3. objects[m] \in ModuleObject
  BY <1>0 DEF EntriesInv
<1>4. Taken(req.isPath, key, objects[m])
  <2>1. path \in Others(req.isPath, key) BY <1>0, <1>1, FindableOthers
  <2>2. IsOwn(path, objects[m]) \/ Taken(TRUE, path, objects[m]) BY DEF FoundByTheSearch
  <2> QED BY <1>0, <1>3, <2>1, <2>2, TakenFrom
<1>5. objects[m].kind = "file" /\ objects[m].state # "done" => m \in partial'
  <2>1. CASE objects[m].state = "running" BY <1>2, <2>1
  <2>2. CASE objects[m].kind = "file" /\ objects[m].state = "failed"
    BY <1>0, <1>2, <2>2 DEF CycleInv
  <2> QED BY <1>3, <2>1, <2>2, ObjectFields
<1>6. LoadsInv' BY DEF LoadsInv
<1> HIDE DEF m
<1>7. CASE req.isPath
  <2>1. /\ DOMAIN modules' = DOMAIN modules \cup {key} /\ modules'[key] = m
        /\ \A k \in DOMAIN modules : modules'[k] = modules[k]
        /\ nodeModules' = nodeModules
    BY <1>7 DEF Enter, Entered, m
  <2> HIDE DEF key
  <2>2. EntriesInv' BY <1>0, <2>1 DEF EntriesInv
  <2>3. CycleInv' BY <1>2, <1>5, <2>1 DEF CycleInv
  <2>4. FailedInv'
    <3>1. objects[m].kind = "file" => objects[m].of # key BY <1>1, <1>3, <1>7, ObjectFields
    <3> QED BY <2>1, <3>1 DEF FailedInv
  <2>5. EvaluatedOnce' BY <2>1 DEF EvaluatedOnce, FileModules, isNative
  <2>6. FoundByTheSearch' BY <1>4, <1>7, <2>1 DEF FoundByTheSearch
  <2> QED BY <1>6, <2>2, <2>3, <2>4, <2>5, <2>6
<1>8. CASE ~req.isPath
  <2>0. req.isPath = FALSE BY <1>0, <1>8
  <2>1. /\ DOMAIN nodeModules' = DOMAIN nodeModules \cup {key} /\ nodeModules'[key] = m
        /\ \A k \in DOMAIN nodeModules \ {key} : nodeModules'[k] = nodeModules[k]
        /\ modules' = modules
    BY <1>8 DEF Enter, Entered, m
  <2> HIDE DEF key
  <2>2. EntriesInv' BY <1>0, <2>1 DEF EntriesInv
  <2>3. CycleInv' BY <1>2, <1>5, <2>1 DEF CycleInv
  <2>4. FailedInv' BY <2>1 DEF FailedInv
  <2>5. EvaluatedOnce' BY <2>1 DEF EvaluatedOnce, FileModules, isNative
  <2>6. FoundByTheSearch' BY <1>4, <2>0, <2>1 DEF FoundByTheSearch
  <2> QED BY <1>6, <2>2, <2>3, <2>4, <2>5, <2>6
<1> QED BY <1>7, <1>8

\* The search loads a file or enters what the table holds.
LEMMA SearchKeeps ==
    ASSUME RequireInv, NEW req \in Requests, NEW unread \in SUBSET Unreliable,
           req.isPath => keyOf(req) \notin DOMAIN modules, search(req, unread)
    PROVE  RequireInv'
<1>1. PICK path \in Hit(Tried[<<req, unread>>]) :
        IF path \in DOMAIN modules
          THEN /\ Enter(req.isPath, keyOf(req), modules[path]) /\ HandOut(modules[path])
               /\ UNCHANGED <<native, compiled, objects, evaluating>>
          ELSE getCompiledSource(path, unread) /\ loadModule(path, req)
  BY DEF search
<1>2. CASE path \in DOMAIN modules BY <1>1, <1>2, EnterFoundKeeps
<1>3. CASE path \notin DOMAIN modules BY <1>1, <1>3, LoadModuleKeeps
<1> QED BY <1>2, <1>3

\* require, through every way that resolve takes.
LEMMA ResolveKeeps ==
    ASSUME RequireInv, NEW req \in Requests, NEW unread \in SUBSET Unreliable,
           resolve(req, unread)
    PROVE  RequireInv'
<1>1. ASSUME NEW key, fromTable(modules, key) PROVE RequireInv'
  <2>1. modules[key] \in DOMAIN objects BY <1>1 DEF fromTable, RequireInv, EntriesInv
  <2> QED BY <1>1, <2>1, HandOutKeeps DEF fromTable
<1>2. ASSUME NEW key, fromTable(nodeModules, key) PROVE RequireInv'
  <2>1. nodeModules[key] \in DOMAIN objects BY <1>2 DEF fromTable, RequireInv, EntriesInv
  <2> QED BY <1>2, <2>1, HandOutKeeps DEF fromTable
<1>3. CASE req.isPath /\ keyOf(req) \notin DOMAIN modules /\ search(req, unread)
  BY <1>3, SearchKeeps
<1>4. CASE ~req.isPath /\ search(req, unread) BY <1>4, SearchKeeps
<1>5. CASE loadNative(req.path) BY <1>5, LoadNativeKeeps
<1> QED BY <1>1, <1>2, <1>3, <1>4, <1>5 DEF resolve

\* The end of the innermost load: its object changes state, the others' loads go on.
LEMMA EndedFacts ==
    ASSUME EntriesInv, LoadsInv, evaluating # <<>>, NEW state \in {"done", "failed"},
           Ended(state), evaluating' = Front(evaluating)
    PROVE  /\ Last(evaluating) \in Load /\ Last(evaluating).object \in DOMAIN objects
           /\ objects[Last(evaluating).object].state = "running"
           /\ IsLoad(Last(evaluating), objects[Last(evaluating).object])
           /\ objects' \in Seq(ModuleObject) /\ DOMAIN objects' = DOMAIN objects
           /\ \A i \in DOMAIN objects : objects'[i].kind = objects[i].kind /\ objects'[i].of = objects[i].of
           /\ \A i \in DOMAIN objects : i # Last(evaluating).object => objects'[i] = objects[i]
           /\ objects'[Last(evaluating).object].state = state
           /\ LoadsInv'
<1> DEFINE n == Len(evaluating)
           o == Last(evaluating).object
<1>1. n \in Nat /\ n # 0 /\ DOMAIN evaluating = 1..n BY DEF LoadsInv
<1>2. Last(evaluating) = evaluating[n] /\ n \in DOMAIN evaluating BY <1>1 DEF Last
<1>3. Last(evaluating) \in Load BY <1>1, <1>2 DEF LoadsInv
<1>4. /\ o \in DOMAIN objects /\ objects[o].state = "running"
      /\ IsLoad(Last(evaluating), objects[o])
  BY <1>2 DEF LoadsInv
<1>5. /\ evaluating' \in Seq(Load) /\ DOMAIN evaluating' = 1..n - 1
      /\ \A i \in 1..n - 1 : evaluating'[i] = evaluating[i]
  <2>1. evaluating' = SubSeq(evaluating, 1, n - 1) BY DEF Front
  <2> QED BY <1>1, <2>1 DEF LoadsInv
<1> HIDE DEF o, n
<1>6. objects' = [objects EXCEPT ![o].state = state] BY DEF Ended, o
<1>7. DOMAIN objects' = DOMAIN objects BY <1>6
<1>8. \A i \in DOMAIN objects : i # o => objects'[i] = objects[i] BY <1>6
<1>9. objects'[o] = [objects[o] EXCEPT !.state = state] BY <1>4, <1>6
<1>10. objects[o] \in ModuleObject BY <1>4 DEF EntriesInv
<1>11. /\ objects'[o].kind = objects[o].kind /\ objects'[o].of = objects[o].of
       /\ objects'[o].state = state /\ objects'[o] \in ModuleObject
  <2>1. CASE objects[o] \in [kind : {"file"}, of : Exists, state : {"running", "done", "failed"}]
    BY <1>9, <2>1 DEF ModuleObject
  <2>2. CASE objects[o] \in [kind : {"native"}, of : Natives, state : {"running", "done", "failed"}]
    BY <1>9, <2>2 DEF ModuleObject
  <2>3. CASE objects[o] \in [kind : {"core"}, of : Core, state : {"running", "done", "failed"}]
    BY <1>9, <2>3 DEF ModuleObject
  <2> QED BY <1>10, <2>1, <2>2, <2>3 DEF ModuleObject
<1>12. objects' \in Seq(ModuleObject)
  <2>1. objects \in Seq(ModuleObject) BY DEF EntriesInv
  <2>2. objects' \in [1..Len(objects) -> ModuleObject]
    <3>1. objects' = [i \in DOMAIN objects |-> objects'[i]] BY <1>6
    <3>2. \A i \in DOMAIN objects : objects'[i] \in ModuleObject BY <1>8, <1>11, <2>1
    <3> QED BY <2>1, <3>1, <3>2
  <2> QED BY <2>1, <2>2
<1>13. LoadsInv'
  <2>1. ASSUME NEW i \in 1..n - 1
        PROVE  /\ i \in DOMAIN evaluating /\ i # n
               /\ evaluating[i].object # o /\ evaluating[i].object \in DOMAIN objects
               /\ objects'[evaluating[i].object] = objects[evaluating[i].object]
    <3>1. i \in DOMAIN evaluating /\ i # n BY <1>1
    <3>2. evaluating[n].object = o BY <1>2 DEF o
    <3>3. evaluating[i].object # o BY <1>2, <3>1, <3>2 DEF LoadsInv
    <3> QED BY <1>8, <3>1, <3>3 DEF LoadsInv
  <2>2. \A i \in DOMAIN evaluating' :
          /\ evaluating'[i].object \in DOMAIN objects'
          /\ objects'[evaluating'[i].object].state = "running"
          /\ IsLoad(evaluating'[i], objects'[evaluating'[i].object])
    BY <1>5, <1>7, <2>1 DEF LoadsInv
  <2>3. \A i, j \in DOMAIN evaluating' : evaluating'[i].object = evaluating'[j].object => i = j
    BY <1>5, <2>1 DEF LoadsInv
  <2> QED BY <1>5, <2>2, <2>3 DEF LoadsInv
<1>14. \A i \in DOMAIN objects : objects'[i].kind = objects[i].kind /\ objects'[i].of = objects[i].of
  BY <1>8, <1>11
<1> QED BY <1>3, <1>4, <1>7, <1>8, <1>11, <1>12, <1>13, <1>14 DEF o

\* An entry that stays holds what it held, whatever became of its module's code.
LEMMA FoundStays ==
    ASSUME NEW isPath, NEW k, NEW i \in DOMAIN objects,
           \A j \in DOMAIN objects : objects'[j].kind = objects[j].kind /\ objects'[j].of = objects[j].of
    PROVE  /\ IsOwn(k, objects'[i]) <=> IsOwn(k, objects[i])
           /\ Taken(isPath, k, objects'[i]) <=> Taken(isPath, k, objects[i])
BY SameModule

\* Code that throws takes its file out of the table.
LEMMA CodeThrowsKeeps ==
    ASSUME RequireInv, CodeThrows
    PROVE  RequireInv'
<1> DEFINE o == Last(evaluating).object
<1> USE DEF RequireInv
<1>1. /\ evaluating # <<>> /\ Ended("failed") /\ evaluating' = Front(evaluating)
      /\ native' = native /\ nodeModules' = nodeModules /\ partial' = partial
      /\ modules' = IF objects[o].kind = "file"
                      THEN [k \in DOMAIN modules \ {objects[o].of} |-> modules[k]] ELSE modules
  BY DEF CodeThrows, Running
<1>2. /\ o \in DOMAIN objects /\ objects[o].state = "running"
      /\ objects' \in Seq(ModuleObject) /\ DOMAIN objects' = DOMAIN objects
      /\ \A i \in DOMAIN objects : objects'[i].kind = objects[i].kind /\ objects'[i].of = objects[i].of
      /\ \A i \in DOMAIN objects : i # o => objects'[i] = objects[i]
      /\ objects'[o].state = "failed" /\ LoadsInv'
  BY <1>1, EndedFacts
<1> HIDE DEF o
<1>3. /\ DOMAIN modules' \subseteq DOMAIN modules
      /\ \A k \in DOMAIN modules' : modules'[k] = modules[k]
      /\ objects[o].kind = "file" => objects[o].of \notin DOMAIN modules'
      /\ \A k \in DOMAIN modules : k # objects[o].of \/ objects[o].kind # "file" => k \in DOMAIN modules'
  <2>1. CASE objects[o].kind = "file" BY <1>1, <2>1
  <2>2. CASE objects[o].kind # "file" BY <1>1, <2>2
  <2> QED BY <2>1, <2>2
<1>4. EntriesInv' BY <1>1, <1>2, <1>3 DEF EntriesInv
<1>5. CycleInv'
  <2> SUFFICES ASSUME NEW i \in DOMAIN objects, objects'[i].kind = "file", objects'[i].state # "done"
               PROVE  /\ \A k \in DOMAIN modules' : modules'[k] = i =>
                           \/ i \in partial
                           \/ objects'[i].state = "running" /\ k = objects'[i].of
                      /\ \A k \in DOMAIN nodeModules : nodeModules[k] = i => i \in partial
    BY <1>1, <1>2 DEF CycleInv
  <2>1. CASE i = o BY <1>2, <1>3, <2>1 DEF CycleInv
  <2>2. CASE i # o BY <1>2, <1>3, <2>2 DEF CycleInv
  <2> QED BY <2>1, <2>2
<1>6. FailedInv'
  <2> SUFFICES ASSUME NEW i \in DOMAIN objects, objects'[i].kind = "file",
                      objects'[i].state = "failed", NEW k \in DOMAIN modules', modules'[k] = i
               PROVE  k # objects'[i].of
    BY <1>2 DEF FailedInv
  <2>1. CASE i = o BY <1>2, <1>3, <2>1
  <2>2. CASE i # o BY <1>2, <1>3, <2>2 DEF FailedInv
  <2> QED BY <2>1, <2>2
<1>7. EvaluatedOnce'
  <2> SUFFICES ASSUME NEW i \in DOMAIN objects, objects'[i].kind = "file",
                      ~isNative(objects'[i].of), objects'[i].state # "failed"
               PROVE  objects'[i].of \in DOMAIN modules' /\ modules'[objects'[i].of] = i
    BY <1>1, <1>2 DEF EvaluatedOnce, FileModules, isNative
  <2>1. i # o /\ objects'[i] = objects[i] BY <1>2
  <2>2. objects[i].of \in DOMAIN modules /\ modules[objects[i].of] = i
    BY <2>1 DEF EvaluatedOnce, FileModules
  <2>3. objects[o].kind = "file" => objects[i].of # objects[o].of
    BY <1>2, <2>1, <2>2 DEF EvaluatedOnce, FileModules
  <2> QED BY <1>3, <2>1, <2>2, <2>3
<1>8. FoundByTheSearch'
  <2>1. ASSUME NEW k \in DOMAIN modules'
        PROVE  IsOwn(k, objects'[modules'[k]]) \/ Taken(TRUE, k, objects'[modules'[k]])
    <3>1. k \in DOMAIN modules /\ modules'[k] = modules[k] /\ modules[k] \in DOMAIN objects
      BY <1>3 DEF EntriesInv
    <3>2. IsOwn(k, objects[modules[k]]) \/ Taken(TRUE, k, objects[modules[k]])
      BY <3>1 DEF FoundByTheSearch
    <3> QED BY <1>2, <3>1, <3>2, FoundStays
  <2>2. ASSUME NEW k \in DOMAIN nodeModules
        PROVE  \/ <<FALSE, k, objects'[nodeModules[k]].of>> \in Findable
               \/ Taken(FALSE, k, objects'[nodeModules[k]])
    <3>1. nodeModules[k] \in DOMAIN objects BY DEF EntriesInv
    <3> QED BY <1>2, <3>1, FoundStays DEF FoundByTheSearch
  <2> QED BY <1>1, <2>1, <2>2 DEF FoundByTheSearch
<1> QED BY <1>2, <1>4, <1>5, <1>6, <1>7, <1>8

\* Code that returns leaves its file entered under the path asked for as well.
LEMMA CodeReturnsKeeps ==
    ASSUME RequireInv, CodeReturns
    PROVE  RequireInv'
<1> DEFINE e == Last(evaluating)
           o == e.object
           file == objects[o].kind = "file"
<1> USE DEF RequireInv
<1>1. /\ evaluating # <<>> /\ Ended("done") /\ evaluating' = Front(evaluating)
      /\ native' = native /\ partial' = partial
      /\ IF file THEN Enter(e.isPath, e.key, o) ELSE UNCHANGED <<modules, nodeModules>>
  BY DEF CodeReturns, Running
<1>2. /\ o \in DOMAIN objects /\ objects[o].state = "running"
      /\ e.isPath \in BOOLEAN /\ IsLoad(e, objects[o])
      /\ objects' \in Seq(ModuleObject) /\ DOMAIN objects' = DOMAIN objects
      /\ \A i \in DOMAIN objects : objects'[i].kind = objects[i].kind /\ objects'[i].of = objects[i].of
      /\ \A i \in DOMAIN objects : i # o => objects'[i] = objects[i]
      /\ objects'[o].state = "done" /\ LoadsInv'
  BY <1>1, EndedFacts DEF Load
<1> HIDE DEF e
<1>3. /\ DOMAIN modules' = DOMAIN modules \cup (IF file /\ e.isPath THEN {e.key} ELSE {})
      /\ \A k \in DOMAIN modules' :
           modules'[k] = IF file /\ e.isPath /\ k = e.key THEN o ELSE modules[k]
  <2>1. CASE file /\ e.isPath BY <1>1, <2>1 DEF Enter, Entered
  <2>2. CASE ~(file /\ e.isPath) BY <1>1, <2>2 DEF Enter
  <2> QED BY <2>1, <2>2
<1>4. /\ DOMAIN nodeModules' = DOMAIN nodeModules \cup (IF file /\ ~e.isPath THEN {e.key} ELSE {})
      /\ \A k \in DOMAIN nodeModules' :
           nodeModules'[k] = IF file /\ ~e.isPath /\ k = e.key THEN o ELSE nodeModules[k]
  <2>1. CASE file /\ ~e.isPath BY <1>1, <2>1 DEF Enter, Entered
  <2>2. CASE ~(file /\ ~e.isPath) BY <1>1, <2>2 DEF Enter
  <2> QED BY <2>1, <2>2
<1> HIDE DEF o
<1>5. EntriesInv' BY <1>1, <1>2, <1>3, <1>4 DEF EntriesInv
<1>6. CycleInv' /\ FailedInv'
  <2> SUFFICES ASSUME NEW i \in DOMAIN objects, objects'[i].kind = "file", objects'[i].state # "done"
               PROVE  /\ \A k \in DOMAIN modules' : modules'[k] = i =>
                           \/ i \in partial
                           \/ objects'[i].state = "running" /\ k = objects'[i].of
                      /\ \A k \in DOMAIN nodeModules' : nodeModules'[k] = i => i \in partial
                      /\ objects'[i].state = "failed" =>
                           \A k \in DOMAIN modules' : modules'[k] = i => k # objects'[i].of
    BY <1>1, <1>2 DEF CycleInv, FailedInv
  <2>1. i # o /\ objects'[i] = objects[i] BY <1>2
  <2>2. \A k \in DOMAIN modules' : modules'[k] = i => k \in DOMAIN modules /\ modules[k] = i
    BY <1>3, <2>1
  <2>3. \A k \in DOMAIN nodeModules' : nodeModules'[k] = i => k \in DOMAIN nodeModules /\ nodeModules[k] = i
    BY <1>4, <2>1
  <2> QED BY <2>1, <2>2, <2>3 DEF CycleInv, FailedInv
<1>7. EvaluatedOnce'
  <2> SUFFICES ASSUME NEW i \in DOMAIN objects, objects'[i].kind = "file",
                      ~isNative(objects'[i].of), objects'[i].state # "failed"
               PROVE  objects'[i].of \in DOMAIN modules' /\ modules'[objects'[i].of] = i
    BY <1>1, <1>2 DEF EvaluatedOnce, FileModules, isNative
  <2>1. objects[i].kind = "file" /\ objects[i].of = objects'[i].of /\ objects[i].state # "failed"
    BY <1>2
  <2>2. objects[i].of \in DOMAIN modules /\ modules[objects[i].of] = i
    BY <2>1 DEF EvaluatedOnce, FileModules
  <2>3. objects[i].of \in Exists
    <3>1. objects[i] \in ModuleObject BY DEF EntriesInv
    <3> QED BY <2>1, <3>1, ObjectFields
  <2>4. ASSUME file, e.isPath, objects[i].of = e.key PROVE i = o
    <3>1. e.key = objects[o].of BY <1>2, <2>3, <2>4 DEF IsLoad
    <3> QED BY <1>2, <2>1, <2>2, <2>4, <3>1 DEF EvaluatedOnce, FileModules
  <2> QED BY <1>3, <2>1, <2>2, <2>4
<1>8. FoundByTheSearch'
  <2>1. ASSUME NEW k \in DOMAIN modules'
        PROVE  IsOwn(k, objects'[modules'[k]]) \/ Taken(TRUE, k, objects'[modules'[k]])
    <3>1. CASE file /\ e.isPath /\ k = e.key
      <4>1. <<TRUE, k, objects[o].of>> \in Findable BY <1>2, <3>1 DEF IsLoad
      <4>2. modules'[k] = o BY <1>3, <3>1
      <4>3. objects'[o].kind = "file" /\ objects'[o].of = objects[o].of BY <1>2, <3>1
      <4> QED BY <4>1, <4>2, <4>3 DEF IsOwn
    <3>2. CASE ~(file /\ e.isPath /\ k = e.key)
      <4>1. k \in DOMAIN modules /\ modules'[k] = modules[k] /\ modules[k] \in DOMAIN objects
        BY <1>3, <3>2 DEF EntriesInv
      <4>2. IsOwn(k, objects[modules[k]]) \/ Taken(TRUE, k, objects[modules[k]])
        BY <4>1 DEF FoundByTheSearch
      <4> QED BY <1>2, <4>1, <4>2, FoundStays
    <3> QED BY <3>1, <3>2
  <2>2. ASSUME NEW k \in DOMAIN nodeModules'
        PROVE  \/ <<FALSE, k, objects'[nodeModules'[k]].of>> \in Findable
               \/ Taken(FALSE, k, objects'[nodeModules'[k]])
    <3>1. CASE file /\ ~e.isPath /\ k = e.key
      <4>1. <<FALSE, k, objects[o].of>> \in Findable BY <1>2, <3>1 DEF IsLoad
      <4> QED BY <1>2, <1>4, <3>1, <4>1
    <3>2. CASE ~(file /\ ~e.isPath /\ k = e.key)
      <4>1. k \in DOMAIN nodeModules /\ nodeModules'[k] = nodeModules[k] /\ nodeModules[k] \in DOMAIN objects
        BY <1>4, <3>2 DEF EntriesInv
      <4> QED BY <1>2, <4>1, FoundStays DEF FoundByTheSearch
    <3> QED BY <3>1, <3>2
  <2> QED BY <2>1, <2>2 DEF FoundByTheSearch
<1> QED BY <1>2, <1>5, <1>6, <1>7, <1>8

\* A registered name may make a file's entry a native module's, never the reverse.
LEMMA RegisterKeeps ==
    ASSUME RequireInv, NEW name \in Natives, RegisterNativeModule(name)
    PROVE  RequireInv'
<1> USE DEF RequireInv
<1>1. /\ native' = native \cup {name}
      /\ UNCHANGED <<modules, nodeModules, objects, evaluating, partial>>
  BY DEF RegisterNativeModule
<1>2. EntriesInv' BY <1>1 DEF EntriesInv
<1>3. LoadsInv' BY <1>1 DEF LoadsInv
<1>4. CycleInv' BY <1>1 DEF CycleInv
<1>5. FailedInv' BY <1>1 DEF FailedInv
<1>6. EvaluatedOnce'
  <2>1. \A k : isNative(k) => isNative(k)' BY <1>1, NativeStays
  <2>2. FileModules' \subseteq FileModules BY <1>1, <2>1 DEF FileModules
  <2> QED BY <1>1, <2>2 DEF EvaluatedOnce
<1>7. FoundByTheSearch' BY <1>1 DEF FoundByTheSearch
<1> QED BY <1>2, <1>3, <1>4, <1>5, <1>6, <1>7

\* The invariant of the two tables.
LEMMA RequireInvariance == RequireSpec => []RequireInv
<1>1. RequireInit => RequireInv
  <2> SUFFICES ASSUME RequireInit PROVE RequireInv OBVIOUS
  <2>1. DOMAIN modules = {} /\ DOMAIN nodeModules = {} /\ DOMAIN objects = {} /\ DOMAIN evaluating = {}
    BY DEF RequireInit
  <2>2. EntriesInv BY <2>1 DEF RequireInit, EntriesInv
  <2>3. LoadsInv BY <2>1 DEF RequireInit, LoadsInv
  <2>4. CycleInv /\ FailedInv BY <2>1 DEF CycleInv, FailedInv
  <2>5. EvaluatedOnce BY <2>1 DEF EvaluatedOnce, FileModules
  <2>6. FoundByTheSearch BY <2>1 DEF FoundByTheSearch
  <2> QED BY <2>2, <2>3, <2>4, <2>5, <2>6 DEF RequireInv
<1>2. RequireInv /\ [RequireNext]_requireVars => RequireInv'
  <2> SUFFICES ASSUME RequireInv, [RequireNext]_requireVars PROVE RequireInv' OBVIOUS
  <2>1. CASE UNCHANGED requireVars
    <3>1. UNCHANGED <<native, modules, nodeModules, objects, evaluating, partial>>
      BY <2>1 DEF requireVars
    <3>2. EntriesInv' /\ LoadsInv' /\ CycleInv' /\ FailedInv'
      BY <3>1 DEF RequireInv, EntriesInv, LoadsInv, CycleInv, FailedInv
    <3>3. EvaluatedOnce' BY <3>1 DEF RequireInv, EvaluatedOnce, FileModules, isNative
    <3>4. FoundByTheSearch' BY <3>1 DEF RequireInv, FoundByTheSearch
    <3> QED BY <3>2, <3>3, <3>4 DEF RequireInv
  <2>2. CASE \E name \in Natives : RegisterNativeModule(name) BY <2>2, RegisterKeeps
  <2>3. CASE \E req \in Requests, unread \in SUBSET Unreliable : require(req, unread)
    BY <2>3, ResolveKeeps DEF require
  <2>4. CASE CodeReturns BY <2>4, CodeReturnsKeeps
  <2>5. CASE CodeThrows BY <2>5, CodeThrowsKeeps
  <2> QED BY <2>1, <2>2, <2>3, <2>4, <2>5 DEF RequireNext
<1> QED BY <1>1, <1>2, PTL DEF RequireSpec

\* The two tables of require (resolve.go): whatever scripts ask for and however their
\* requests form cycles, a file is evaluated once unless it failed, a module that failed
\* is only served to those that required it while it ran, and every entry is what the
\* search for its path finds.
THEOREM RequireIsSound == RequireSpec => []RequireSound
<1>1. RequireInv => RequireSound
  <2> SUFFICES ASSUME RequireInv PROVE FailedOnlyByCycle BY DEF RequireInv, RequireSound
  <2>1. CycleInv /\ FailedInv BY DEF RequireInv
  <2> QED BY <2>1 DEF FailedOnlyByCycle, FileModules, CycleInv, FailedInv
<1> QED BY <1>1, RequireInvariance, PTL
=============================================================================
