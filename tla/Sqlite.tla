------------------------------- MODULE Sqlite -------------------------------
(***************************************************************************)
(* The sqlite module (sqlite/facade.js over sqlite/binding.go): databases  *)
(* that are closed and opened again, prepared statements, tag stores that  *)
(* cache them, and generators that a script leaves and resumes at will.    *)
(* Every method runs to its end on the loop; a method that throws changes  *)
(* what it changed before it threw.                                        *)
(*                                                                         *)
(* A StatementSync is known by the handle it was created with.  SQLite     *)
(* itself is external: a statement is at a row (0: it was reset), a bind   *)
(* of a statement that is not reset is refused, and a step may fail.       *)
(***************************************************************************)
EXTENDS Integers, Sequences, SequencesExt, FiniteSets

CONSTANTS
    Databases,    \* the DatabaseSync objects
    SQLs,         \* the texts that are prepared
    Parameters,   \* for each text, the names of its parameters ("": none)
    NRows,        \* the rows of every result
    Iterators,    \* the generators a script creates
    Args,         \* the argument lists: names with prefix, bare names, number of values
    Capacity,     \* maxSize of a tag store
    MaxHandles    \* bound on the handles

\* A tag store is made with a positive maxSize only.
ASSUME SqliteAssumption ==
    Capacity \in Nat \ {0} /\ NRows \in Nat /\ "query" \notin Iterators

VARIABLES
    nextID,       \* the last handle given out
    dbHandle,     \* DatabaseSync._handle, 0 for null
    dbs,          \* the open databases of the binding
    stmts,        \* its statements
    made,         \* for each StatementSync, the handle of its database
    disposed,     \* the ones whose _handle is null
    store,        \* for each database, the tag store's cache, oldest first
    iter,         \* the generators
    tagged,       \* history: the StatementSync objects that tag stores made
    halfClosed    \* history: the databases whose close failed after their statements'

sqliteVars == <<nextID, dbHandle, dbs, stmts, made, disposed, store, iter, tagged, halfClosed>>
tagVars == <<store, tagged, halfClosed>>

SqliteInit ==
    /\ nextID = 0 /\ dbs = {} /\ stmts = <<>> /\ made = <<>>
    /\ disposed = {} /\ tagged = {} /\ halfClosed = {}
    /\ dbHandle = [d \in Databases |-> 0]
    /\ store = [d \in Databases |-> <<>>]
    /\ iter = [i \in Iterators |-> [state |-> "none"]]

Live(S, o) == o \in DOMAIN S /\ o \notin disposed
Minus(S, gone) == [o \in DOMAIN S \ gone |-> S[o]]
With(S, o, x) == [p \in DOMAIN S \cup {o} |-> IF p = o THEN x ELSE S[p]]

-----------------------------------------------------------------------------
(* Databases.                                                              *)

\* A connection that cannot be configured is closed before open throws.
dbOpen(d) ==
    /\ dbHandle[d] = 0 /\ nextID < MaxHandles
    /\ nextID' = nextID + 1
    /\ dbHandle' = [dbHandle EXCEPT ![d] = nextID']
    /\ dbs' = dbs \cup {nextID'}
    /\ UNCHANGED <<stmts, made, disposed, tagVars, iter>>

statementsOf(h) == {o \in DOMAIN stmts : stmts[o].db = h}

\* Faulty variant: the statements stay in the table.
CloseKeepsStatements(d, failed) ==
    /\ dbHandle[d] # 0
    /\ UNCHANGED stmts
    /\ IF failed THEN halfClosed' = halfClosed \cup {dbHandle[d]} /\ UNCHANGED <<dbs, dbHandle>>
       ELSE /\ dbs' = dbs \ {dbHandle[d]} /\ dbHandle' = [dbHandle EXCEPT ![d] = 0]
            /\ UNCHANGED halfClosed
    /\ UNCHANGED <<nextID, made, disposed, store, tagged, iter>>

\* Its statements are closed first; if the connection then is not, the
\* database stays open without them.
dbClose(d, failed) ==
    /\ dbHandle[d] # 0
    /\ stmts' = Minus(stmts, statementsOf(dbHandle[d]))
    /\ IF failed THEN halfClosed' = halfClosed \cup {dbHandle[d]} /\ UNCHANGED <<dbs, dbHandle>>
       ELSE /\ dbs' = dbs \ {dbHandle[d]} /\ dbHandle' = [dbHandle EXCEPT ![d] = 0]
            /\ UNCHANGED halfClosed
    /\ UNCHANGED <<nextID, made, disposed, store, tagged, iter>>

newStatement(d, sql) ==
    [db |-> dbHandle[d], sql |-> sql, at |-> 0, bound |-> "nobody", bare |-> TRUE, unknown |-> FALSE]

dbPrepare(d, sql) ==
    /\ dbHandle[d] \in dbs /\ nextID < MaxHandles
    /\ nextID' = nextID + 1
    /\ stmts' = With(stmts, nextID', newStatement(d, sql))
    /\ made' = With(made, nextID', dbHandle[d])
    /\ UNCHANGED <<dbHandle, dbs, disposed, tagVars, iter>>

-----------------------------------------------------------------------------
(* Parameters.                                                             *)

\* A bare name stands for the parameter with any of the prefixes.
namedParameterIndex(s, key) ==
    LET p == Parameters[s.sql]
    IN  IF (key.bare /\ ~s.bare) \/ ~Contains(p, key.name) THEN 0
        ELSE CHOOSE k \in DOMAIN p : p[k] = key.name

\* Named values go to their parameters, the others in order to what is left,
\* and nothing may be missing or left over.
bindParameters(s, args) ==
    LET indexes == {namedParameterIndex(s, key) : key \in args.named}
        count == Len(Parameters[s.sql])
    IN  /\ 0 \in indexes => s.unknown
        /\ Cardinality(indexes \ {0}) + args.positional = count
        /\ count > 0 => s.at = 0

\* After a reset the statement starts at its first row, with no values.
resetStatement(s) == [s EXCEPT !.at = 0, !.bound = "nobody"]

-----------------------------------------------------------------------------
(* Statements.                                                             *)

\* Somebody else than generator i uses statement o.
Disturb(it, o, i) ==
    [j \in Iterators |->
        IF j # i /\ it[j].state = "suspended" /\ it[j].obj = o
        THEN [it[j] EXCEPT !.clean = FALSE, !.seen = <<>>] ELSE it[j]]

\* all, values, get and run: the old values are cleared before anything can
\* be refused; a step that fails is reset but keeps the values.
query(s, args) ==
    IF ~bindParameters(s, args) THEN {[s EXCEPT !.bound = "nobody"]}
    ELSE {resetStatement(s), [s EXCEPT !.at = 0, !.bound = "call"]}

stmtQuery(o, args) ==
    /\ Live(stmts, o)
    /\ \E s \in query(stmts[o], args) : stmts' = [stmts EXCEPT ![o] = s]
    /\ iter' = Disturb(iter, o, "query")
    /\ UNCHANGED <<nextID, dbHandle, dbs, made, disposed, tagVars>>

setAllowBareNamedParameters(o, allow) ==
    /\ Live(stmts, o)
    /\ stmts' = [stmts EXCEPT ![o].bare = allow]
    /\ UNCHANGED <<nextID, dbHandle, dbs, made, disposed, tagVars, iter>>

setAllowUnknownNamedParameters(o, allow) ==
    /\ Live(stmts, o)
    /\ stmts' = [stmts EXCEPT ![o].unknown = allow]
    /\ UNCHANGED <<nextID, dbHandle, dbs, made, disposed, tagVars, iter>>

stmtDispose(o) ==
    /\ o \notin disposed
    /\ stmts' = Minus(stmts, {o})
    /\ disposed' = disposed \cup {o}
    /\ UNCHANGED <<nextID, dbHandle, dbs, made, tagVars, iter>>

-----------------------------------------------------------------------------
(* Generators: nothing happens before the first next.                      *)

generator(o, args) ==
    [state |-> "new", obj |-> o, args |-> args, seen |-> <<>>, clean |-> TRUE]

endedGenerator(i, clean, all) ==
    [state |-> "done", clean |-> clean, seen |-> IF clean THEN iter[i].seen ELSE <<>>,
     finished |-> all]

stmtIterate(i, o, args) ==
    /\ iter[i].state = "none"
    /\ iter' = [iter EXCEPT ![i] = generator(o, args)]
    /\ UNCHANGED <<nextID, dbHandle, dbs, stmts, made, disposed, tagVars>>

\* No other generator is between rows of the same statement.
alone(i) ==
    \/ iter[i].state = "suspended"
    \/ \A j \in Iterators : iter[j].state = "suspended" => iter[j].obj # iter[i].obj

\* The finally block leaves the statement reset, if there still is one.
endIterator(i, all, left) ==
    LET o == iter[i].obj
    IN  /\ iter' = Disturb([iter EXCEPT ![i] = endedGenerator(i, iter[i].clean /\ alone(i), all)], o, i)
        /\ stmts' = IF Live(stmts, o) THEN [stmts EXCEPT ![o] = left] ELSE stmts

\* step: the next row.
stepIterator(i, s) ==
    LET o == iter[i].obj
    IN  /\ s.at < NRows
        /\ stmts' = [stmts EXCEPT ![o] = [s EXCEPT !.at = @ + 1]]
        /\ iter' = Disturb([iter EXCEPT ![i].state = "suspended",
                                        ![i].clean = @ /\ alone(i),
                                        ![i].seen = IF iter[i].clean /\ alone(i) THEN Append(@, s.at + 1) ELSE <<>>],
                           o, i)

\* next: the first one binds.  The end of the rows, a step that fails, a
\* refused bind and a statement that is gone end the generator through the
\* finally block; its reset reports the failed step again and keeps the values.
iteratorNext(i) ==
    /\ iter[i].state \in {"new", "suspended"}
    /\ LET o == iter[i].obj
           first == iter[i].state = "new"
           s == IF first THEN [stmts[o] EXCEPT !.bound = i] ELSE stmts[o]
           ready == Live(stmts, o) /\ (first => bindParameters(stmts[o], iter[i].args))
       IN  \/ ready /\ stepIterator(i, s)
           \/ ready /\ s.at = NRows /\ endIterator(i, TRUE, resetStatement(s))
           \/ ready /\ endIterator(i, FALSE, [s EXCEPT !.at = 0])
           \/ ~ready /\ endIterator(i, FALSE, resetStatement(s))
    /\ UNCHANGED <<nextID, dbHandle, dbs, made, disposed, tagVars>>

\* Faulty variant: a loop that is left leaves the statement where it is.
ReturnWithoutReset(i) ==
    /\ iter[i].state \in {"new", "suspended"}
    /\ iter' = [iter EXCEPT ![i] = endedGenerator(i, iter[i].clean, FALSE)]
    /\ UNCHANGED <<nextID, dbHandle, dbs, stmts, made, disposed, tagVars>>

\* return: a loop over the generator was left.
iteratorReturn(i) ==
    /\ iter[i].state \in {"new", "suspended"}
    /\ IF iter[i].state = "new"
       THEN iter' = [iter EXCEPT ![i] = endedGenerator(i, TRUE, FALSE)] /\ UNCHANGED stmts
       ELSE endIterator(i, FALSE, resetStatement(stmts[iter[i].obj]))
    /\ UNCHANGED <<nextID, dbHandle, dbs, made, disposed, tagVars>>

-----------------------------------------------------------------------------
(* Tag stores.                                                             *)

cached(d, sql) == {k \in DOMAIN store[d] : store[d][k].sql = sql}

\* _lookup: a hit moves to the end; a miss prepares, and beyond the capacity
\* disposes the oldest, whoever is using it.
hit(d, sql) ==
    \E k \in cached(d, sql) :
        /\ store' = [store EXCEPT ![d] = Append(RemoveAt(@, k), @[k])]
        /\ UNCHANGED <<nextID, made, disposed, tagged>>

miss(d, sql, o) ==
    LET grown == Append(store[d], [sql |-> sql, obj |-> o])
        full == Len(grown) > Capacity
    IN  /\ cached(d, sql) = {} /\ dbHandle[d] \in dbs /\ nextID < MaxHandles
        /\ o = nextID + 1 /\ nextID' = o
        /\ made' = With(made, o, dbHandle[d])
        /\ store' = [store EXCEPT ![d] = IF full THEN Tail(grown) ELSE grown]
        /\ disposed' = IF full THEN disposed \cup {grown[1].obj} ELSE disposed
        /\ tagged' = tagged \cup {o}

found(d, sql) == {store[d][k].obj : k \in cached(d, sql)}

\* The statements after the lookup.
after(d, sql, o) ==
    LET evicted == IF Len(store[d]) >= Capacity THEN {store[d][1].obj} ELSE {}
    IN  IF found(d, sql) # {} THEN stmts ELSE With(Minus(stmts, evicted), o, newStatement(d, sql))

tagLookup(d, sql, o) ==
    \/ o \in found(d, sql) /\ hit(d, sql)
    \/ miss(d, sql, o)

\* A hit may be a statement whose database was closed: the call throws.
tagQuery(d, sql, args) ==
    /\ \E o \in found(d, sql) \cup {nextID + 1} :
          /\ tagLookup(d, sql, o)
          /\ LET S == after(d, sql, o)
             IN  IF o \in DOMAIN S
                 THEN /\ \E s \in query(S[o], args) : stmts' = [S EXCEPT ![o] = s]
                      /\ iter' = Disturb(iter, o, "query")
                 ELSE stmts' = S /\ UNCHANGED iter
    /\ UNCHANGED <<dbHandle, dbs, halfClosed>>

tagIterate(i, d, sql, args) ==
    /\ iter[i].state = "none"
    /\ \E o \in found(d, sql) \cup {nextID + 1} :
          /\ tagLookup(d, sql, o)
          /\ stmts' = after(d, sql, o)
          /\ iter' = [iter EXCEPT ![i] = generator(o, args)]
    /\ UNCHANGED <<dbHandle, dbs, halfClosed>>

\* The statements are forgotten, not closed.
tagClear(d) ==
    /\ store' = [store EXCEPT ![d] = <<>>]
    /\ UNCHANGED <<nextID, dbHandle, dbs, stmts, made, disposed, iter, tagged, halfClosed>>

-----------------------------------------------------------------------------
\* A script holds the statements it prepared itself, not those of its stores.
Held == DOMAIN made \ tagged

\* A template literal has values without names.
TagArgs == {args \in Args : args.named = {}}

SqliteNext ==
    \/ \E d \in Databases :
          \/ dbOpen(d) \/ tagClear(d)
          \/ \E failed \in BOOLEAN : dbClose(d, failed)
          \/ \E sql \in SQLs : \/ dbPrepare(d, sql)
                               \/ \E args \in TagArgs : tagQuery(d, sql, args)
    \/ \E o \in Held :
          \/ stmtDispose(o)
          \/ \E args \in Args : stmtQuery(o, args)
          \/ \E allow \in BOOLEAN : \/ setAllowBareNamedParameters(o, allow)
                                     \/ setAllowUnknownNamedParameters(o, allow)
    \/ \E i \in Iterators :
          \/ iteratorNext(i) \/ iteratorReturn(i)
          \/ \E o \in Held, args \in Args : stmtIterate(i, o, args)
          \/ \E d \in Databases, sql \in SQLs, args \in TagArgs : tagIterate(i, d, sql, args)

SqliteSpec == SqliteInit /\ [][SqliteNext]_sqliteVars

-----------------------------------------------------------------------------
\* The tables of the binding agree with the objects of the facade, whatever
\* is closed, reopened, disposed and evicted in whatever order: the open
\* databases are the ones with a handle, every statement is of an open
\* database, a statement is gone only if it was disposed or its database was
\* closed, and a tag store never holds a disposed statement, nor two for one
\* text, nor more than its capacity.
TablesAgree ==
    /\ dbs = {dbHandle[d] : d \in Databases} \ {0}
    /\ \A o \in DOMAIN made :
          /\ o \in DOMAIN stmts => made[o] \in dbs /\ o \notin disposed
          /\ made[o] \in dbs \ halfClosed /\ o \notin disposed => o \in DOMAIN stmts
    /\ \A d \in Databases :
          /\ Len(store[d]) <= Capacity
          /\ \A k, l \in DOMAIN store[d] : store[d][k].sql = store[d][l].sql => k = l
          /\ \A k \in DOMAIN store[d] : store[d][k].obj \notin disposed

\* A query starts at the first row unless a generator of the same statement
\* is suspended between rows; a generator whose statement nobody else used
\* meanwhile gives every row once, in order, with its own parameters, and
\* ends by itself only after the last.
RowsFromTheStart ==
    /\ \A o \in DOMAIN stmts :
          stmts[o].at # 0 => \E i \in Iterators : iter[i].state = "suspended" /\ iter[i].obj = o
    /\ \A i \in Iterators :
          iter[i].state # "none" /\ iter[i].clean =>
              /\ iter[i].seen = [k \in 1..Len(iter[i].seen) |-> k]
              /\ iter[i].state = "done" /\ iter[i].finished => Len(iter[i].seen) = NRows
              /\ iter[i].state = "suspended" /\ Live(stmts, iter[i].obj) =>
                     stmts[iter[i].obj].bound = i
=============================================================================
