----------------------------- MODULE MCModules -----------------------------
(* The modules whose calls run to their end on the loop, side by side: a   *)
(* behaviour is one of them at work, the others stay as they started.      *)
EXTENDS Decoders, WebCrypto, Ciphers, Sqlite, VfsLocks, Require

VARIABLE component

modulesVars == <<component, decodersVars, cryptoVars, cipherVars, sqliteVars, lockVars,
                requireVars>>

DecodersIdle ==
    /\ kind = "utf8" /\ fatal = FALSE /\ ignoreBOM = FALSE
    /\ pendingBytes = <<>> /\ firstChunk = TRUE
    /\ fed = <<>> /\ out = <<>> /\ last = <<>> /\ ended = TRUE /\ thrown = FALSE
CryptoIdle == ids = {} /\ keys = {} /\ bytes = {} /\ drawn = 0 /\ reached = {}
CiphersIdle == call = <<>> /\ result = <<>> /\ returned = FALSE

ModulesInit ==
    \/ /\ component = "decoders" /\ DecodersInit
       /\ CryptoIdle /\ CiphersIdle /\ SqliteInit /\ LocksInit /\ RequireInit
    \/ /\ component = "crypto" /\ CryptoInit
       /\ DecodersIdle /\ CiphersIdle /\ SqliteInit /\ LocksInit /\ RequireInit
    \/ /\ component = "ciphers" /\ CipherInit
       /\ DecodersIdle /\ CryptoIdle /\ SqliteInit /\ LocksInit /\ RequireInit
    \/ /\ component \in {"sqlite", "locks", "require"} /\ SqliteInit /\ LocksInit /\ RequireInit
       /\ DecodersIdle /\ CryptoIdle /\ CiphersIdle

ModulesNext ==
    /\ UNCHANGED component
    /\ \/ /\ component = "decoders" /\ DecodersNext
          /\ UNCHANGED <<cryptoVars, cipherVars, sqliteVars, lockVars, requireVars>>
       \/ /\ component = "crypto" /\ CryptoNext
          /\ UNCHANGED <<decodersVars, cipherVars, sqliteVars, lockVars, requireVars>>
       \/ /\ component = "ciphers" /\ CipherNext
          /\ UNCHANGED <<decodersVars, cryptoVars, sqliteVars, lockVars, requireVars>>
       \/ /\ component = "sqlite" /\ SqliteNext
          /\ UNCHANGED <<decodersVars, cryptoVars, cipherVars, lockVars, requireVars>>
       \/ /\ component = "locks" /\ LocksNext
          /\ UNCHANGED <<decodersVars, cryptoVars, cipherVars, sqliteVars, requireVars>>
       \/ /\ component = "require" /\ RequireNext
          /\ UNCHANGED <<decodersVars, cryptoVars, cipherVars, sqliteVars, lockVars>>

ModulesSpec == ModulesInit /\ [][ModulesNext]_modulesVars

-----------------------------------------------------------------------------
MCAlg(name, length, hash, curve, hint, iv) ==
    [name |-> name, length |-> length, hash |-> hash, namedCurve |-> curve,
     keyType |-> hint, iv |-> iv]

MCGCM == MCAlg("AES-GCM", 256, "", "", "", "iv")
MCEd == MCAlg("Ed25519", 0, "", "", "", "")

MCHMAC == MCAlg("HMAC", 0, "SHA-512", "", "", "")
MCECDSA == MCAlg("ECDSA", 0, "", "P-256", "", "")

MCScripts ==
    {{MCGCM, MCEd},
     {MCAlg("AES-KW", 256, "", "", "", ""), MCAlg("HMAC", 192, "SHA-512", "", "", ""),
      MCAlg("HMAC", 0, "", "", "", "")},
     {MCAlg("RSA-OAEP", 2048, "SHA-512", "", "", ""), MCAlg("RSA-PSS", 2048, "", "", "", ""),
      MCAlg("3DES-CBC", 0, "", "", "", "iv")},
     {MCEd, MCHMAC},
     {MCAlg("ECDH", 0, "", "P-521", "", ""), MCECDSA,
      MCAlg("HMAC", 0, "", "", "", "")},
     {MCAlg("X25519", 0, "", "", "", ""), MCAlg("AES-CTR", 128, "", "", "", "iv"),
      MCAlg("HKDF", 0, "", "", "", "")},
     {MCAlg("AES-CBC", 128, "", "", "", "iv"), MCAlg("PBKDF2", 0, "SHA-1", "", "", "")}}

MCRandomStream == <<"r1", "r2">>
MCFormats == {"raw", "jwk", "pkcs8", "pkcs1", "sec1", "spki"}
MCUsageSets == {{"sign"}, {"verify", "deriveBits"}}

\* A seed; 64 bytes that are a seed and its public half, and 64 that are not;
\* an EC JWK whose point is not that of d.
MCSeed == Encoded("raw", "oct", "", "secret", <<"seed">>, 32)
MC64(t) == Encoded("raw", "oct", "", "secret", <<t>>, 64)
MCMixed == [Encoded("jwk", "EC", "P-256", "private", <<"d">>, 0) EXCEPT !.pub = <<"point">>]
MCHoldings ==
    [s \in MCScripts |->
        CASE MCHMAC \in s /\ MCEd \in s -> {{MCSeed, MC64("pair")}, {MC64("any")}}
          [] MCECDSA \in s -> {{}, {MCMixed}}
          [] OTHER -> {{}, {MCSeed}}]
MCHalves == <<"pair">> :> [seed |-> <<"seed">>, point |-> <<"seed">>]
MCMeddling == {{MCGCM, MCEd}}

MCParameters == [sql \in {"rows", "named"} |-> IF sql = "rows" THEN <<>> ELSE <<"a">>]
MCArgs ==
    {[named |-> {}, positional |-> 0], [named |-> {}, positional |-> 1],
     [named |-> {[bare |-> TRUE, name |-> "a"]}, positional |-> 0]}

\* The generators are interchangeable.
MCSymmetry == Permutations(Iterators)

MCNameOf == [f \in Files |-> "db"]

\* ./a, ./fs and ./p in ".", ./a.js in d, the names fs, node:fs and d/x in "."
\* and the name x in d, which has the key of d/x.
MCRequest(isPath, names, start) == [isPath |-> isPath, path |-> names, start |-> start]
MCRequests ==
    {MCRequest(TRUE, <<"a">>, <<>>), MCRequest(TRUE, <<"fs">>, <<>>),
     MCRequest(TRUE, <<"p">>, <<>>), MCRequest(TRUE, <<"a", ".js">>, <<"d">>),
     MCRequest(FALSE, <<"fs">>, <<>>), MCRequest(FALSE, <<"node:", "fs">>, <<>>),
     MCRequest(FALSE, <<"d", "x">>, <<>>), MCRequest(FALSE, <<"x">>, <<"d">>)}
\* d/a.js is a link to a.js.
MCExists ==
    {<<"a", ".js">>, <<"d", "a", ".js">>, <<"fs", ".js">>, <<"p", "lib", ".json">>,
     <<"p", "index", ".js">>, <<"d", "node_modules", "x", ".js">>,
     <<"node_modules", "d", "x", "index", ".js">>}
MCUnreliable == {<<"p", "package", ".json">>, <<"p", "lib", ".json">>}
MCLinks == <<"d", "a", ".js">> :> <<"a", ".js">>
MCMain == <<"p">> :> <<"lib">>
MCGlobalFolders == <<<<"g">>>>
MCCore == {<<"fs">>}
MCNatives == {<<"fs">>}
=============================================================================
