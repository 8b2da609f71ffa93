----------------------------- MODULE WebCrypto -----------------------------
(***************************************************************************)
(* crypto.subtle (crypto/*.go): the CryptoKey handles a script holds, the  *)
(* byte strings it holds, and the calls that turn one into the other.      *)
(* Every call runs to its end on the loop and settles its promise at once, *)
(* so a call is one step; a rejected call changes nothing.                 *)
(*                                                                         *)
(* Cryptography is symbolic.  Secret material is a term: <<s>> is the      *)
(* value s of the random stream (the bytes of a symmetric key, or the private *)
(* half of a pair), and a longer sequence is what was computed from the    *)
(* term it extends.  A byte string says what it encodes and keeps, in      *)
(* layers, the encryptions around it.  The operators named after the       *)
(* code's helpers return the set of their possible results: {} is an       *)
(* error, more than one element a result that the model does not decide.   *)
(* A public half is named by the term of the secret it belongs to.         *)
(***************************************************************************)
EXTENDS Integers, Sequences, FiniteSets

CONSTANTS
    RandomStream,   \* the successive values crypto/rand delivers
    Scripts,        \* for each script, the algorithm objects it passes
    Formats,        \* the key formats scripts name
    UsageSets,      \* the usage lists scripts pass
    BitLengths,     \* the lengths scripts ask deriveBits for
    Holdings,       \* for each script, what it may have from outside
    Halves,         \* the halves of 64 outside bytes, where they are something
    Meddling,       \* the scripts that go for the Go handles
    MaxHeld         \* bound on the handles and byte strings a script holds

VARIABLES
    ids,            \* the algorithm objects of the script that runs
    keys,           \* the CryptoKey handles it holds
    bytes,          \* the byte strings it holds
    drawn,          \* how many values of the random stream are used up
    reached         \* ghost: the secrets whose Go handle a script has taken

cryptoVars == <<ids, keys, bytes, drawn, reached>>

Text == STRING

\* The words that the model makes terms and encodings of.
ASSUME WordsAssumption ==
    {"", "pub", "under", "point", "scrambled", "shared", "PBKDF2", "HKDF", "raw", "jwk", "pkcs8",
     "pkcs1", "sec1", "spki", "sig", "first", "last", "public", "private", "secret", "oct", "RSA",
     "EC", "SHA-256"}
        \subseteq Text

\* An algorithm object, as the calls read it.
Algorithm ==
    [name : Text, length : Int, hash : Text, namedCurve : Text, keyType : Text, iv : Text]

Term == Seq(Text) \ {<<>>}
Layer == [alg : Text, t : Term, len : Int, iv : Text, hash : Text]
ByteString ==
    [enc : Text, fam : Text, curve : Text, part : Text, t : Term, pub : Term,
     len : Int, alg : Text, hash : Text, layers : Seq(Layer)]

Outside == UNION {UNION Holdings[script] : script \in Scripts}

ASSUME CallAssumption == (\A script \in Scripts : script \subseteq Algorithm) /\ BitLengths \subseteq Int

\* Random values are fresh: they do not repeat, and nothing secret that comes
\* from outside is one of them.  Only elliptic curve keys have a curve.
ASSUME FreshAssumption ==
    /\ RandomStream \in Seq(Text)
    /\ \A i, j \in DOMAIN RandomStream : RandomStream[i] = RandomStream[j] => i = j
    /\ \A b \in Outside, i \in DOMAIN RandomStream : b.t # <<RandomStream[i]>>
    /\ \A t \in DOMAIN Halves, i \in DOMAIN RandomStream : Halves[t].seed # <<RandomStream[i]>>
    /\ \A t \in DOMAIN Halves : Halves[t] \in [seed : Term, point : Term]
    /\ Outside \subseteq ByteString
    /\ \A b \in Outside : b.fam \in {"RSA", "Ed25519", "X25519"} => b.curve = ""

-----------------------------------------------------------------------------
(* Records.                                                                *)

AESAlgs == {"AES-CBC", "AES-GCM", "AES-CTR", "AES-KW"}
RSAAlgs == {"RSASSA-PKCS1-V1_5", "RSA-PSS", "RSA-OAEP", "RSAES-PKCS1-V1_5"}
ECAlgs  == {"ECDSA", "ECDH"}
OKPAlgs == {"Ed25519", "X25519"}
Curves  == {"P-256", "P-384", "P-521"}

\* fam says which of the struct's key fields is set; len is the length of
\* SecretKey in bytes, hash the hash of the Algorithm map (and HMACHash).  t is
\* the secret, pub the public half beside it, which nobody compares with t.
cryptoKeyHandle(type, a, ext, us, fam, t, len, hash) ==
    [type |-> type, name |-> a.name, ext |-> ext, usages |-> us, fam |-> fam,
     curve |-> IF fam \in ECAlgs THEN a.namedCurve ELSE "",
     t |-> t, pub |-> t, len |-> len, hash |-> hash]

\* An encoded key: its format, the key it encodes and which part of it.
Encoded(enc, fam, curve, part, t, len) ==
    [enc |-> enc, fam |-> fam, curve |-> curve, part |-> part, t |-> t,
     pub |-> t, len |-> len, alg |-> "", hash |-> "", layers |-> <<>>]

\* Handles that are not public carry secret material.
IsSecret(h) == h.type # "public"
HasSecretKey(h) == h.fam = "oct" /\ h.len > 0

hashFromAlgorithmObject(a) == IF a.hash = "" THEN "SHA-256" ELSE a.hash

\* The hash an operation uses: the caller's, else the key's, else SHA-256.
hashNameForRSA(a, k) ==
    IF a.hash # "" THEN a.hash ELSE IF k.hash # "" THEN k.hash ELSE "SHA-256"

digestLengthBytes(hash) ==
    CASE hash = "MD5" -> 16
      [] hash = "SHA-1" -> 20
      [] hash = "SHA-224" -> 28
      [] hash = "SHA-384" -> 48
      [] hash = "SHA-512" -> 64
      [] OTHER -> 32

\* The length in bytes.  DER, JSON, signatures and what most ciphers return
\* have some length that is no cipher's key length: 1 stands for it.
byteLength(b) ==
    IF b.enc = "raw" /\ \A i \in DOMAIN b.layers : b.layers[i].alg = "AES-CTR"
    THEN b.len ELSE 1

\* What a byte string is when it is taken as raw key bytes.
Content(b) ==
    LET own == CASE b.part = "public" -> b.t \o <<"pub">>
                 [] b.part # "public" /\ b.pub = b.t -> b.t
                 [] OTHER -> b.t \o <<"pub">> \o b.pub
    IN  IF b.layers # <<>> THEN own \o <<"under">> \o b.layers[Len(b.layers)].t
        ELSE IF b.enc = "raw" THEN own ELSE own \o <<b.enc>>

\* The first and the last 32 of 64 bytes.
firstHalf(t) == IF t \in DOMAIN Halves THEN Halves[t].seed ELSE t \o <<"first">>
lastHalf(t) == IF t \in DOMAIN Halves THEN Halves[t].point ELSE t \o <<"last">>

-----------------------------------------------------------------------------
(* Usages of a generated pair: what was asked for and is allowed, and all  *)
(* that is allowed when nothing asked for is.                              *)

granted(allowed, us) == IF allowed \cap us = {} THEN allowed ELSE allowed \cap us

splitRSAUsages(name, us) ==
    IF name \in {"RSASSA-PKCS1-V1_5", "RSA-PSS"}
    THEN <<granted({"verify"}, us), granted({"sign"}, us)>>
    ELSE <<granted({"encrypt", "wrapKey"}, us), granted({"decrypt", "unwrapKey"}, us)>>

splitECUsages(name, us) ==
    IF name = "ECDSA"
    THEN <<granted({"verify"}, us), granted({"sign"}, us)>>
    ELSE LET g == granted({"deriveBits", "deriveKey"}, us) IN <<g, g>>

splitOKPUsages(name, us) ==
    IF name = "Ed25519"
    THEN <<granted({"verify"}, us), granted({"sign"}, us)>>
    ELSE LET g == granted({"deriveBits", "deriveKey"}, us) IN <<g, g>>

-----------------------------------------------------------------------------
(* Generation: the handles a generateKey call resolves with.               *)

\* The public half can always be exported.
keyPair(a, t, ext, us, fam, hash) ==
    {cryptoKeyHandle("public", a, TRUE, us[1], fam, t, 0, hash),
     cryptoKeyHandle("private", a, ext, us[2], fam, t, 0, hash)}

\* The key lengths in bytes; an HMAC length below a byte gives an empty key.
secretLength(a) ==
    CASE a.name \in AESAlgs -> {n \in {16, 24, 32} : a.length = 8 * n}
      [] a.name = "DES-CBC" -> {n \in {8} : a.length \in {0, 64}}
      [] a.name = "3DES-CBC" -> {n \in {16, 24} : a.length = 8 * n \/ (a.length = 0 /\ n = 24)}
      [] a.name = "HMAC" -> {IF a.length > 0 THEN a.length \div 8
                             ELSE digestLengthBytes(hashFromAlgorithmObject(a))}
      [] OTHER -> {}

generateSecret(a, t, ext, us) ==
    {cryptoKeyHandle("secret", a, ext, us, "oct", t, n,
                     IF a.name = "HMAC" THEN hashFromAlgorithmObject(a) ELSE "") :
        n \in secretLength(a)}

generateEC(a, t, ext, us) ==
    IF a.name \in ECAlgs /\ a.namedCurve \in Curves
    THEN keyPair(a, t, ext, splitECUsages(a.name, us), a.name, "") ELSE {}

generateOKP(a, t, ext, us) ==
    IF a.name \in OKPAlgs
    THEN keyPair(a, t, ext, splitOKPUsages(a.name, us), a.name, "") ELSE {}

generateRSA(a, t, ext, us) ==
    IF a.name \in RSAAlgs /\ a.length >= 512
    THEN keyPair(a, t, ext, splitRSAUsages(a.name, us), "RSA", hashFromAlgorithmObject(a))
    ELSE {}

generated(a, t, ext, us) ==
    generateSecret(a, t, ext, us) \cup generateEC(a, t, ext, us)
        \cup generateOKP(a, t, ext, us) \cup generateRSA(a, t, ext, us)

-----------------------------------------------------------------------------
(* Import: the handle of a byte string, for the algorithm the caller names.*)

\* Nothing limits the length of an HMAC, PBKDF2 or HKDF key.
rawSecretAllowed(a, n) ==
    CASE a.name \in AESAlgs -> n \in {16, 24, 32}
      [] a.name = "DES-CBC" -> n = 8
      [] a.name = "3DES-CBC" -> n \in {16, 24}
      [] OTHER -> a.name \in {"HMAC", "PBKDF2", "HKDF"}

importRawSecret(a, b, ext, us) ==
    IF rawSecretAllowed(a, byteLength(b))
    THEN {cryptoKeyHandle("secret", a, ext, us, "oct", Content(b), byteLength(b),
                          IF a.name = "HMAC" THEN hashFromAlgorithmObject(a) ELSE "")}
    ELSE {}

\* Only an uncompressed point of the named curve passes.
importRawEC(a, b, ext, us) ==
    IF /\ a.name \in ECAlgs
       /\ b.enc = "raw" /\ b.fam = "EC" /\ b.part = "public" /\ b.curve = a.namedCurve
       /\ b.layers = <<>>
    THEN {cryptoKeyHandle("public", a, TRUE, us, a.name, b.t, 0, "")}
    ELSE {}

\* Any 32 bytes pass for a public key, and for a seed.
rawPoint(a, b) ==
    IF b.enc = "raw" /\ b.fam = a.name /\ b.part = "public" /\ b.layers = <<>>
    THEN b.t ELSE Content(b) \o <<"point">>

\* Faulty variant: the usages are looked at before the hint.
UsagesBeforeHint(a, b, us) ==
    \/ a.keyType = "private"
    \/ /\ a.name = "Ed25519"
       /\ byteLength(b) = 64 \/ (byteLength(b) = 32 /\ "sign" \in us /\ "verify" \notin us)

\* Without a hint, 64 bytes are a private Ed25519 key, and so are 32 bytes
\* whose usages name sign and not verify.
rawIsPrivate(a, b, us) ==
    \/ a.keyType = "private"
    \/ /\ a.keyType = "" /\ a.name = "Ed25519"
       /\ byteLength(b) = 64 \/ (byteLength(b) = 32 /\ "sign" \in us /\ "verify" \notin us)

\* A seed gives its own public half; 64 bytes are taken for a seed and a
\* public half as they come.
privateFromRaw(a, b, ext, us) ==
    IF byteLength(b) = 32
    THEN cryptoKeyHandle("private", a, ext, us, a.name, Content(b), 0, "")
    ELSE [cryptoKeyHandle("private", a, ext, us, a.name, firstHalf(Content(b)), 0, "")
             EXCEPT !.pub = lastHalf(Content(b))]

importRawOKP(a, b, ext, us) ==
    CASE a.name \in OKPAlgs /\ rawIsPrivate(a, b, us)
           /\ byteLength(b) \in (IF a.name = "Ed25519" THEN {32, 64} ELSE {32}) ->
             {privateFromRaw(a, b, ext, us)}
      [] a.name \in OKPAlgs /\ ~rawIsPrivate(a, b, us) /\ byteLength(b) = 32 ->
             {cryptoKeyHandle("public", a, TRUE, us, a.name, rawPoint(a, b), 0, "")}
      [] OTHER -> {}

importRawKey(a, b, ext, us) ==
    importRawSecret(a, b, ext, us) \cup importRawEC(a, b, ext, us)
        \cup importRawOKP(a, b, ext, us)

\* The handle of a parsed private or public key: the algorithm must be one
\* of the key's kind.
compatible(a, fam) ==
    \/ fam = "RSA" /\ a.name \in RSAAlgs
    \/ fam = "EC" /\ a.name \in ECAlgs
    \/ fam \in OKPAlgs /\ a.name = fam

parsedHandle(type, a, b, ext, us) ==
    {[cryptoKeyHandle(type, a, ext, us, IF b.fam = "EC" THEN a.name ELSE b.fam, b.t, 0,
                      IF b.fam = "RSA" THEN hashFromAlgorithmObject(a) ELSE "")
        EXCEPT !.curve = b.curve]}

privateKeyToHandle(a, b, ext, us) ==
    IF compatible(a, b.fam) THEN parsedHandle("private", a, b, ext, us) ELSE {}

publicKeyToHandle(a, b, us) ==
    IF compatible(a, b.fam) THEN parsedHandle("public", a, b, TRUE, us) ELSE {}

\* PKCS #8, then PKCS #1, then SEC 1: whatever parses.
parsePrivateKey(b) == b.part = "private" /\ b.enc \in {"pkcs8", "pkcs1", "sec1"}

\* An RSA JWK is not compared with the algorithm; EC and OKP ones are.
importRSAJWK(a, b, ext, us) ==
    IF b.fam # "RSA" THEN {}
    ELSE IF b.part = "private" THEN parsedHandle("private", a, b, ext, us)
    ELSE parsedHandle("public", a, b, TRUE, us)

\* d and the point are read one by one; the other private forms, and the JWK
\* of an OKP key, give the public half of the secret whatever they say.
importECJWK(a, b, ext, us) ==
    IF b.fam # "EC" \/ a.name \notin ECAlgs THEN {}
    ELSE IF b.part = "private"
         THEN {[h EXCEPT !.pub = b.pub] : h \in parsedHandle("private", a, b, ext, us)}
    ELSE parsedHandle("public", a, b, TRUE, us)

importOKPJWK(a, b, ext, us) ==
    IF b.fam \notin OKPAlgs \/ a.name # b.fam THEN {}
    ELSE IF b.part = "private" THEN parsedHandle("private", a, b, ext, us)
    ELSE parsedHandle("public", a, b, TRUE, us)

\* key_ops, ext and alg of the JWK are not read.
importJWK(a, b, ext, us) ==
    IF b.fam = "oct"
    THEN importRawKey(a, [b EXCEPT !.enc = "raw"], ext, us)
    ELSE importRSAJWK(a, b, ext, us) \cup importECJWK(a, b, ext, us)
            \cup importOKPJWK(a, b, ext, us)

importUnwrappedKey(f, a, b, ext, us) ==
    IF f # "raw" /\ b.layers # <<>> THEN {} ELSE
    CASE f = "raw" -> importRawKey(a, b, ext, us)
      [] f = "jwk" /\ b.enc = "jwk" -> importJWK(a, b, ext, us)
      [] f = "pkcs8" /\ parsePrivateKey(b) -> privateKeyToHandle(a, b, ext, us)
      [] f = "pkcs1" /\ b.enc = "pkcs1" ->
            IF b.part = "private" THEN privateKeyToHandle(a, b, ext, us)
            ELSE publicKeyToHandle(a, b, us)
      [] f = "sec1" /\ b.enc = "sec1" -> privateKeyToHandle(a, b, ext, us)
      [] f = "spki" /\ b.enc = "spki" -> publicKeyToHandle(a, b, us)
      [] OTHER -> {}

-----------------------------------------------------------------------------
(* Export: the byte string of a handle.                                    *)

blobFam(h) == IF h.fam \in ECAlgs THEN "EC" ELSE h.fam

rawPublicLength(h) ==
    CASE h.curve = "P-256" -> 65 [] h.curve = "P-384" -> 97 [] h.curve = "P-521" -> 133
      [] OTHER -> 32

publicPart(enc, h, len) == Encoded(enc, blobFam(h), h.curve, "public", h.pub, len)

\* With its public half, except that the pkcs8 form of an OKP key is the seed.
privatePart(enc, h) ==
    [Encoded(enc, blobFam(h), h.curve, "private", h.t, 0)
        EXCEPT !.pub = IF enc = "pkcs8" /\ h.fam \in OKPAlgs THEN h.t ELSE h.pub]

keyPart(enc, h) == IF h.type = "private" THEN privatePart(enc, h) ELSE publicPart(enc, h, 0)

\* Raw is the secret of a symmetric key and the public half of a pair; RSA
\* has no raw form, and neither has an empty secret.
exportRawKeyMaterial(h) ==
    CASE HasSecretKey(h) -> {Encoded("raw", "oct", "", "secret", h.t, h.len)}
      [] h.fam \in ECAlgs \cup OKPAlgs -> {publicPart("raw", h, rawPublicLength(h))}
      [] OTHER -> {}

exportJWK(h) ==
    CASE HasSecretKey(h) -> {Encoded("jwk", "oct", "", "secret", h.t, h.len)}
      [] h.fam # "oct" -> {keyPart("jwk", h)}
      [] OTHER -> {}

exportKeyBytesForWrap(f, h) ==
    CASE f = "raw" -> exportRawKeyMaterial(h)
      [] f = "jwk" -> exportJWK(h)
      [] f = "pkcs8" /\ h.type = "private" -> {privatePart("pkcs8", h)}
      [] f = "pkcs1" /\ h.fam = "RSA" -> {keyPart("pkcs1", h)}
      [] f = "sec1" /\ h.fam \in ECAlgs /\ h.type = "private" -> {privatePart("sec1", h)}
      [] f = "spki" /\ h.fam # "oct" -> {publicPart("spki", h, 0)}
      [] OTHER -> {}

-----------------------------------------------------------------------------
(* Signatures.  No operation looks at the usages of its key, or at the     *)
(* algorithm the key was made for: what counts is the material it holds.   *)

signFam(name) ==
    CASE name = "HMAC" -> "oct"
      [] name \in {"RSASSA-PKCS1-V1_5", "RSA-PSS"} -> "RSA"
      [] OTHER -> name

\* The signature of the secret t under the key k.  An Ed25519 signature is over
\* the key's public half as well.
signature(a, k, t) ==
    [Encoded("sig", k.fam, k.curve, "public", t, k.len) EXCEPT !.alg = a.name,
        !.pub = IF k.fam = "Ed25519" THEN k.pub ELSE t,
        !.hash = IF a.name = "Ed25519" THEN "" ELSE hashNameForRSA(a, k)]

canSign(a, k) ==
    /\ a.name \in {"HMAC", "RSASSA-PKCS1-V1_5", "RSA-PSS", "ECDSA", "Ed25519"}
    /\ k.fam = signFam(a.name)
    /\ IF k.fam = "oct" THEN k.len > 0 ELSE k.type = "private"

signData(a, k) == IF canSign(a, k) THEN {signature(a, k, k.t)} ELSE {}

\* Faulty variant: verification forgets the hash the key was made for.
VerifyDefaultHash(a, k, sig) ==
    /\ a.name \in {"HMAC", "RSASSA-PKCS1-V1_5", "RSA-PSS", "ECDSA", "Ed25519"}
    /\ k.fam = signFam(a.name)
    /\ k.fam = "oct" => k.len > 0
    /\ sig = signature(a, [k EXCEPT !.hash = ""], k.pub)

\* Verification takes the public half, of a private key too.
verifyData(a, k, sig) ==
    /\ a.name \in {"HMAC", "RSASSA-PKCS1-V1_5", "RSA-PSS", "ECDSA", "Ed25519"}
    /\ k.fam = signFam(a.name)
    /\ k.fam = "oct" => k.len > 0
    /\ sig = signature(a, k, k.pub)

-----------------------------------------------------------------------------
(* Encryption adds a layer, decryption takes the outermost off.            *)

layer(a, k) ==
    [alg |-> a.name, t |-> k.t, len |-> k.len, iv |-> a.iv,
     hash |-> IF a.name = "RSA-OAEP" THEN hashNameForRSA(a, k) ELSE ""]

Seal(a, k, b) == [b EXCEPT !.layers = Append(@, layer(a, k))]
Open(b) == [b EXCEPT !.layers = SubSeq(@, 1, Len(@) - 1)]
IsUnder(a, k, b) == b.layers # <<>> /\ b.layers[Len(b.layers)] = layer(a, k)

\* The key length and the iv or counter a cipher insists on.
cipherReady(a, k) ==
    /\ k.fam = "oct"
    /\ CASE a.name = "DES-CBC" -> k.len = 8
         [] a.name = "3DES-CBC" -> k.len \in {16, 24}
         [] OTHER -> k.len \in {16, 24, 32}
    /\ a.name = "AES-KW" \/ a.iv # ""
    /\ a.name = "AES-CTR" => a.length \in 1..128

\* The length of what is wrapped is known for raw bytes only.
keyWrapAccepts(b) ==
    b.enc = "raw" /\ b.layers = <<>> => b.len >= 16 /\ b.len % 8 = 0

\* Counter mode is the same keystream in both directions.
ctrStream(a, k, b) == IF IsUnder(a, k, b) THEN Open(b) ELSE Seal(a, k, b)

encryptSecret(a, k, b) ==
    IF ~cipherReady(a, k) THEN {} ELSE
    CASE a.name \in {"AES-CBC", "AES-GCM", "DES-CBC", "3DES-CBC"} -> {Seal(a, k, b)}
      [] a.name = "AES-CTR" -> {ctrStream(a, k, b)}
      [] a.name = "AES-KW" /\ keyWrapAccepts(b) -> {Seal(a, k, b)}
      [] OTHER -> {}

encryptRSA(a, k, b) ==
    IF a.name \in {"RSA-OAEP", "RSAES-PKCS1-V1_5"} /\ k.fam = "RSA"
    THEN {Seal(a, k, b)} ELSE {}

encryptData(a, k, b) == encryptSecret(a, k, b) \cup encryptRSA(a, k, b)

\* CBC has no integrity check but its padding: under another key or iv the
\* padding may still look right and the result is some other bytes.
scrambled(a, k, b) ==
    {Encoded("raw", "oct", "", "secret", b.t \o <<"scrambled">> \o k.t, n) : n \in {8, 16, 24, 32}}

decryptSecret(a, k, b) ==
    IF ~cipherReady(a, k) THEN {}
    ELSE IF a.name = "AES-CTR" THEN {ctrStream(a, k, b)}
    ELSE IF a.name \in AESAlgs \cup {"DES-CBC", "3DES-CBC"} /\ IsUnder(a, k, b) THEN {Open(b)}
    ELSE IF a.name \in {"AES-CBC", "DES-CBC", "3DES-CBC"} /\ b.layers # <<>> THEN scrambled(a, k, b)
    ELSE {}

decryptRSA(a, k, b) ==
    IF /\ a.name \in {"RSA-OAEP", "RSAES-PKCS1-V1_5"}
       /\ k.fam = "RSA" /\ k.type = "private" /\ IsUnder(a, k, b)
    THEN {Open(b)} ELSE {}

decryptData(a, k, b) == decryptSecret(a, k, b) \cup decryptRSA(a, k, b)

-----------------------------------------------------------------------------
(* Derivation of n bytes.                                                  *)

Derived(t, n) == Encoded("raw", "oct", "", "secret", t, n)

deriveBitsPBKDF2(a, base, n) ==
    IF a.name = "PBKDF2" /\ HasSecretKey(base)
    THEN {Derived(base.t \o <<"PBKDF2", hashFromAlgorithmObject(a)>>, n)} ELSE {}

deriveBitsHKDF(a, base, n) ==
    IF a.name = "HKDF" /\ HasSecretKey(base)
    THEN {Derived(base.t \o <<"HKDF", hashFromAlgorithmObject(a)>>, n)} ELSE {}

\* The same secret from either side.
sharedTerm(t, u) ==
    LET x == CHOOSE z \in {t, u} : TRUE
        y == CHOOSE z \in {t, u} : {x, z} = {t, u}
    IN  <<"shared">> \o x \o y

deriveBitsECDH(a, base, peer, n) ==
    IF /\ a.name = "ECDH" /\ base.fam = "ECDH" /\ base.type = "private"
       /\ peer.fam = "ECDH" /\ peer.curve = base.curve
       /\ n <= (CASE base.curve = "P-384" -> 48 [] base.curve = "P-521" -> 66 [] OTHER -> 32)
    THEN {Derived(sharedTerm(base.t, peer.pub), n)} ELSE {}

deriveBitsX25519(a, base, peer, n) ==
    IF /\ a.name = "X25519" /\ base.fam = "X25519" /\ base.type = "private"
       /\ peer.fam = "X25519" /\ n <= 32
    THEN {Derived(sharedTerm(base.t, peer.pub), n)} ELSE {}

deriveBits(a, base, peer, n) ==
    deriveBitsPBKDF2(a, base, n) \cup deriveBitsHKDF(a, base, n)
        \cup deriveBitsECDH(a, base, peer, n) \cup deriveBitsX25519(a, base, peer, n)

\* In bits; an AES length is not checked before the import.
deriveKeyLengthBits(a) ==
    CASE a.name \in AESAlgs -> {a.length} \ {0}
      [] a.name = "DES-CBC" -> {64}
      [] a.name = "3DES-CBC" -> IF a.length = 0 THEN {192} ELSE {a.length} \cap {128, 192}
      [] a.name = "HMAC" -> {IF a.length > 0 THEN a.length
                             ELSE 8 * digestLengthBytes(hashFromAlgorithmObject(a))}
      [] OTHER -> {}

-----------------------------------------------------------------------------
(* The calls.                                                              *)

CryptoInit ==
    /\ ids \in Scripts /\ bytes \in Holdings[ids]
    /\ keys = {} /\ drawn = 0 /\ reached = {}

Room == Cardinality(keys) + Cardinality(bytes) < MaxHeld

subtleGenerateKey ==
    /\ Room
    /\ \E a \in ids, ext \in BOOLEAN, us \in UsageSets :
           /\ drawn < Len(RandomStream)
           /\ drawn' = drawn + 1
           /\ LET pair == generated(a, <<RandomStream[drawn']>>, ext, us)
              IN  pair # {} /\ keys' = keys \cup pair
           /\ UNCHANGED <<ids, bytes, reached>>

subtleImportKey ==
    /\ Room
    /\ \E f \in Formats, a \in ids, b \in bytes, ext \in BOOLEAN, us \in UsageSets :
           \E h \in importUnwrappedKey(f, a, b, ext, us) :
               /\ keys' = keys \cup {h}
               /\ UNCHANGED <<ids, bytes, drawn, reached>>

subtleExportKey ==
    /\ Room
    /\ \E f \in Formats, h \in keys :
           /\ h.ext
           /\ \E b \in exportKeyBytesForWrap(f, h) : bytes' = bytes \cup {b}
           /\ UNCHANGED <<ids, keys, drawn, reached>>

subtleSign ==
    /\ Room
    /\ \E a \in ids, k \in keys :
           /\ \E sig \in signData(a, k) : bytes' = bytes \cup {sig}
           /\ UNCHANGED <<ids, keys, drawn, reached>>

subtleEncrypt ==
    /\ Room
    /\ \E a \in ids, k \in keys, b \in bytes :
           /\ \E c \in encryptData(a, k, b) : bytes' = bytes \cup {c}
           /\ UNCHANGED <<ids, keys, drawn, reached>>

subtleDecrypt ==
    /\ Room
    /\ \E a \in ids, k \in keys, b \in bytes :
           /\ \E p \in decryptData(a, k, b) : bytes' = bytes \cup {p}
           /\ UNCHANGED <<ids, keys, drawn, reached>>

subtleDeriveBits ==
    /\ Room
    /\ \E a \in ids, base \in keys, peer \in keys, bits \in BitLengths :
           /\ bits > 0 /\ bits % 8 = 0
           /\ \E b \in deriveBits(a, base, peer, bits \div 8) : bytes' = bytes \cup {b}
           /\ UNCHANGED <<ids, keys, drawn, reached>>

subtleDeriveKey ==
    /\ Room
    /\ \E a, d \in ids, base \in keys, peer \in keys, ext \in BOOLEAN, us \in UsageSets :
           \E bits \in deriveKeyLengthBits(d) :
               \E b \in deriveBits(a, base, peer, bits \div 8) :
                   \E h \in importRawKey(d, b, ext, us) :
                       /\ keys' = keys \cup {h}
                       /\ UNCHANGED <<ids, bytes, drawn, reached>>

\* Faulty variant: what leaves encrypted is not checked for extractable.
WrapUnchecked ==
    /\ Room
    /\ \E f \in Formats, h \in keys, w \in keys, a \in ids :
           /\ \E b \in exportKeyBytesForWrap(f, h) :
                 \E c \in encryptData(a, w, b) : bytes' = bytes \cup {c}
           /\ UNCHANGED <<ids, keys, drawn, reached>>

subtleWrapKey ==
    /\ Room
    /\ \E f \in Formats, h \in keys, w \in keys, a \in ids :
           /\ h.ext
           /\ \E b \in exportKeyBytesForWrap(f, h) :
                 \E c \in encryptData(a, w, b) : bytes' = bytes \cup {c}
           /\ UNCHANGED <<ids, keys, drawn, reached>>

subtleUnwrapKey ==
    /\ Room
    /\ \E f \in Formats, c \in bytes, w \in keys, a, d \in ids,
          ext \in BOOLEAN, us \in UsageSets :
           \E b \in decryptData(a, w, c) :
               \E h \in importUnwrappedKey(f, d, b, ext, us) :
                   /\ keys' = keys \cup {h}
                   /\ UNCHANGED <<ids, bytes, drawn, reached>>

\* The slot in which a CryptoKey keeps its Go handle is an ordinary property,
\* and the handle's fields are exported: a script can read the secret in them
\* (of an Ed25519 key the seed, which is the first half of the field), ...
slotBytes(h) ==
    IF h.fam = "oct" THEN Encoded("raw", "oct", "", "secret", h.t, h.len)
    ELSE Encoded("raw", blobFam(h), h.curve, "private", h.t, IF h.fam \in OKPAlgs THEN 32 ELSE 1)

readHandleSlot ==
    /\ Room /\ ids \in Meddling
    /\ \E h \in keys :
           /\ IsSecret(h) /\ (h.fam = "oct" => h.len > 0)
           /\ bytes' = bytes \cup {slotBytes(h)} /\ reached' = reached \cup {h.t}
           /\ UNCHANGED <<ids, keys, drawn>>

\* ... and set Extractable, which is what the calls look at.
setHandleSlot ==
    /\ ids \in Meddling
    /\ \E h \in keys :
           /\ keys' = (keys \ {h}) \cup {[h EXCEPT !.ext = ~h.ext]}
           /\ reached' = IF IsSecret(h) THEN reached \cup {h.t} ELSE reached
           /\ UNCHANGED <<ids, bytes, drawn>>

CryptoNext ==
    \/ subtleGenerateKey \/ subtleImportKey \/ subtleExportKey
    \/ subtleSign \/ subtleEncrypt \/ subtleDecrypt
    \/ subtleDeriveBits \/ subtleDeriveKey
    \/ subtleWrapKey \/ subtleUnwrapKey
    \/ readHandleSlot \/ setHandleSlot

CryptoSpec == CryptoInit /\ [][CryptoNext]_cryptoVars

-----------------------------------------------------------------------------
(* Properties.                                                             *)

\* Some handle of the random value may be exported.
Free(s) == \E h \in keys : IsSecret(h) /\ h.ext /\ h.t = <<s>>

\* The calls of crypto.subtle confine secrets: the secret of a generated key,
\* or of the private half of a generated pair, is in a script's byte strings
\* (in any format, under any encryption) or behind a second handle only if a
\* handle of it is extractable, or if a script took the Go handle out of its
\* slot, which nothing prevents (runtime_helpers.go:274).  The checks of
\* exportKey and wrapKey (subtle_api.go:466, :739), the public halves that the
\* raw, spki and public formats take from private handles, and unwrapKey and
\* importKey with a new extractable flag together let nothing else out.
Confined ==
    \A i \in DOMAIN RandomStream : LET s == RandomStream[i] IN
        \/ <<s>> \in reached
        \/ Free(s)
        \/ /\ \A b \in bytes : b.t = <<s>> => b.part = "public"
           /\ \A h, k \in keys : IsSecret(h) /\ IsSecret(k) /\ h.t = <<s>> /\ k.t = <<s>> => h = k

\* The algorithm object that describes a handle, with the part a raw export
\* of it holds as the type hint.
OwnId(h, b) ==
    [name |-> h.name, length |-> 0, hash |-> h.hash, namedCurve |-> h.curve,
     keyType |-> IF b.part = "public" THEN "public" ELSE "", iv |-> ""]

\* What exportKey returns in any format, importKey reads back for the
\* handle's own algorithm: the same material, as a private key exactly when
\* the export held the private part (key_io.go and raw_key_helpers.go write
\* what subtle_api.go:371-457 and importRawKey read).  A private key whose
\* public half is not its secret's (64 raw bytes, crypto.go:838, or an EC JWK,
\* key_io.go:143) comes back as it was from the JWK of an EC key only, and
\* otherwise with the public half of its secret.  It holds of handles
\* whose algorithm is one of their key's kind: an RSA JWK may be imported
\* under any name, and then its pkcs8 export is not read back.
RoundTrip ==
    \A h \in keys, f \in Formats : \A b \in exportKeyBytesForWrap(f, h) :
        (h.fam = "RSA" => h.name \in RSAAlgs) =>
            LET back == importUnwrappedKey(f, OwnId(h, b), b, h.ext, h.usages)
            IN  /\ back # {}
                /\ f \in {"jwk", "pkcs8", "sec1", "pkcs1"} => b.part = h.type
                /\ \A k \in back :
                      /\ k.t = (IF b.part = "public" THEN h.pub ELSE h.t)
                      /\ k.pub = (IF b.part = "public" \/ (f = "jwk" /\ h.fam \in ECAlgs)
                                  THEN h.pub ELSE h.t)
                      /\ k.fam = h.fam /\ k.curve = h.curve
                      /\ k.len = h.len /\ k.hash = h.hash
                      /\ k.type = b.part
                      /\ IsSecret(k) => k.ext = h.ext

\* A signature is accepted through every handle whose public half is that of
\* the secret it was made with and which resolves the same hash, the public
\* handle and handles imported under another name included, and through no
\* other (signData, verifyData, crypto.go:128-349: two copies of the choice of
\* key, hash and digest).  So an EC key imported with another key's point signs
\* what it does not accept itself, and an Ed25519 key with another public half
\* signs what nobody accepts.
VerifiesOwn ==
    \A a \in ids, h \in keys : \A sig \in signData(a, h) :
        \A k \in keys :
            verifyData(a, k, sig) <=>
                /\ k.fam = h.fam /\ k.pub = h.t /\ k.len = h.len /\ k.curve = h.curve
                /\ h.fam = "Ed25519" => h.pub = h.t
                /\ a.name = "Ed25519" \/ a.hash # "" \/ k.hash = h.hash
                       \/ {k.hash, h.hash} = {"", "SHA-256"}
=============================================================================
