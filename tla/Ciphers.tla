------------------------------ MODULE Ciphers ------------------------------
(***************************************************************************)
(* The arithmetic that crypto does itself: the factors of an RSA key that  *)
(* came without them (key_io.go), PKCS #7 padding and the AES key wrap of  *)
(* RFC 3394 (legacy_cipher_helpers.go).  A state is one call of one of     *)
(* them; the step returns its result, <<>> for an error and <<r>> for r.   *)
(*                                                                         *)
(* Sizes are small: the block of the padding is BlockSize, a word of the   *)
(* key wrap is WordBits wide, and the block cipher under it, which is not  *)
(* the program's, is a permutation of pairs of words.                      *)
(***************************************************************************)
EXTENDS Integers, Sequences, SequencesExt, Bitwise

CONSTANTS
    Primes,       \* the primes an RSA modulus is made of
    Exponents,    \* the public exponents
    BlockSize, PadBytes, MaxPadded,
    WordBits, WrapKeys, MaxWords

VARIABLES call, result, returned

cipherVars == <<call, result, returned>>

-----------------------------------------------------------------------------
(* recoverRSAFactorsFromNED.                                               *)

Gcd(x, y) == Max({g \in 1..x : x % g = 0 /\ y % g = 0})

\* big.Int.Exp.
ModExp(g, r, n) ==
    LET pow[i \in 0..r] ==
            IF i = 0 THEN 1
            ELSE LET h == pow[i \div 2] IN (((h * h) % n) * (IF i % 2 = 1 THEN g ELSE 1)) % n
    IN  pow[r]

Sorted(p, n) == LET q == n \div p IN IF p > q THEN <<q, p>> ELSE <<p, q>>

\* At most t squarings: what gives one when squared is a root of one, and has a
\* factor of n in common with the number below it unless it is -1.
climb(y0, t, n) ==
    LET from[m \in 0..t, y \in 0..n - 1] ==
            LET x == (y * y) % n
                p == Gcd(y - 1, n)
            IN  CASE m = 0 -> <<>>
                  [] m > 0 /\ x = 1 -> IF p <= 1 \/ p >= n THEN <<>> ELSE <<Sorted(p, n)>>
                  [] m > 0 /\ x = n - 1 -> <<>>
                  [] OTHER -> from[m - 1, x]
    IN  from[t, y0]

\* Faulty variant: the last halving is not counted.
HalvingsOneShort(k) == CHOOSE t \in 0..k : k % 2^(t + 1) = 0 /\ k % 2^(t + 2) # 0

\* k is 2^t times the odd r.
halvings(k) == CHOOSE t \in 0..k : k % 2^t = 0 /\ k % 2^(t + 1) # 0

tryBase(g, k, n) ==
    LET t == halvings(k)
        common == Gcd(g, n)
        y == ModExp(g, k \div 2^t, n)
    IN  CASE common > 1 /\ common < n -> <<Sorted(common, n)>>
          [] y \in {1, n - 1} -> <<>>
          [] OTHER -> climb(y, t, n)

\* The bases are tried in order; the random ones after them lie in the same
\* range, which small moduli exhaust.
recoverRSAFactorsFromNED(n, e, d) ==
    LET k == d * e - 1
        from[g \in 2..n] ==
            IF g >= n - 1 THEN <<>>
            ELSE LET f == tryBase(g, k, n) IN IF f # <<>> THEN f ELSE from[g + 1]
    IN  IF k <= 0 \/ k % 2 # 0 THEN <<>> ELSE from[2]

-----------------------------------------------------------------------------
(* Padding.                                                                *)

\* At least one byte, so that it can always be taken off.
pkcs7Pad(data) ==
    LET padLen == BlockSize - (Len(data) % BlockSize)
    IN  data \o [i \in 1..padLen |-> padLen]

\* Faulty variant: only the last byte is looked at.
UnpadLastByte(data) ==
    LET padLen == data[Len(data)]
    IN  IF Len(data) = 0 \/ Len(data) % BlockSize # 0 THEN <<>>
        ELSE IF padLen <= 0 \/ padLen > BlockSize \/ padLen > Len(data) THEN <<>>
        ELSE <<SubSeq(data, 1, Len(data) - padLen)>>

pkcs7Unpad(data) ==
    LET padLen == data[Len(data)]
    IN  IF Len(data) = 0 \/ Len(data) % BlockSize # 0 THEN <<>>
        ELSE IF padLen <= 0 \/ padLen > BlockSize \/ padLen > Len(data) THEN <<>>
        ELSE IF \E i \in Len(data) - padLen + 1..Len(data) : data[i] # padLen THEN <<>>
        ELSE <<SubSeq(data, 1, Len(data) - padLen)>>

-----------------------------------------------------------------------------
(* Key wrap.                                                               *)

W == 2^WordBits
Words == 0..W - 1

\* External: a block cipher on a pair of words, and its inverse.
Encrypt(kek, a, r) ==
    LET x == (5 * (W * a + r) + kek) % W^2 IN [a |-> x \div W, r |-> x % W]
Decrypt(kek, a, r) ==
    CHOOSE p \in [a : Words, r : Words] : Encrypt(kek, p.a, p.r) = [a |-> a, r |-> r]

\* The initial value 0xA6..., cut to a word.
IV == 166 % W

xorT(a, t) == a ^^ (t % W)

\* x is the register and the words.  Both loops number the words from 0 and
\* keep a count of their own.
wrapCount(n, j, i) == n * j + i + 1

Upwards(n) == [m \in 1..n |-> m - 1]
Downwards(n) == [m \in 1..n |-> n - m]

aesKeyWrap(kek, plain) ==
    LET n == Len(plain)
        pass(x0, j) ==
            LET word(x, i) ==
                    LET b == Encrypt(kek, x.a, x.r[i + 1])
                    IN  [a |-> xorT(b.a, wrapCount(n, j, i)), r |-> [x.r EXCEPT ![i + 1] = b.r]]
            IN  FoldLeft(word, x0, Upwards(n))
        end == FoldLeft(pass, [a |-> IV, r |-> plain], Upwards(6))
    IN  IF n < 2 THEN <<>> ELSE <<<<end.a>> \o end.r>>

\* Faulty variant: the count starts from 0.
UnwrapCountFromZero(n, j, i) == n * j + i

unwrapCount(n, j, i) == n * j + i + 1

\* The initial value must come out.
aesKeyUnwrap(kek, cipher) ==
    LET n == Len(cipher) - 1
        pass(x0, j) ==
            LET word(x, i) ==
                    LET b == Decrypt(kek, xorT(x.a, unwrapCount(n, j, i)), x.r[i + 1])
                    IN  [a |-> b.a, r |-> [x.r EXCEPT ![i + 1] = b.r]]
            IN  FoldLeft(word, x0, Downwards(n))
        start == FoldLeft(pass, [a |-> Head(cipher), r |-> Tail(cipher)], Downwards(6))
    IN  IF n < 2 \/ start.a # IV THEN <<>> ELSE <<start.r>>

-----------------------------------------------------------------------------
Coprime(x, y) == Gcd(x, y) = 1

\* The private exponents of an RSA key: inverses of e modulo lcm or phi.
PrivateExponents(p, q, e) ==
    {d \in 2..(p - 1) * (q - 1) : (d * e) % (((p - 1) * (q - 1)) \div Gcd(p - 1, q - 1)) = 1}

RSACalls ==
    UNION {[op : {"factors"}, p : {p}, q : {q}, e : {e}, d : PrivateExponents(p, q, e)] :
              <<p, q, e>> \in {x \in Primes \X Primes \X Exponents :
                                  x[1] < x[2] /\ Coprime(x[3], (x[1] - 1) * (x[2] - 1))}}

CipherInit ==
    /\ result = <<>> /\ returned = FALSE
    /\ \/ call \in RSACalls
       \/ call \in [op : {"pad", "unpad"}, data : SeqOf(PadBytes, MaxPadded)]
       \/ call \in [op : {"wrap", "unwrap"}, kek : WrapKeys, data : SeqOf(Words, MaxWords)]

Answer ==
    CASE call.op = "factors" -> recoverRSAFactorsFromNED(call.p * call.q, call.e, call.d)
      [] call.op = "pad" -> <<pkcs7Pad(call.data)>>
      [] call.op = "unpad" -> pkcs7Unpad(call.data)
      [] call.op = "wrap" -> aesKeyWrap(call.kek, call.data)
      [] call.op = "unwrap" -> aesKeyUnwrap(call.kek, call.data)

CipherReturn == ~returned /\ returned' = TRUE /\ result' = Answer /\ UNCHANGED call

CipherNext == CipherReturn

-----------------------------------------------------------------------------
\* Of the bases that share no factor with n, which are all that a real
\* modulus meets, half or more lead the climb to p and q, and none to anything
\* else.
ClimbFinds(n, k, factors) ==
    LET units == {g \in 1..n - 1 : Coprime(g, n)}
        found == {g \in units : tryBase(g, k, n) # <<>>}
    IN  /\ \A g \in found : tryBase(g, k, n) = <<factors>>
        /\ 2 * Cardinality(found) >= Cardinality(units)

\* The factors of every RSA key are found, whichever of the equivalent
\* private exponents the JWK has, and by the walk over square roots of one
\* (key_io.go:760-784), not only by a base that happens to share a factor.
\* Padding and key wrap are inverted by their counterparts, which accept
\* nothing else: what unpads or unwraps is what padding or wrapping its result
\* gives, so a changed byte of the padding or of the initial value does not
\* pass, and the two loops of the key wrap (legacy_cipher_helpers.go:56, :94)
\* agree on order and count.
ArithmeticExact ==
    returned =>
        CASE call.op = "factors" ->
                  /\ result = <<<<call.p, call.q>>>>
                  /\ ClimbFinds(call.p * call.q, call.d * call.e - 1, <<call.p, call.q>>)
          [] call.op = "pad" -> /\ pkcs7Unpad(result[1]) = <<call.data>>
                                /\ Len(result[1]) % BlockSize = 0
          [] call.op = "unpad" -> result # <<>> => pkcs7Pad(result[1]) = call.data
          [] call.op = "wrap" -> /\ (result = <<>>) = (Len(call.data) < 2)
                                 /\ result # <<>> => aesKeyUnwrap(call.kek, result[1]) = <<call.data>>
          [] call.op = "unwrap" -> result # <<>> => aesKeyWrap(call.kek, result[1]) = <<call.data>>
=============================================================================
