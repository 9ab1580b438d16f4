-------------------------------- MODULE Rsa --------------------------------
(***************************************************************************)
(* The numbers behind DKIM: primes and inverses (common/calc.py), the keys *)
(* made of them (common/rsa.py), and their encoding, of digests as well    *)
(* (common/asn.py): a tree of tagged values is written with the length of  *)
(* each part before it, and read again along a template.                   *)
(*                                                                         *)
(* The choices of the generator are random: any of them may be made.  That *)
(* a composite number passes for a prime is as unlikely as HalfAccuse says *)
(* and left out of the keys.                                               *)
(***************************************************************************)
EXTENDS Integers, FiniteSets, SequencesExt

CONSTANTS
    ByteBits,       \* 8: how many bits a byte has
    Trees,          \* the values to be written
    Bits,           \* how many bits a prime of a key has
    Magic,          \* 65537: the public exponent that is tried first
    ExponentBits,   \* 8: how many bits the other ones have
    MaxNumber       \* bound: the numbers tested for primality

ASSUME AsnAssumption == ByteBits \in Nat /\ ByteBits >= 4

ASSUME RsaAssumption ==
    /\ {Bits, ExponentBits} \subseteq Nat \ {0, 1}
    /\ Magic \in Nat /\ MaxNumber \in Nat

VARIABLES
    coding,     \* a value, what was written and what was read
    key         \* the private key, as far as it is generated
codingVars == <<coding>>
keyVars == <<key>>

Base == 2 ^ ByteBits
HighBit == 2 ^ (ByteBits - 1)

-----------------------------------------------------------------------------
(* Integers and bytes (common/util.py).                                    *)

RECURSIVE Digits(_)
Digits(n) == IF n = 0 THEN <<>> ELSE Append(Digits(n \div Base), n % Base)

\* integer_to_bytes()
IntegerToBytes(n, length) ==
    LET digits == Digits(n)
        missing == IF length > Len(digits) THEN length - Len(digits) ELSE 0
    IN  [i \in 1 .. missing |-> 0] \o digits

\* bytes_to_integer()
BytesToInteger(bytes) == FoldLeft(LAMBDA n, byte : n * Base + byte, 0, bytes)

-----------------------------------------------------------------------------
(* Nodes: a tag, with an integer, bytes, or the nodes of a sequence.       *)

Null == [tag |-> "null", number |-> 0, bytes |-> <<>>, nodes |-> <<>>]
IntegerNode(n) == [Null EXCEPT !.tag = "integer", !.number = n]
BytesNode(tag, bytes) == [Null EXCEPT !.tag = tag, !.bytes = bytes]
SequenceNode(nodes) == [Null EXCEPT !.tag = "sequence", !.nodes = nodes]

\* each tag is a byte of its own
Tag == [sequence |-> 1, integer |-> 2, bits |-> 3, octets |-> 4, null |-> 5, object |-> 6]

\* asn1_length()
Asn1Length(n) ==
    IF n < HighBit - 1 THEN <<n>>
    ELSE LET digits == IntegerToBytes(n, 0) IN <<HighBit + Len(digits)>> \o digits

RECURSIVE Asn1Build(_)
Asn1Build(node) ==
    LET content ==
            CASE node.tag = "integer" -> IntegerToBytes(node.number, 0)
              [] node.tag = "null" -> <<>>
              [] node.tag \in {"bits", "octets", "object"} -> node.bytes
              [] node.tag = "sequence" ->
                    FlattenSeq([i \in 1 .. Len(node.nodes) |-> Asn1Build(node.nodes[i])])
    IN  <<Tag[node.tag]>> \o Asn1Length(Len(content)) \o content

-----------------------------------------------------------------------------
(* Reading: a template is a node whose values are not looked at, but for   *)
(* those of sequences.                                                     *)

Slice(bytes, first, n) ==
    SubSeq(bytes, first, IF first + n - 1 < Len(bytes) THEN first + n - 1 ELSE Len(bytes))

\* where the content begins and how long it is
ContentAt(bytes) ==
    LET number == bytes[2] - HighBit
    IN  IF bytes[2] < HighBit THEN [first |-> 3, length |-> bytes[2]]
        ELSE [first |-> 3 + number, length |-> BytesToInteger(Slice(bytes, 3, number))]

\* asn1_parse(): the nodes, or none if a tag is not that of the template
Unexpected == <<BytesNode("error", <<>>)>>

RECURSIVE Asn1Parse(_, _)
Asn1Parse(template, bytes) ==
    IF template = <<>> THEN <<>>
    ELSE IF Len(bytes) < 2 THEN Unexpected
    ELSE LET item == Head(template)
             at == ContentAt(bytes)
             content == Slice(bytes, at.first, at.length)
             rest == Asn1Parse(Tail(template),
                               Slice(bytes, at.first + at.length, Len(bytes)))
             inner == Asn1Parse(item.nodes, content)
         IN  IF bytes[1] # Tag[item.tag] THEN Unexpected
             ELSE CASE item.tag = "integer" -> <<IntegerNode(BytesToInteger(content))>> \o rest
                    [] item.tag = "null" ->
                          IF at.length = 0 THEN <<Null>> \o rest ELSE Unexpected
                    [] item.tag = "sequence" ->
                          IF inner = Unexpected THEN Unexpected
                          ELSE <<SequenceNode(inner)>> \o rest
                    [] item.tag \in {"bits", "octets", "object"} ->
                          <<BytesNode(item.tag, content)>> \o rest

-----------------------------------------------------------------------------
AsnInit == coding \in [tree : Trees, stage : {"value"}, bytes : {<<>>}, read : {<<>>}]

\* asn1_gen()
Asn1Gen ==
    /\ coding.stage = "value"
    /\ coding' = [coding EXCEPT !.stage = "written", !.bytes = Asn1Build(coding.tree)]

\* what is read of it
ReadTree ==
    /\ coding.stage = "written"
    /\ coding' = [coding EXCEPT !.stage = "read",
                                !.read = Asn1Parse(<<coding.tree>>, coding.bytes)]

AsnNext == Asn1Gen \/ ReadTree

-----------------------------------------------------------------------------
(* common/calc.py                                                          *)

RECURSIVE Gcd(_, _)
Gcd(m, n) ==
    IF m < n THEN Gcd(n, m) ELSE IF n = 0 THEN m ELSE Gcd(n, m % n)

RelativelyPrime(m, n) == Gcd(m, n) = 1

RECURSIVE Egcd(_, _)
Egcd(m, n) ==
    IF n = 0 THEN <<m, 1, 0>>
    ELSE LET e == Egcd(n, m % n) IN <<e[1], e[3], e[2] - e[3] * (m \div n)>>

\* modinv(), of numbers that have an inverse
ModInv(m, n) == Egcd(m, n)[2] % n

\* pow(x, y, n)
RECURSIVE Pow(_, _, _)
Pow(x, y, n) ==
    IF y = 0 THEN 1 % n
    ELSE LET h == Pow(x, y \div 2, n)
         IN  ((h * h % n) * IF y % 2 = 1 THEN x % n ELSE 1) % n

\* the loop of jacobi(), with the sign it has got to
RECURSIVE JacobiOf(_, _, _)
JacobiOf(a, b, sign) ==
    IF a <= 1 THEN sign
    ELSE IF a % 2 = 1
    THEN JacobiOf(b % a, a, IF (((a - 1) * (b - 1)) \div 4) % 2 = 1 THEN -sign ELSE sign)
    ELSE JacobiOf(a \div 2, b, IF ((b * b - 1) \div 8) % 2 = 1 THEN -sign ELSE sign)

Jacobi(a, b) == IF a % b = 0 THEN 0 ELSE JacobiOf(a, b, 1)

\* jacobi_witness(): x says that n is no prime
JacobiWitness(x, n) == Jacobi(x, n) % n # Pow(x, (n - 1) \div 2, n)

\* random_integer_interval(1, n - 1): what random_primality() asks
Asked(n) == 1 .. n - 2
Witnesses(n) == {x \in Asked(n) : JacobiWitness(x, n)}

\* prime(): an odd number of so many bits, the first of them set
IsPrime(n) == n > 1 /\ \A m \in 2 .. n - 1 : m * m > n \/ n % m # 0
PrimesOf(bits) == {n \in 2 ^ (bits - 1) .. 2 ^ bits - 1 : n % 2 = 1 /\ IsPrime(n)}

-----------------------------------------------------------------------------
(* common/rsa.py                                                           *)

\* rsa_bits()
RsaBits(n) == CHOOSE bits \in 1 .. n : 2 ^ bits >= n /\ 2 ^ (bits - 1) < n

\* rsa_acceptable()
Acceptable(p, q) == p # q /\ RsaBits(p * q) = 2 * Bits

NoKey == [stage |-> "none", prime_1 |-> 0, prime_2 |-> 0, modulus |-> 0, public |-> 0,
          private |-> 0, exponent_1 |-> 0, exponent_2 |-> 0, coefficient |-> 0]

KeyInit == key = NoKey

\* rsa_primes(): the first two
RsaPrimes ==
    /\ key.stage = "none"
    /\ \E p, q \in PrimesOf(Bits) :
           key' = [NoKey EXCEPT !.stage = "primes", !.prime_1 = p, !.prime_2 = q]

\* they are not acceptable: another prime_1, and always that one
RsaPrimesAgain ==
    /\ key.stage = "primes" /\ ~Acceptable(key.prime_1, key.prime_2)
    /\ \E p \in PrimesOf(Bits) : key' = [key EXCEPT !.prime_1 = p]

Phi == (key.prime_1 - 1) * (key.prime_2 - 1)
PublicExponents ==
    LET Relative(e) == RelativelyPrime(e, key.prime_1 * key.prime_2) /\ RelativelyPrime(e, Phi)
    IN  IF Relative(Magic) THEN {Magic} ELSE {e \in PrimesOf(ExponentBits) : Relative(e)}

\* rsa_exponents(): the private exponent may be negative
RsaExponents ==
    /\ key.stage = "primes" /\ Acceptable(key.prime_1, key.prime_2)
    /\ \E e \in PublicExponents :
           key' = [key EXCEPT !.stage = "exponents", !.public = e, !.private = Egcd(e, Phi)[2]]

\* rsa_private(): everything again, or the rest of the key
RsaPrivate ==
    /\ key.stage = "exponents"
    /\ key' = IF key.private <= 0 THEN NoKey
              ELSE [key EXCEPT !.stage = "done", !.modulus = key.prime_1 * key.prime_2,
                               !.exponent_1 = key.private % (key.prime_1 - 1),
                               !.exponent_2 = key.private % (key.prime_2 - 1),
                               !.coefficient = ModInv(key.prime_2, key.prime_1)]

\* rsa_crypt(), rsa_crypt_s() of bytes
RsaCrypt(number, exponent) == Pow(number, exponent, key.modulus)
ModulusBytes == (RsaBits(key.modulus) + ByteBits - 1) \div ByteBits
RsaCryptS(bytes, exponent) ==
    IntegerToBytes(RsaCrypt(BytesToInteger(bytes), exponent), ModulusBytes)

\* asn_private_key(), asn_public_key() and what their readers make of it
IntegerNodes(numbers) ==
    SequenceNode([i \in 1 .. Len(numbers) |-> IntegerNode(numbers[i])])
PrivateNode ==
    IntegerNodes(<<0, key.modulus, key.public, key.private, key.prime_1, key.prime_2,
                   key.exponent_1, key.exponent_2, key.coefficient>>)
PublicPart == IntegerNodes(<<key.modulus, key.public>>)
PublicNode ==
    SequenceNode(<<SequenceNode(<<BytesNode("object", <<2, 10>>), Null>>),
                   BytesNode("bits", <<0>> \o Asn1Build(PublicPart))>>)

OpenPublicKeyData(bytes) ==
    LET outer == Asn1Parse(<<PublicNode>>, bytes)[1]
    IN  Asn1Parse(<<PublicPart>>, Tail(outer.nodes[2].bytes))

RsaNext == RsaPrimes \/ RsaPrimesAgain \/ RsaExponents \/ RsaPrivate

-----------------------------------------------------------------------------
(* Properties.                                                             *)

\* no number says of a prime that it is none, and at least half of those that
\* may be asked say so of any other
HalfAccuse ==
    \A n \in {m \in 3 .. MaxNumber : m % 2 = 1} :
        IF IsPrime(n) THEN Witnesses(n) = {}
        ELSE 2 * Cardinality(Witnesses(n)) >= Cardinality(Asked(n))

\* what is signed with a key is what is verified with it, also by those who use
\* its primes, as long as it is less than the modulus
Coefficients(m) ==
    LET m1 == Pow(m, key.exponent_1, key.prime_1)
        m2 == Pow(m, key.exponent_2, key.prime_2)
    IN  m2 + ((key.coefficient * (m1 - m2)) % key.prime_1) * key.prime_2

SignVerify ==
    key.stage = "done" => \A m \in 0 .. key.modulus - 1 :
        /\ RsaCrypt(RsaCrypt(m, key.private), key.public) = m
        /\ Coefficients(m) = RsaCrypt(m, key.private)
        /\ LET message == IntegerToBytes(m, 0)
           IN  BytesToInteger(RsaCryptS(RsaCryptS(message, key.private), key.public)) = m

\* a key is what is read from the file it was written to
KeyFile ==
    key.stage = "done" =>
        /\ Asn1Parse(<<PrivateNode>>, Asn1Build(PrivateNode)) = <<PrivateNode>>
        /\ OpenPublicKeyData(Asn1Build(PublicNode)) = <<PublicPart>>

RsaSafety ==
    /\ key.stage = "none" => HalfAccuse
    /\ SignVerify /\ KeyFile

\* what was written is read again, and is bytes
AsnSafety ==
    /\ \A i \in 1 .. Len(coding.bytes) : coding.bytes[i] \in 0 .. Base - 1
    /\ coding.stage = "read" => coding.read = <<coding.tree>>
=============================================================================
