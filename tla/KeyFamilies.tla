----------------------------- MODULE KeyFamilies -----------------------------
(***************************************************************************)
(* The handlers of jwt/algorithms/: what prepare_key makes of what a caller *)
(* gives, what to_jwk writes and from_jwk reads, sign and verify.           *)
(*                                                                         *)
(* A key is its family, its curve, and its public and private numbers or    *)
(* bytes.  What the cryptography package does with texts and keys is        *)
(* external: its loaders read the text they are made for, and a signature   *)
(* verifies for the key and algorithm it was made with.                     *)
(***************************************************************************)
EXTENDS Codec

CONSTANTS
    Genuine,        \* keys as they are generated: their numbers belong together
    Texts,          \* texts that are more than a secret, told by their bytes
    NotUtf8,        \* bytes that are no text in UTF-8
    KeySize,        \* key_size of a curve, in bits
    Order,          \* order of a curve's base point
    Width,          \* bytes of a coordinate (_JWK_EC_CURVES), or of an Ed key
    MinimumLength   \* what check_key_length asks: bytes of HMAC, bits of RSA

(* The names of the default algorithms, and what each makes of a JWK.       *)
Jwk(argument) == INSTANCE JWK WITH
    Singles <- {}, Arguments <- {}, Lists <- {}, hasCrypto <- TRUE,
    op <- "key", algorithm <- argument, given <- <<>>, next <- 1, kept <- <<>>,
    outcome <- "none"

HmacNames == Jwk("")!HmacNames
RsaNames == Jwk("")!RsaNames
EcNames == Jwk("")!EcNames
OkpNames == Jwk("")!OkpNames
ExpectedCurve == Jwk("")!ExpectedCurve
ExpectedCurves == {ExpectedCurve[name] : name \in EcNames}
Asymmetric == RsaNames \cup EcNames \cup OkpNames

FamilyOf(alg) ==
    CASE alg \in HmacNames -> "oct"
      [] alg \in RsaNames  -> "RSA"
      [] alg \in EcNames   -> "EC"
      [] alg \in OkpNames  -> "OKP"
      [] OTHER             -> "none"

\* No private part: the public key, with a private part: the private key.
Key(family, part, pub, priv) ==
    [family |-> family, part |-> part, pub |-> pub, priv |-> priv]
NoKey == Key("none", "", <<>>, <<>>)

IsPrivate(key) == key.priv # <<>>
PublicHalf(key) == Key(key.family, key.part, key.pub, <<>>)

(* What is given for a key: an "object" of the cryptography package, None   *)
(* ("nothing"), a value of another type ("other"), or a text.  A text begins *)
(* with "-----BEGIN <marker>-----" or with an ssh marker, or has none (""); *)
(* it is "whole", "cut" before its last line, "broken", "encrypted", or of  *)
(* an "unsupported" kind.  It is "loose" when a PEM text is not laid out as *)
(* _PEM_RE has it, a line for BEGIN and one for END: all on one line, or      *)
(* with blanks after BEGIN.  The PEM reader of the package takes it still.  *)
Given(form, marker, state, key, bytes) ==
    [form |-> form, marker |-> marker, state |-> state, key |-> key,
     bytes |-> bytes]
WithPublicHalf(given) ==
    Given(given.form, given.marker, given.state, PublicHalf(given.key),
          given.bytes)
Object(key) == Given("object", "", "whole", key, <<>>)
Secret(bytes) == Given("text", "", "whole", NoKey, bytes)
TextOf(bytes) == IF \E text \in Texts : text.bytes = bytes
                   THEN CHOOSE text \in Texts : text.bytes = bytes
                   ELSE Secret(bytes)
Nothing == Given("nothing", "", "whole", NoKey, <<>>)

-----------------------------------------------------------------------------
(* Texts of keys.                                                           *)

PemLabels ==
    {"PUBLIC KEY", "RSA PUBLIC KEY", "PRIVATE KEY", "RSA PRIVATE KEY",
     "EC PRIVATE KEY", "DSA PRIVATE KEY", "OPENSSH PRIVATE KEY",
     "ENCRYPTED PRIVATE KEY", "SSH2 PUBLIC KEY", "SSH2 ENCRYPTED PRIVATE KEY",
     "CERTIFICATE", "TRUSTED CERTIFICATE", "CERTIFICATE REQUEST",
     "NEW CERTIFICATE REQUEST", "DH PARAMETERS", "X509 CRL"}

EcdsaPrefixes == {"ecdsa-sha2-nistp256", "ecdsa-sha2-nistp384",
                  "ecdsa-sha2-nistp521"}

\* Mutant: the table of ssh formats is behind the loaders.
SshPrefixesOf2015 == {"ssh-rsa", "ssh-dss"} \cup EcdsaPrefixes

SshPrefixes == {"ssh-ed25519", "ssh-rsa", "ssh-dss"} \cup EcdsaPrefixes

\* _PEM_RE goes by the layout of a text too.
IsPemFormat(text) ==
    text.marker \in PemLabels /\ text.state \notin {"cut", "loose"}
IsSshKey(text) == text.marker \in SshPrefixes

Ok(key) == [verdict |-> "ok", key |-> key]
Error(class) == [verdict |-> class, key |-> Nothing]

\* load_pem_public_key, load_pem_private_key, load_ssh_public_key
Loaded(text, markers, private) ==
    CASE text.marker \in markers /\ text.state = "unsupported" ->
            Error("UnsupportedAlgorithm")
      [] text.marker \in markers /\ text.state = "encrypted" /\ private ->
            Error("TypeError")
      [] text.marker \in markers /\ text.state \in {"whole", "loose"} ->
            Ok(Object(text.key))
      [] OTHER -> Error("ValueError")

LoadPemPublic(text) == Loaded(text, {"PUBLIC KEY", "RSA PUBLIC KEY"}, FALSE)

LoadPemPrivate(text) ==
    Loaded(text, {"PRIVATE KEY", "ENCRYPTED PRIVATE KEY", "RSA PRIVATE KEY",
                  "EC PRIVATE KEY", "DSA PRIVATE KEY"}, TRUE)

LoadSsh(text) ==
    Loaded(text, {"ssh-ed25519", "ssh-rsa", "ssh-dss"} \cup EcdsaPrefixes, FALSE)

-----------------------------------------------------------------------------
(* prepare_key                                                              *)

\* "except <classes>: <otherwise>"
Rescued(result, classes, otherwise) ==
    IF result.verdict \in classes THEN otherwise ELSE result

\* check_crypto_key_type
OfFamily(alg, result) ==
    IF result.verdict = "ok" /\ result.key.key.family # FamilyOf(alg)
      THEN Error("InvalidKeyError") ELSE result

\* _validate_curve
OfCurve(alg, result) ==
    IF result.verdict = "ok" /\ result.key.key.part # ExpectedCurve[alg]
      THEN Error("InvalidKeyError") ELSE result

PrepareHmac(given) ==
    IF given.form # "text" THEN Error("TypeError")
    ELSE IF IsPemFormat(given) \/ IsSshKey(given) THEN Error("InvalidKeyError")
    ELSE Ok(given)

PrepareNone(given) ==
    IF given.form = "nothing" \/ given = Secret(<<>>)
      THEN Ok(Nothing) ELSE Error("InvalidKeyError")

\* RSA and EC take an object of their family, and a text.
OwnObject(alg, given) == given.form = "object" /\ given.key.family = FamilyOf(alg)

PrepareRsa(alg, given) ==
    LET first == OfFamily(alg, IF given.marker = "ssh-rsa"
                                 THEN LoadSsh(given) ELSE LoadPemPrivate(given))
        second == OfFamily(alg, LoadPemPublic(given))
    IN  IF OwnObject(alg, given) THEN Ok(given)
        ELSE IF given.form # "text" THEN Error("TypeError")
        ELSE Rescued(first, {"ValueError"},
                Rescued(second, {"ValueError", "UnsupportedAlgorithm"},
                        Error("InvalidKeyError")))

EcPublic(alg, given) ==
    OfCurve(alg, OfFamily(alg, IF given.marker \in EcdsaPrefixes
                                 THEN LoadSsh(given) ELSE LoadPemPublic(given)))

\* Mutant: the curve of a private key is not looked at.
EcPrivateOfAnyCurve(alg, given) == OfFamily(alg, LoadPemPrivate(given))

\* A ValueError of the second attempt is not translated.
EcPrivate(alg, given) == OfCurve(alg, OfFamily(alg, LoadPemPrivate(given)))

PrepareEc(alg, given) ==
    IF OwnObject(alg, given) THEN OfCurve(alg, Ok(given))
    ELSE IF given.form # "text" THEN Error("TypeError")
    ELSE Rescued(EcPublic(alg, given), {"ValueError"}, EcPrivate(alg, given))

\* No error of a loader, or of bytes.decode, is translated.
PrepareOkp(alg, given) ==
    OfFamily(alg,
        IF given.form # "text" THEN Ok(given)
        ELSE IF given.bytes \in NotUtf8 THEN Error("UnicodeDecodeError")
        ELSE IF given.marker = "PUBLIC KEY" THEN LoadPemPublic(given)
        ELSE IF given.marker = "PRIVATE KEY" THEN LoadPemPrivate(given)
        ELSE IF given.marker \in {"ssh-ed25519", "ssh-rsa", "ssh-dss"}
          THEN LoadSsh(given)
        ELSE Error("InvalidKeyError"))

PrepareKey(alg, given) ==
    CASE alg \in HmacNames -> PrepareHmac(given)
      [] alg \in RsaNames  -> PrepareRsa(alg, given)
      [] alg \in EcNames   -> PrepareEc(alg, given)
      [] alg \in OkpNames  -> PrepareOkp(alg, given)
      [] OTHER             -> PrepareNone(given)

\* check_key_length, of a prepared key
TooShort(alg, key) ==
    \/ alg \in HmacNames /\ Len(key.bytes) < MinimumLength[alg]
    \/ alg \in RsaNames /\ BitLength[key.key.pub[1]] < MinimumLength[alg]

\* PyJWS._prepare_signing_key
PrepareSigningKey(alg, given, enforce) ==
    LET result == PrepareKey(alg, given)
    IN  IF result.verdict = "ok" /\ enforce /\ TooShort(alg, result.key)
          THEN Error("InvalidKeyError") ELSE result

-----------------------------------------------------------------------------
(* to_jwk: a document of texts, by field.                                   *)

Document(kty, crv, texts) ==
    [verdict |-> "ok", kty |-> kty, crv |-> crv, texts |-> texts]
NoDocument(class) ==
    [verdict |-> class, kty |-> "", crv |-> "", texts |-> <<>>]

RsaFields == <<"n", "e", "d", "p", "q", "dp", "dq", "qi">>
EcFields == <<"x", "y", "d">>

Parts(key) == key.pub \o key.priv

(* Of the keys of the package: what a generated key consists of, and that   *)
(* no two have all numbers but one, or the private bytes, in common.        *)
GenuineRsa(key) ==
    /\ key.part = ""
    /\ key.pub \in Seq(Nat) /\ Len(key.pub) = 2
    /\ key.priv \in Seq(Nat) /\ Len(key.priv) = 6
    /\ key.pub[2] \in 3..(key.pub[1] - 1) /\ key.pub[2] % 2 = 1
    /\ \A other \in Genuine, i \in 1..8 :
          /\ other.family = "RSA"
          /\ \A j \in (1..8) \ {i} : Parts(other)[j] = Parts(key)[j]
          => other = key

GenuineEc(key) ==
    /\ key.pub \in Seq(Nat) /\ Len(key.pub) = 2
    /\ key.priv \in Seq(Nat) /\ Len(key.priv) = 1
    /\ \A i \in 1..3 : Shifted(Parts(key)[i], WidthOf(KeySize[key.part])) = 0

GenuineOkp(key) ==
    /\ key.part \in {"Ed25519", "Ed448"}
    /\ key.pub \in Seq(0..255) /\ Len(key.pub) = Width[key.part]
    /\ key.priv \in Seq(0..255) /\ Len(key.priv) = Width[key.part]
    /\ \A other \in Genuine :
          other.part = key.part /\ other.priv = key.priv => other = key

ASSUME GenuineAssumption ==
    \A key \in Genuine :
        /\ key = Key(key.family, key.part, key.pub, key.priv) /\ IsPrivate(key)
        /\ key.family = "RSA" => GenuineRsa(key)
        /\ key.family = "EC" /\ key.part \in ExpectedCurves => GenuineEc(key)
        /\ key.family = "OKP" => GenuineOkp(key)

\* _JWK_EC_CURVES has the bytes that key_size takes.
ASSUME WidthAssumption ==
    /\ "" \notin DOMAIN Width
    /\ \A crv \in ExpectedCurves \cup {"Ed25519", "Ed448"} :
          crv \in DOMAIN Width /\ Width[crv] \in Nat \ {0}
    /\ \A crv \in ExpectedCurves :
          KeySize[crv] \in Nat /\ Width[crv] = WidthOf(KeySize[crv])

\* What an algorithm asks that PyJWK infers, every other one asks too.
ASSUME LengthAssumption ==
    /\ \A name \in HmacNames \cup RsaNames : MinimumLength[name] \in Nat
    /\ \A name \in HmacNames : MinimumLength["HS256"] <= MinimumLength[name]
    /\ \A name \in RsaNames : MinimumLength["RS256"] <= MinimumLength[name]

\* Each text under the field at its place.
Named(fields, texts) ==
    [field \in {fields[i] : i \in DOMAIN texts} |->
        texts[CHOOSE i \in DOMAIN texts : fields[i] = field]]

RsaToJwk(given) ==
    LET key == given.key
        texts == [i \in DOMAIN Parts(key) |->
                     ToBase64urlUint(Parts(key)[i], BitLength[Parts(key)[i]])]
    IN  IF given.form # "object" \/ (key.family = "OKP" /\ IsPrivate(key))
          THEN NoDocument("InvalidKeyError")
        ELSE IF key.family # "RSA" THEN NoDocument("AttributeError")
        ELSE Document("RSA", "", Named(RsaFields, texts))

\* Mutant: a coordinate is as long as its number.
EcUintOfOwnLength(crv, n) == ToBase64urlUint(n, BitLength[n])

EcUint(crv, n) == ToBase64urlUint(n, KeySize[crv])

\* _jwk_curve_name knows the curves some algorithm expects.
EcToJwk(given) ==
    LET key == given.key
        texts == [i \in DOMAIN Parts(key) |-> EcUint(key.part, Parts(key)[i])]
    IN  IF /\ given.form = "object" /\ key.family = "EC"
           /\ key.part \in ExpectedCurves
          THEN Document("EC", key.part, Named(EcFields, texts))
          ELSE NoDocument("InvalidKeyError")

OkpToJwk(given) ==
    LET key == given.key
        texts == <<Base64urlEncode(key.pub)>>
                 \o (IF IsPrivate(key) THEN <<Base64urlEncode(key.priv)>> ELSE <<>>)
    IN  IF given.form = "object" /\ key.family = "OKP"
          THEN Document("OKP", key.part, Named(<<"x", "d">>, texts))
          ELSE NoDocument("InvalidKeyError")

HmacToJwk(given) ==
    IF given.form = "text"
      THEN Document("oct", "", [k |-> Base64urlEncode(given.bytes)])
      ELSE NoDocument("TypeError")

ToJwk(alg, given) ==
    CASE alg \in HmacNames -> HmacToJwk(given)
      [] alg \in RsaNames  -> RsaToJwk(given)
      [] alg \in EcNames   -> EcToJwk(given)
      [] alg \in OkpNames  -> OkpToJwk(given)
      [] OTHER             -> NoDocument("NotImplementedError")

-----------------------------------------------------------------------------
(* from_jwk: what the texts of a document are good for, which is what JWK   *)
(* goes by, and the key they make.                                          *)

Bytes(doc, field) == Base64urlDecode(doc.texts[field])
Has(doc, field) == field \in DOMAIN doc.texts

PartsOf(doc, fields) ==
    [i \in DOMAIN fields |-> FromBase64urlUint(doc.texts[fields[i]])]

FromNumbers(doc, public, private) ==
    Key(doc.kty, doc.crv, PartsOf(doc, public),
        IF Has(doc, "d") THEN PartsOf(doc, private) ELSE <<>>)

RsaFrom(doc) ==
    FromNumbers(doc, <<"n", "e">>, <<"d", "p", "q", "dp", "dq", "qi">>)

EcFrom(doc) == FromNumbers(doc, <<"x", "y">>, <<"d">>)

\* from_private_bytes works the public part out, whatever "x" says.
OkpFrom(doc) ==
    IF Has(doc, "d")
      THEN CHOOSE key \in Genuine :
              key.part = doc.crv /\ key.priv = Bytes(doc, "d")
      ELSE Key("OKP", doc.crv, Bytes(doc, "x"), <<>>)

Imported(doc) ==
    CASE doc.kty = "oct" -> TextOf(Bytes(doc, "k"))
      [] doc.kty = "RSA" -> Object(RsaFrom(doc))
      [] doc.kty = "EC"  -> Object(EcFrom(doc))
      [] OTHER           -> Object(OkpFrom(doc))

(* The package refuses numbers that do not belong together.  A modulus and  *)
(* an exponent always do, an even or a large exponent apart.                *)
Refused(doc) ==
    CASE doc.kty = "EC" ->
            EcFrom(doc) \notin Genuine \cup {PublicHalf(key) : key \in Genuine}
      [] doc.kty = "RSA" /\ Has(doc, "d") -> RsaFrom(doc) \notin Genuine
      [] doc.kty = "RSA" /\ ~Has(doc, "d") ->
            LET pub == RsaFrom(doc).pub
            IN  ~(pub[2] \in 3..(pub[1] - 1) /\ pub[2] % 2 = 1)
      [] OTHER -> FALSE

SortOf(doc, fields) ==
    LET there == fields \cap DOMAIN doc.texts
    IN  IF there = {} THEN "absent"
        ELSE IF \E field \in there : ~Decodable(doc.texts[field])
          THEN "undecodable"
        ELSE IF \E field \in there : /\ doc.crv \in DOMAIN Width
                                     /\ Len(Bytes(doc, field)) # Width[doc.crv]
          THEN "short"
        ELSE IF Refused(doc) THEN "refused" ELSE "good"

AsJwk(doc) ==
    [form |-> "object", kty |-> doc.kty, alg |-> "", crv |-> doc.crv,
     k |-> SortOf(doc, {"k"}), n |-> SortOf(doc, {"n"}), e |-> SortOf(doc, {"e"}),
     d |-> SortOf(doc, {"d", "p", "q", "dp", "dq", "qi"}),
     x |-> SortOf(doc, {"x"}), y |-> SortOf(doc, {"y"}),
     crt |-> IF Has(doc, "qi") THEN "all" ELSE "none", oth |-> FALSE]

-----------------------------------------------------------------------------
(* Signatures.  An ECDSA signature is a pair of numbers, another one is told *)
(* by the bytes it stands for.                                              *)

Signature(key, pair, raw) == [key |-> key, pair |-> pair, raw |-> raw]
OpaqueBytes == <<0, 1, 2, 3>>

\* A public key of the package has no method "sign".
CanSign(alg, given) == alg \in Asymmetric => IsPrivate(given.key)

SignEc(given, pair) ==
    Signature(given, pair, DerToRaw(pair, KeySize[given.key.part]))

Sign(alg, given, pair) ==
    CASE alg \in EcNames -> SignEc(given, pair)
      [] alg = "none"    -> Signature(given, <<>>, <<>>)
      [] OTHER           -> Signature(given, <<>>, OpaqueBytes)

Verdict(matches) == IF matches THEN "valid" ELSE "invalid"

SamePublicKey(given, made) ==
    /\ given.bytes = made.key.bytes
    /\ PublicHalf(given.key) = PublicHalf(made.key.key)

Matches(given, raw, made) == SamePublicKey(given, made) /\ raw = made.raw

\* RSA does not go from a private key to its public one, which has "verify".
VerifyRsa(given, raw, made) ==
    IF IsPrivate(given.key) THEN "AttributeError"
    ELSE Verdict(Matches(given, raw, made))

\* The numbers verify, and so do those with the second one negated.
Twins(pair, crv) == {pair, <<pair[1], Order[crv] - pair[2]>>}

VerifyEc(given, raw, made) ==
    LET crv == given.key.part
    IN  Verdict(/\ RawFits(raw, KeySize[crv])
                /\ SamePublicKey(given, made)
                /\ RawToDer(raw, KeySize[crv]) \in Twins(made.pair, crv))

VerifyOkp(given, raw, made) == Verdict(Matches(given, raw, made))
VerifyHmac(given, raw, made) == Verdict(Matches(given, raw, made))

Verify(alg, given, raw, made) ==
    CASE alg \in HmacNames -> VerifyHmac(given, raw, made)
      [] alg \in RsaNames  -> VerifyRsa(given, raw, made)
      [] alg \in EcNames   -> VerifyEc(given, raw, made)
      [] alg \in OkpNames  -> VerifyOkp(given, raw, made)
      [] OTHER             -> "invalid"     \* "none"
=============================================================================
