---------------------------- MODULE KeyLife_proofs ----------------------------
(***************************************************************************)
(* What a prepared key is, what its signatures say, and what comes back of  *)
(* it through a JWK, for every text and object there may be.                *)
(***************************************************************************)
EXTENDS KeyLife, Codec_proofs, TLAPS

-----------------------------------------------------------------------------
(* The names of the algorithms.                                             *)

LEMMA Names ==
    /\ HmacNames = {"HS256", "HS384", "HS512"}
    /\ RsaNames = {"RS256", "RS384", "RS512", "PS256", "PS384", "PS512"}
    /\ EcNames = {"ES256", "ES256K", "ES384", "ES521", "ES512"}
    /\ OkpNames = {"EdDSA"}
  BY DEF HmacNames, RsaNames, EcNames, OkpNames, Jwk!HmacNames, Jwk!RsaNames,
     Jwk!EcNames, Jwk!OkpNames, Jwk!ExpectedCurve

LEMMA Handlers ==
    ASSUME NEW name, NEW g
    PROVE  /\ name \in HmacNames =>
                 PrepareKey(name, g) = PrepareHmac(g) /\ name \notin Asymmetric
           /\ name \in RsaNames =>
                 PrepareKey(name, g) = PrepareRsa(name, g) /\ FamilyOf(name) = "RSA"
           /\ name \in EcNames =>
                 PrepareKey(name, g) = PrepareEc(name, g) /\ FamilyOf(name) = "EC"
           /\ name \in OkpNames =>
                 PrepareKey(name, g) = PrepareOkp(name, g) /\ FamilyOf(name) = "OKP"
  BY Names DEF PrepareKey, FamilyOf, Asymmetric

-----------------------------------------------------------------------------
(* What the loaders and the checks after them let through.                  *)

LEMMA LoadedText ==
    ASSUME NEW text, NEW markers, NEW private,
           Loaded(text, markers, private).verdict = "ok"
    PROVE  /\ text.marker \in markers
           /\ text.state \in {"whole", "loose"}
           /\ Loaded(text, markers, private).key.form = "object"
  BY DEF Loaded, Ok, Error, Object, Given

\* Anything but an object and a text is no key.
Shaped(g) == g.form \notin {"object", "text"} => g.key = NoKey

LEMMA Checked ==
    ASSUME NEW name, NEW result
    PROVE  /\ OfFamily(name, result).verdict = "ok" =>
                 /\ OfFamily(name, result) = result
                 /\ result.verdict = "ok"
                 /\ result.key.key.family = FamilyOf(name)
           /\ OfCurve(name, result).verdict = "ok" =>
                 /\ OfCurve(name, result) = result
                 /\ result.verdict = "ok"
                 /\ result.key.key.part = ExpectedCurve[name]
  BY DEF OfFamily, OfCurve, Error

\* A key that is prepared fits: an object of the family, on its curve.
Fits(name, k) ==
    /\ k.form = "object"
    /\ k.key.family = FamilyOf(name)
    /\ name \in EcNames => k.key.part = ExpectedCurve[name]

PublicMarkers == {"PUBLIC KEY", "RSA PUBLIC KEY"}
PrivateMarkers == {"PRIVATE KEY", "ENCRYPTED PRIVATE KEY", "RSA PRIVATE KEY",
                   "EC PRIVATE KEY", "DSA PRIVATE KEY"}

\* The formats HMAC refuses, and the layout it does not see.
Recognised(text) == IsPemFormat(text) \/ IsSshKey(text)
Loose(text) == text.marker \in PemLabels /\ text.state = "loose"

LEMMA Loaders ==
    ASSUME NEW text, NEW result \in
             {LoadPemPublic(text), LoadPemPrivate(text), LoadSsh(text)},
           result.verdict = "ok"
    PROVE  /\ result.key.form = "object"
           /\ Recognised(text) \/ Loose(text)
<1>1. CASE result = LoadPemPublic(text)
  <2>1. text.marker \in PublicMarkers /\ text.state \in {"whole", "loose"}
        /\ result.key.form = "object"
    BY <1>1, LoadedText DEF LoadPemPublic, PublicMarkers
  <2> QED
    BY <2>1 DEF Recognised, Loose, IsPemFormat, PemLabels, PublicMarkers
<1>2. CASE result = LoadPemPrivate(text)
  <2>1. text.marker \in PrivateMarkers /\ text.state \in {"whole", "loose"}
        /\ result.key.form = "object"
    BY <1>2, LoadedText DEF LoadPemPrivate, PrivateMarkers
  <2> QED
    BY <2>1 DEF Recognised, Loose, IsPemFormat, PemLabels, PrivateMarkers
<1>3. CASE result = LoadSsh(text)
  <2>1. text.marker \in {"ssh-ed25519", "ssh-rsa", "ssh-dss"} \cup EcdsaPrefixes
        /\ result.key.form = "object"
    BY <1>3, LoadedText DEF LoadSsh
  <2> QED
    BY <2>1 DEF Recognised, IsSshKey, SshPrefixes
<1> QED
  BY <1>1, <1>2, <1>3

(* What a handler makes of a key, and that a text it takes has a format no  *)
(* HMAC secret may have, its layout apart.                                  *)
TakenAsKey(name, g, result) ==
    result.verdict = "ok" =>
        /\ Fits(name, result.key)
        /\ g.form = "text" => Recognised(g) \/ Loose(g)

LEMMA RsaTakes ==
    ASSUME NEW name \in RsaNames, NEW g
    PROVE  TakenAsKey(name, g, PrepareRsa(name, g))
<1> DEFINE loaded == IF g.marker = "ssh-rsa" THEN LoadSsh(g) ELSE LoadPemPrivate(g)
           first == OfFamily(name, loaded)
           second == OfFamily(name, LoadPemPublic(g))
<1>1. FamilyOf(name) = "RSA" /\ name \notin EcNames
  BY Handlers, Names
<1>2. first.verdict = "ok" => Fits(name, first.key) /\ (Recognised(g) \/ Loose(g))
  BY <1>1, Checked, Loaders DEF Fits
<1>3. second.verdict = "ok" => Fits(name, second.key) /\ (Recognised(g) \/ Loose(g))
  BY <1>1, Checked, Loaders DEF Fits
<1>4. OwnObject(name, g) => Fits(name, g) /\ g.form # "text"
  BY <1>1 DEF OwnObject, Fits
<1> HIDE DEF first, second
<1>5. PrepareRsa(name, g) =
        IF OwnObject(name, g) THEN Ok(g)
        ELSE IF g.form # "text" THEN Error("TypeError")
        ELSE Rescued(first, {"ValueError"},
                Rescued(second, {"ValueError", "UnsupportedAlgorithm"},
                        Error("InvalidKeyError")))
  BY DEF PrepareRsa, first, second
<1> QED
  BY <1>2, <1>3, <1>4, <1>5 DEF TakenAsKey, Rescued, Ok, Error

LEMMA EcTakes ==
    ASSUME NEW name \in EcNames, NEW g
    PROVE  TakenAsKey(name, g, PrepareEc(name, g))
<1> DEFINE loaded == IF g.marker \in EcdsaPrefixes THEN LoadSsh(g) ELSE LoadPemPublic(g)
<1>1. FamilyOf(name) = "EC"
  BY Handlers
<1>2. EcPublic(name, g).verdict = "ok" =>
        Fits(name, EcPublic(name, g).key) /\ (Recognised(g) \/ Loose(g))
  <2>1. EcPublic(name, g) = OfCurve(name, OfFamily(name, loaded))
    BY DEF EcPublic
  <2>2. loaded \in {LoadPemPublic(g), LoadPemPrivate(g), LoadSsh(g)}
    OBVIOUS
  <2> HIDE DEF loaded
  <2> QED
    BY <2>1, <2>2, Checked, Loaders DEF Fits
<1>3. EcPrivate(name, g).verdict = "ok" =>
        Fits(name, EcPrivate(name, g).key) /\ (Recognised(g) \/ Loose(g))
  BY Checked, Loaders DEF EcPrivate, Fits
<1>4. OwnObject(name, g) /\ OfCurve(name, Ok(g)).verdict = "ok" =>
        Fits(name, OfCurve(name, Ok(g)).key) /\ g.form # "text"
  <2>1. Ok(g).key = g
    BY DEF Ok
  <2> QED
    BY <1>1, <2>1, Checked DEF OwnObject, Fits
<1> QED
  BY <1>2, <1>3, <1>4 DEF TakenAsKey, PrepareEc, Rescued, Error

LEMMA OkpTakes ==
    ASSUME NEW name \in OkpNames, NEW g, Shaped(g)
    PROVE  TakenAsKey(name, g, PrepareOkp(name, g))
<1> DEFINE loaded == IF g.form # "text" THEN Ok(g)
                     ELSE IF g.bytes \in NotUtf8 THEN Error("UnicodeDecodeError")
                     ELSE IF g.marker = "PUBLIC KEY" THEN LoadPemPublic(g)
                     ELSE IF g.marker = "PRIVATE KEY" THEN LoadPemPrivate(g)
                     ELSE IF g.marker \in {"ssh-ed25519", "ssh-rsa", "ssh-dss"}
                       THEN LoadSsh(g)
                     ELSE Error("InvalidKeyError")
<1>1. FamilyOf(name) = "OKP" /\ name \notin EcNames
  BY Handlers, Names
<1>2. PrepareOkp(name, g) = OfFamily(name, loaded)
  BY DEF PrepareOkp
<1>3. CASE g.form # "text"
  <2>1. loaded = Ok(g) /\ Ok(g).key = g
    BY <1>3 DEF Ok
  <2>2. g.key.family = "OKP" => g.form = "object"
    <3>1. NoKey.family = "none"
      BY DEF NoKey, Key
    <3> HIDE DEF loaded
    <3> QED
      BY <1>3, <3>1 DEF Shaped
  <2> HIDE DEF loaded
  <2> QED
    BY <1>1, <1>2, <1>3, <2>1, <2>2, Checked DEF TakenAsKey, Fits
<1>4. CASE g.form = "text"
  <2>1. loaded.verdict = "ok" =>
          loaded \in {LoadPemPublic(g), LoadPemPrivate(g), LoadSsh(g)}
    BY <1>4 DEF Error
  <2> HIDE DEF loaded
  <2> QED
    BY <1>1, <1>2, <2>1, Checked, Loaders DEF TakenAsKey, Fits
<1> QED
  BY <1>3, <1>4

LEMMA HmacTakes ==
    ASSUME NEW g, PrepareHmac(g).verdict = "ok"
    PROVE  /\ PrepareHmac(g).key = g
           /\ g.form = "text"
           /\ ~IsPemFormat(g) /\ ~IsSshKey(g)
  BY DEF PrepareHmac, Ok, Error

(* A text that passes for an HMAC secret is a key of another algorithm only *)
(* for its layout.                                                          *)
LEMMA SecretIsNoKey ==
    ASSUME NEW g, g.form = "text", ~IsPemFormat(g), ~IsSshKey(g),
           NEW other \in Asymmetric, PrepareKey(other, g).verdict = "ok"
    PROVE  Loose(g)
<1>1. Shaped(g)
  BY DEF Shaped
<1>2. other \in RsaNames \/ other \in EcNames \/ other \in OkpNames
  BY DEF Asymmetric
<1>3. TakenAsKey(other, g, PrepareKey(other, g))
  BY <1>1, <1>2, Handlers, RsaTakes, EcTakes, OkpTakes
<1> QED
  BY <1>3 DEF TakenAsKey, Recognised

-----------------------------------------------------------------------------
(* Prepared keys.                                                           *)

\* What "ready" says of a key.
Usable(name, enforced, k) ==
    /\ name \in HmacNames =>
          k.form = "text" /\ ~IsPemFormat(k) /\ ~IsSshKey(k)
    /\ name \in Asymmetric => Fits(name, k)
    /\ enforced => ~TooShort(name, k)

LEMMA PreparedIsUsable ==
    ASSUME NEW name, NEW g, NEW enforced, Shaped(g),
           PrepareSigningKey(name, g, enforced).verdict = "ok"
    PROVE  Usable(name, enforced, PrepareSigningKey(name, g, enforced).key)
<1> DEFINE result == PrepareKey(name, g)
<1>1. /\ PrepareSigningKey(name, g, enforced) = result
      /\ result.verdict = "ok"
      /\ enforced => ~TooShort(name, result.key)
  BY DEF PrepareSigningKey, Error
<1> HIDE DEF result
<1>2. ASSUME name \in HmacNames
      PROVE  result.key.form = "text" /\ ~IsPemFormat(result.key)
             /\ ~IsSshKey(result.key)
  BY <1>1, <1>2, Handlers, HmacTakes DEF result
<1>3. ASSUME name \in Asymmetric
      PROVE  Fits(name, result.key)
  <2>1. TakenAsKey(name, g, result)
    BY <1>3, Handlers, RsaTakes, EcTakes, OkpTakes DEF Asymmetric, result
  <2> QED
    BY <1>1, <2>1 DEF TakenAsKey
<1> QED
  BY <1>1, <1>2, <1>3 DEF Usable

LEMMA UsableIsShaped ==
    ASSUME NEW name, NEW g, NEW enforced, Shaped(g),
           PrepareSigningKey(name, g, enforced).verdict = "ok"
    PROVE  Shaped(PrepareSigningKey(name, g, enforced).key)
<1> DEFINE k == PrepareSigningKey(name, g, enforced).key
<1>1. PrepareSigningKey(name, g, enforced) = PrepareKey(name, g)
  BY DEF PrepareSigningKey, Error
<1>2. Usable(name, enforced, k)
  BY PreparedIsUsable
<1>3. CASE name \in HmacNames \/ name \in Asymmetric
  BY <1>2, <1>3 DEF Usable, Fits, Shaped
<1>4. CASE name \notin HmacNames /\ name \notin Asymmetric
  <2>1. PrepareKey(name, g) = PrepareNone(g)
    BY <1>4 DEF PrepareKey, Asymmetric
  <2>2. k = Nothing
    BY <1>1, <2>1 DEF PrepareNone, Ok, Error
  <2>3. Nothing.key = NoKey
    BY DEF Nothing, Given
  <2> QED
    BY <2>2, <2>3 DEF Shaped
<1> QED
  BY <1>3, <1>4

-----------------------------------------------------------------------------
(* The inductive invariant.                                                 *)

Prepared == {"ready", "signed", "sent", "judged"}

(* From "ready" on the key is what prepare_key made of something; before,   *)
(* it is what a caller or from_jwk gave.                                    *)
IInv ==
    /\ Shaped(given)
    /\ phase \in Prepared => Usable(alg, enforce, given)

LEMMA ImportedIsShaped == Shaped(Imported(doc))
<1>1. \A key : Object(key).form = "object"
  BY DEF Object, Given
<1>2. \A bytes : TextOf(bytes).form = "text"
  BY KeyLifeAssumption DEF TextOf, Secret, Given
<1>3. Imported(doc).form \in {"object", "text"}
  BY <1>1, <1>2 DEF Imported
<1> QED
  BY <1>3 DEF Shaped

LEMMA PublicHalfIsShaped ==
    ASSUME NEW g, Shaped(g)
    PROVE  Shaped(WithPublicHalf(g))
<1>1. /\ WithPublicHalf(g).form = g.form
      /\ WithPublicHalf(g).key = PublicHalf(g.key)
  BY DEF WithPublicHalf, Given
<1>2. PublicHalf(NoKey) = NoKey
  BY DEF PublicHalf, NoKey, Key
<1> QED
  BY <1>1, <1>2 DEF Shaped

LEMMA InitIInv == Init => IInv
  BY KeyLifeAssumption DEF Init, IInv, Shaped, Prepared

LEMMA NextIInv == IInv /\ [Next]_vars => IInv'
<1> SUFFICES ASSUME IInv, [Next]_vars
             PROVE  IInv'
  OBVIOUS
<1>1. CASE Prepare
  <2> DEFINE result == PrepareSigningKey(alg, given, enforce)
  <2>1. CASE result.verdict = "ok" /\ given' = result.key
             /\ UNCHANGED <<alg, enforce>>
    <3>1. Shaped(result.key) /\ Usable(alg, enforce, result.key)
      BY <2>1, PreparedIsUsable, UsableIsShaped DEF IInv
    <3> QED
      BY <2>1, <3>1 DEF IInv, Shaped, Usable
  <2>2. CASE phase' = "refused" /\ given' = given
    BY <2>2 DEF IInv, Shaped, Prepared
  <2> QED
    BY <1>1, <2>1, <2>2 DEF Prepare, Fail, journey, signature
<1>2. CASE Export
  <2>1. phase' \in {"written", "unwritten"} /\ given' = given
    BY <1>2 DEF Export, Fail
  <2> QED
    BY <2>1 DEF IInv, Shaped, Prepared
<1>3. CASE Carry
  BY <1>3 DEF Carry, IInv, Shaped, Prepared
<1>4. CASE Import
  <2>1. /\ phase' \in {"given", "unnamed", "lost"}
        /\ given' = given \/ given' = Imported(doc)
    BY <1>4 DEF Import, Fail
  <2> QED
    BY <2>1, ImportedIsShaped DEF IInv, Shaped, Prepared
<1>5. CASE SignIt
  <2>1. /\ phase = "ready"
        /\ phase' \in {"signed", "unsigned"}
        /\ UNCHANGED <<alg, enforce, given>>
    BY <1>5 DEF SignIt, Fail
  <2> QED
    BY <2>1 DEF IInv, Shaped, Prepared, Usable
<1>6. CASE Alter
  BY <1>6 DEF Alter, IInv, Shaped, Prepared, Usable
<1>7. CASE VerifyIt
  <2>1. UNCHANGED <<alg, enforce>>
    BY <1>7 DEF VerifyIt, Fail
  <2>2. PICK held \in {given, WithPublicHalf(given)} :
          LET result == PrepareSigningKey(alg, held, enforce)
          IN  \/ result.verdict = "ok" /\ given' = result.key
              \/ phase' = "refused" /\ given' = given
    BY <1>7 DEF VerifyIt, Fail
  <2>3. Shaped(held)
    BY <2>2, PublicHalfIsShaped DEF IInv
  <2> DEFINE result == PrepareSigningKey(alg, held, enforce)
  <2>4. CASE result.verdict = "ok" /\ given' = result.key
    <3>1. Shaped(result.key) /\ Usable(alg, enforce, result.key)
      BY <2>3, <2>4, PreparedIsUsable, UsableIsShaped
    <3> QED
      BY <2>1, <2>4, <3>1 DEF IInv, Shaped, Usable
  <2>5. CASE phase' = "refused" /\ given' = given
    BY <2>5 DEF IInv, Shaped, Prepared
  <2> QED
    BY <2>2, <2>4, <2>5
<1>8. CASE UNCHANGED vars
  BY <1>8 DEF vars, IInv, Shaped, Prepared, Usable
<1> QED
  BY <1>1, <1>2, <1>3, <1>4, <1>5, <1>6, <1>7, <1>8 DEF Next

LEMMA Invariance == Spec => []IInv
  BY InitIInv, NextIInv, PTL DEF Spec

-----------------------------------------------------------------------------
(* The theorems.                                                            *)

(* Whichever of its loaders a key came by, and however it travelled: when   *)
(* prepare_key is done with it, its algorithm can use it.                   *)
THEOREM PreparedFitsHolds == Spec => []PreparedFits
<1>1. IInv => PreparedFits
  BY Names DEF IInv, PreparedFits, Prepared, Usable, Fits, Asymmetric
<1> QED
  BY <1>1, Invariance, PTL

(* A text that prepare_key of HMAC takes, and any handler of RSA, EC or EdDSA *)
(* takes as its key, is a PEM text in another layout than _PEM_RE has: every *)
(* format their loaders read is in the tables of utils.py, for any text.    *)
THEOREM KeyTextsAreRecognisedHolds == Spec => []KeyTextsAreRecognised
<1>1. IInv => KeyTextsAreRecognised
  BY SecretIsNoKey DEF IInv, KeyTextsAreRecognised, Prepared, Usable, Loose
<1> QED
  BY <1>1, Invariance, PTL

-----------------------------------------------------------------------------
(* Signatures.                                                              *)

\* The order of a curve, and what is below it, fits the bytes of its numbers.
OnCurve(crv, n) == n \in 1..(Order[crv] - 1)

LEMMA ScalarsFit ==
    ASSUME NEW name \in EcNames, NEW n, OnCurve(ExpectedCurve[name], n)
    PROVE  LET crv == ExpectedCurve[name]
           IN  /\ n \in Nat /\ KeySize[crv] \in Nat
               /\ Shifted(n, WidthOf(KeySize[crv])) = 0
               /\ OnCurve(crv, Order[crv] - n)
<1> DEFINE crv == ExpectedCurve[name]
           width == WidthOf(KeySize[crv])
<1>1. /\ KeySize[crv] \in Nat /\ Order[crv] \in Nat
      /\ Shifted(Order[crv], width) = 0
  BY SignatureAssumption DEF ExpectedCurves
<1>2. /\ n \in Nat /\ n <= Order[crv]
      /\ OnCurve(crv, Order[crv] - n)
  <2>1. n \in 1..(Order[crv] - 1)
    BY DEF OnCurve
  <2> HIDE DEF crv
  <2> QED
    BY <1>1, <2>1 DEF OnCurve
<1>3. width \in Nat
  BY <1>1 DEF WidthOf
<1> HIDE DEF crv, width
<1>4. Shifted(n, width) <= Shifted(Order[crv], width) /\ Shifted(n, width) \in Nat
  BY <1>1, <1>2, <1>3, ShiftedGrows, ShiftedSteps
<1>5. Shifted(n, width) = 0
  BY <1>1, <1>4
<1> QED
  BY <1>1, <1>2, <1>5 DEF crv, width

LEMMA DrawnPairs ==
    ASSUME NEW name \in EcNames, NEW pair \in Draws[ExpectedCurve[name]]
    PROVE  /\ pair = <<pair[1], pair[2]>>
           /\ OnCurve(ExpectedCurve[name], pair[1])
           /\ OnCurve(ExpectedCurve[name], pair[2])
<1> DEFINE crv == ExpectedCurve[name]
<1>1. pair \in (1..(Order[crv] - 1)) \X (1..(Order[crv] - 1))
  BY SignatureAssumption DEF ExpectedCurves
<1> QED
  BY <1>1 DEF OnCurve

(* A pair on the curve, and its twin, have one writing, and it reads back.  *)
LEMMA WritingOf ==
    ASSUME NEW name \in EcNames, NEW pair, pair = <<pair[1], pair[2]>>,
           OnCurve(ExpectedCurve[name], pair[1]),
           OnCurve(ExpectedCurve[name], pair[2])
    PROVE  LET bits == KeySize[ExpectedCurve[name]]
           IN  /\ DerToRaw(pair, bits) \in Seq(Byte)
               /\ RawFits(DerToRaw(pair, bits), bits)
               /\ RawToDer(DerToRaw(pair, bits), bits) = pair
<1> DEFINE bits == KeySize[ExpectedCurve[name]]
           r == pair[1]
           s == pair[2]
<1>1. /\ r \in Nat /\ s \in Nat /\ bits \in Nat
      /\ Shifted(r, WidthOf(bits)) = 0 /\ Shifted(s, WidthOf(bits)) = 0
  BY ScalarsFit
<1>2. pair = <<r, s>>
  OBVIOUS
<1> HIDE DEF bits, r, s
<1>3. /\ DerToRaw(<<r, s>>, bits) \in Seq(Byte)
      /\ RawFits(DerToRaw(<<r, s>>, bits), bits)
      /\ RawToDer(DerToRaw(<<r, s>>, bits), bits) = <<r, s>>
  BY <1>1, SignatureSurvivesRaw
<1> QED
  BY <1>2, <1>3 DEF bits

LEMMA TwinPairs ==
    ASSUME NEW name \in EcNames, NEW pair \in Draws[ExpectedCurve[name]],
           NEW twin \in Twins(pair, ExpectedCurve[name])
    PROVE  /\ twin = <<twin[1], twin[2]>>
           /\ OnCurve(ExpectedCurve[name], twin[1])
           /\ OnCurve(ExpectedCurve[name], twin[2])
<1> DEFINE crv == ExpectedCurve[name]
           other == <<pair[1], Order[crv] - pair[2]>>
<1>1. pair = <<pair[1], pair[2]>> /\ OnCurve(crv, pair[1]) /\ OnCurve(crv, pair[2])
  BY DrawnPairs
<1>2. OnCurve(crv, Order[crv] - pair[2])
  BY <1>1, ScalarsFit
<1>3. twin = pair \/ twin = other
  BY DEF Twins
<1>4. other[1] = pair[1] /\ other[2] = Order[crv] - pair[2]
  OBVIOUS
<1> HIDE DEF crv
<1>5. CASE twin = pair
  BY <1>1, <1>5 DEF crv
<1>6. CASE twin = other
  <2>1. twin[1] = pair[1] /\ twin[2] = Order[crv] - pair[2]
    BY <1>4, <1>6
  <2>2. twin = <<twin[1], twin[2]>>
    BY <1>6, <2>1
  <2> QED
    BY <1>1, <1>2, <2>1, <2>2 DEF crv
<1> QED
  BY <1>3, <1>5, <1>6

(* A usable key is left as it is when it is prepared again.                 *)
LEMMA PreparedAgain ==
    ASSUME NEW name \in HmacNames \cup Asymmetric, NEW k, NEW enforced,
           Usable(name, enforced, k),
           PrepareSigningKey(name, k, enforced).verdict = "ok"
    PROVE  PrepareSigningKey(name, k, enforced).key = k
<1> DEFINE result == PrepareKey(name, k)
<1>1. PrepareSigningKey(name, k, enforced) = result /\ result.verdict = "ok"
  BY DEF PrepareSigningKey, Error
<1>2. Ok(k).key = k
  BY DEF Ok
<1>3. CASE name \in HmacNames
  <2>1. result = PrepareHmac(k)
    BY <1>3, Handlers
  <2> QED
    BY <1>1, <2>1, HmacTakes
<1>4. CASE name \in Asymmetric
  <2>1. k.form = "object" /\ k.key.family = FamilyOf(name)
    BY <1>4 DEF Usable, Fits
  <2>2. CASE name \in RsaNames
    BY <1>1, <1>2, <2>1, <2>2, Handlers DEF PrepareRsa, OwnObject
  <2>3. CASE name \in EcNames
    <3>1. result = OfCurve(name, Ok(k))
      BY <2>1, <2>3, Handlers DEF PrepareEc, OwnObject
    <3> HIDE DEF result
    <3> QED
      BY <1>1, <1>2, <3>1, Checked
  <2>4. CASE name \in OkpNames
    <3>1. result = OfFamily(name, Ok(k))
      BY <2>1, <2>4, Handlers DEF PrepareOkp
    <3> HIDE DEF result
    <3> QED
      BY <1>1, <1>2, <3>1, Checked
  <2> QED
    BY <1>4, <2>2, <2>3, <2>4 DEF Asymmetric
<1> QED
  BY <1>3, <1>4

(* The public half is as usable as the key.                                 *)
LEMMA HalfIsUsable ==
    ASSUME NEW name \in HmacNames \cup Asymmetric, NEW k, NEW enforced,
           Usable(name, enforced, k)
    PROVE  /\ Usable(name, enforced, WithPublicHalf(k))
           /\ WithPublicHalf(k).bytes = k.bytes
           /\ PublicHalf(WithPublicHalf(k).key) = PublicHalf(k.key)
           /\ WithPublicHalf(k).key.part = k.key.part
<1> DEFINE half == WithPublicHalf(k)
<1>1. /\ half.form = k.form /\ half.marker = k.marker /\ half.state = k.state
      /\ half.bytes = k.bytes /\ half.key = PublicHalf(k.key)
  BY DEF WithPublicHalf, Given
<1>2. /\ half.key.family = k.key.family /\ half.key.part = k.key.part
      /\ half.key.pub = k.key.pub /\ PublicHalf(half.key) = PublicHalf(k.key)
  BY <1>1 DEF PublicHalf, Key
<1> HIDE DEF half
<1>3. TooShort(name, half) <=> TooShort(name, k)
  BY <1>1, <1>2 DEF TooShort
<1>4. IsPemFormat(half) <=> IsPemFormat(k)
  BY <1>1 DEF IsPemFormat
<1>5. IsSshKey(half) <=> IsSshKey(k)
  BY <1>1 DEF IsSshKey
<1>6. Fits(name, k) => Fits(name, half)
  BY <1>1, <1>2 DEF Fits
<1>7. Usable(name, enforced, half)
  BY <1>1, <1>3, <1>4, <1>5, <1>6 DEF Usable
<1> QED
  BY <1>1, <1>2, <1>7 DEF half

(* A signature is the writing of the numbers that were drawn for it, made   *)
(* with the key that is there or with its private half, and what arrives    *)
(* for it are bytes.                                                        *)
Keyed == HmacNames \cup Asymmetric
Signed ==
    /\ sent \in Seq(Byte) /\ made.raw \in Seq(Byte)
    /\ alg \in Keyed => SamePublicKey(given, made)
    /\ alg \in EcNames =>
          /\ made.pair \in Draws[ExpectedCurve[alg]]
          /\ made.raw = DerToRaw(made.pair, KeySize[ExpectedCurve[alg]])

SInv ==
    /\ IInv
    /\ phase \in {"signed", "sent", "judged"} => Signed
    /\ phase = "judged" => answer = Verify(alg, given, sent, made)

\* The curve of a key that is usable is the one its algorithm expects.
LEMMA CurveOfUsable ==
    ASSUME NEW name \in EcNames, NEW k, NEW enforced, Usable(name, enforced, k)
    PROVE  k.key.part = ExpectedCurve[name]
  BY DEF Usable, Fits, Asymmetric

LEMMA SigningSigns ==
    ASSUME IInv, SignIt, phase' = "signed"
    PROVE  Signed' /\ UNCHANGED <<alg, enforce, given>>
<1>1. /\ phase = "ready" /\ sent' = made'.raw
      /\ UNCHANGED <<alg, enforce, given>>
      /\ \E pair \in IF alg \in EcNames THEN Draws[given.key.part] ELSE {<<>>} :
            made' = Sign(alg, given, pair)
  BY DEF SignIt, Fail, journey
<1>2. PICK pair \in IF alg \in EcNames THEN Draws[given.key.part] ELSE {<<>>} :
            made' = Sign(alg, given, pair)
  BY <1>1
<1>3. Usable(alg, enforce, given)
  BY <1>1 DEF IInv, Prepared
<1>4. CASE alg \in EcNames
  <2> DEFINE crv == ExpectedCurve[alg]
  <2>1. given.key.part = crv
    BY <1>3, <1>4, CurveOfUsable
  <2>2. pair \in Draws[crv]
    BY <1>4, <2>1
  <2>3. /\ made'.key = given /\ made'.pair = pair
        /\ made'.raw = DerToRaw(pair, KeySize[crv])
    <3>1. made' = SignEc(given, pair)
      BY <1>2, <1>4, Names DEF Sign
    <3> QED
      BY <2>1, <3>1 DEF SignEc, Signature
  <2>4. DerToRaw(pair, KeySize[crv]) \in Seq(Byte)
    BY <1>4, <2>2, DrawnPairs, WritingOf
  <2> HIDE DEF crv
  <2>5. SamePublicKey(given, made')
    BY <2>3 DEF SamePublicKey
  <2>6. sent' \in Seq(Byte)
    BY <1>1, <2>3, <2>4
  <2> QED
    BY <1>1, <2>2, <2>3, <2>4, <2>5, <2>6 DEF Signed, SamePublicKey, crv
<1>5. CASE alg \notin EcNames
  <2>1. made'.key = given /\ made'.raw \in {<<>>, OpaqueBytes}
    BY <1>2, <1>5 DEF Sign, Signature
  <2>2. <<>> \in Seq(Byte) /\ OpaqueBytes \in Seq(Byte)
    BY DEF OpaqueBytes, Byte
  <2>3. SamePublicKey(given, made')
    BY <2>1 DEF SamePublicKey
  <2> QED
    BY <1>1, <1>5, <2>1, <2>2, <2>3 DEF Signed, SamePublicKey
<1> QED
  BY <1>1, <1>4, <1>5

\* Whatever is done to bytes on their way, they stay bytes.
LEMMA AlteredBytes ==
    ASSUME NEW raw \in Seq(Byte)
    PROVE  Altered(raw) \subseteq Seq(Byte)
<1> DEFINE r == Halves(raw)[1]
           s == Halves(raw)[2]
<1>1. r \in Seq(Byte) /\ s \in Seq(Byte)
  <2> DEFINE middle == Len(raw) \div 2
  <2>1. middle \in 0..Len(raw)
    OBVIOUS
  <2> HIDE DEF middle
  <2>2. /\ SubSeq(raw, 1, middle) \in Seq(Byte)
        /\ SubSeq(raw, middle + 1, Len(raw)) \in Seq(Byte)
    BY <2>1
  <2> QED
    BY <2>2 DEF Halves, middle
<1>2. <<0>> \in Seq(Byte)
  BY DEF Byte
<1>3. \A one, two \in Seq(Byte) : one \o two \in Seq(Byte)
  OBVIOUS
<1>4. \A one \in Seq(Byte) : Tail(one) \in Seq(Byte)
  <2> SUFFICES ASSUME NEW one \in Seq(Byte)
               PROVE  Tail(one) \in Seq(Byte)
    OBVIOUS
  <2>1. CASE one = <<>>
    BY <2>1
  <2>2. CASE one # <<>>
    BY <2>2
  <2> QED
    BY <2>1, <2>2
<1>5. raw # <<>> => Front(raw) \in Seq(Byte)
  BY DEF Front
<1> HIDE DEF r, s
<1>6. Altered(raw) = {raw, <<0>> \o raw, <<0>> \o r \o <<0>> \o s, s \o r}
        \cup (IF raw = <<>> THEN {}
              ELSE {Tail(raw), Front(raw), Tail(r) \o Tail(s), r \o Tail(s)})
  BY DEF Altered, r, s
<1>7. /\ <<0>> \o raw \in Seq(Byte) /\ <<0>> \o r \o <<0>> \o s \in Seq(Byte)
      /\ s \o r \in Seq(Byte)
      /\ raw # <<>> => /\ Tail(raw) \in Seq(Byte) /\ Front(raw) \in Seq(Byte)
                       /\ Tail(r) \o Tail(s) \in Seq(Byte)
                       /\ r \o Tail(s) \in Seq(Byte)
  BY <1>1, <1>2, <1>3, <1>4, <1>5, Zenon
<1> QED
  BY <1>6, <1>7, Zenon

LEMMA WritingsAreBytes ==
    ASSUME SInv, phase = "signed"
    PROVE  Writings \subseteq Seq(Byte)
<1>1. Usable(alg, enforce, given) /\ Signed
  BY DEF SInv, IInv, Prepared
<1>2. CASE alg \in EcNames
  <2> DEFINE crv == ExpectedCurve[alg]
  <2>1. given.key.part = crv /\ made.pair \in Draws[crv]
    BY <1>1, <1>2, CurveOfUsable DEF Signed
  <2>2. \A pair \in Twins(made.pair, crv) :
           DerToRaw(pair, KeySize[crv]) \in Seq(Byte)
    BY <1>2, <2>1, TwinPairs, WritingOf
  <2> HIDE DEF crv
  <2> QED
    BY <1>2, <2>1, <2>2 DEF Writings
<1>3. CASE alg \notin EcNames
  <2>1. Writings = {made.raw}
    BY <1>3 DEF Writings
  <2> QED
    BY <1>1, <2>1 DEF Signed
<1> QED
  BY <1>2, <1>3

LEMMA VerifyingVerifies ==
    ASSUME SInv, VerifyIt, phase' = "judged"
    PROVE  /\ Signed'
           /\ answer' = Verify(alg, given', sent, made)
           /\ UNCHANGED <<alg, enforce, sent, made>>
<1>1. /\ Usable(alg, enforce, given) /\ Signed
      /\ phase = "sent" /\ UNCHANGED <<alg, enforce>>
  <2>1. phase = "sent" /\ UNCHANGED <<alg, enforce>>
    BY DEF VerifyIt, Fail
  <2> QED
    BY <2>1 DEF SInv, IInv, Prepared
<1>2. PICK held \in {given, WithPublicHalf(given)} :
        /\ PrepareSigningKey(alg, held, enforce).verdict = "ok"
        /\ given' = PrepareSigningKey(alg, held, enforce).key
        /\ answer' = Verify(alg, given', sent, made)
        /\ UNCHANGED <<sent, made>>
  BY DEF VerifyIt, Fail, signature
<1>3. CASE alg \in Keyed
  <2>1. /\ Usable(alg, enforce, held)
        /\ held.bytes = given.bytes
        /\ PublicHalf(held.key) = PublicHalf(given.key)
    BY <1>1, <1>2, <1>3, HalfIsUsable DEF Keyed
  <2>2. given' = held
    BY <1>2, <1>3, <2>1, PreparedAgain DEF Keyed
  <2>3. SamePublicKey(given', made)
    BY <1>1, <1>3, <2>1, <2>2 DEF Signed, SamePublicKey
  <2> QED
    BY <1>1, <1>2, <2>3 DEF Signed, SamePublicKey
<1>4. CASE alg \notin Keyed
  BY <1>1, <1>2, <1>4 DEF Signed, Keyed, Asymmetric
<1> QED
  BY <1>1, <1>2, <1>3, <1>4

LEMMA NextSInv == SInv /\ [Next]_vars => SInv'
<1> SUFFICES ASSUME SInv, [Next]_vars
             PROVE  SInv'
  OBVIOUS
<1>1. IInv'
  BY NextIInv DEF SInv
<1>2. CASE phase' \notin {"signed", "sent", "judged"}
  BY <1>1, <1>2 DEF SInv
<1>3. CASE phase' = "signed" /\ SignIt
  BY <1>1, <1>3, SigningSigns DEF SInv
<1>4. CASE phase' = "sent" /\ Alter
  <2>1. /\ phase = "signed" /\ sent' \in Altered(sent) \cup Writings
        /\ UNCHANGED <<alg, given, made>>
    BY <1>4 DEF Alter
  <2>2. Signed
    BY <2>1 DEF SInv
  <2>3. sent' \in Seq(Byte)
    BY <2>1, <2>2, AlteredBytes, WritingsAreBytes DEF Signed
  <2> QED
    BY <1>1, <1>4, <2>1, <2>2, <2>3 DEF SInv, Signed, SamePublicKey
<1>5. CASE phase' = "judged" /\ VerifyIt
  BY <1>1, <1>5, VerifyingVerifies DEF SInv
<1>6. CASE UNCHANGED vars
  BY <1>1, <1>6 DEF SInv, vars, signature, Signed, SamePublicKey
<1>7. /\ Prepare \/ Export \/ Carry \/ Import =>
           phase' \notin {"signed", "sent", "judged"}
      /\ SignIt => phase' \in {"signed", "unsigned"}
      /\ Alter => phase' = "sent"
      /\ VerifyIt => phase' \in {"judged", "refused"}
  BY DEF Prepare, Export, Carry, Import, SignIt, Alter, VerifyIt, Fail
<1> QED
  BY <1>2, <1>3, <1>4, <1>5, <1>6, <1>7 DEF Next

LEMMA SigningInvariance == Spec => []SInv
<1>1. Init => SInv
  BY InitIInv DEF Init, SInv
<1> QED
  BY <1>1, NextSInv, PTL DEF Spec

(* What matches is what was made.                                           *)
LEMMA VerifiedMatches ==
    ASSUME NEW k, NEW raw, NEW by, NEW name \in Keyed, name \notin EcNames
    PROVE  Verify(name, k, raw, by) =
             IF name \in RsaNames /\ IsPrivate(k.key) THEN "AttributeError"
             ELSE IF Matches(k, raw, by) THEN "valid" ELSE "invalid"
  BY Names DEF Verify, VerifyHmac, VerifyRsa, VerifyOkp, Verdict, Keyed,
     Asymmetric

(* For every curve, every pair of numbers and every key: what a key signed  *)
(* verifies with it and with its public half, by "none" and by a private    *)
(* RSA key never.                                                           *)
THEOREM SignatureVerifiesHolds == Spec => []SignatureVerifies
<1>1. SInv => SignatureVerifies
  <2> SUFFICES ASSUME SInv, phase = "judged", sent = made.raw
               PROVE  CASE FamilyOf(alg) = "none" -> answer = "invalid"
                        [] FamilyOf(alg) = "RSA" /\ IsPrivate(given.key) ->
                              answer = "AttributeError"
                        [] OTHER -> answer = "valid"
    BY DEF SignatureVerifies
  <2>1. /\ Usable(alg, enforce, given) /\ Signed
        /\ answer = Verify(alg, given, sent, made)
    BY DEF SInv, IInv, Prepared
  <2>2. CASE alg \notin Keyed
    BY <2>1, <2>2 DEF Verify, FamilyOf, Keyed, Asymmetric
  <2>3. CASE alg \in Keyed /\ alg \notin EcNames
    <3>1. Matches(given, sent, made)
      BY <2>1, <2>3 DEF Matches, Signed
    <3>2. answer = IF alg \in RsaNames /\ IsPrivate(given.key)
                     THEN "AttributeError" ELSE "valid"
      BY <2>1, <2>3, <3>1, VerifiedMatches
    <3>3. FamilyOf(alg) # "none" /\ (FamilyOf(alg) = "RSA" <=> alg \in RsaNames)
      BY <2>3, Names DEF FamilyOf, Keyed, Asymmetric
    <3> QED
      BY <3>2, <3>3
  <2>4. CASE alg \in EcNames
    <3> DEFINE crv == ExpectedCurve[alg]
               bits == KeySize[crv]
    <3>1. given.key.part = crv /\ made.pair \in Draws[crv]
          /\ sent = DerToRaw(made.pair, bits) /\ SamePublicKey(given, made)
      BY <2>1, <2>4, CurveOfUsable DEF Signed, Keyed, Asymmetric
    <3>2. RawFits(sent, bits) /\ RawToDer(sent, bits) = made.pair
      BY <2>4, <3>1, DrawnPairs, WritingOf
    <3>3. made.pair \in Twins(made.pair, crv)
      BY DEF Twins
    <3>4. Verify(alg, given, sent, made) = VerifyEc(given, sent, made)
          /\ FamilyOf(alg) = "EC"
      BY <2>4, Names DEF Verify, FamilyOf
    <3> HIDE DEF crv
    <3>5. answer = "valid"
      BY <2>1, <3>1, <3>2, <3>3, <3>4 DEF VerifyEc, Verdict
    <3> QED
      BY <3>4, <3>5
  <2> QED
    BY <2>2, <2>3, <2>4
<1> QED
  BY <1>1, SigningInvariance, PTL

(* For every curve and every change on the way: what is accepted is written *)
(* as the signature was, or as its twin is.                                 *)
THEOREM AcceptedSignatureIsExactHolds == Spec => []AcceptedSignatureIsExact
<1>1. SInv => AcceptedSignatureIsExact
  <2> SUFFICES ASSUME SInv, phase = "judged", answer = "valid"
               PROVE  sent \in Writings
    BY DEF AcceptedSignatureIsExact
  <2>1. /\ Usable(alg, enforce, given) /\ Signed
        /\ answer = Verify(alg, given, sent, made)
    BY DEF SInv, IInv, Prepared
  <2>2. CASE alg \notin Keyed
    BY <2>1, <2>2 DEF Verify, Keyed, Asymmetric
  <2>3. CASE alg \in Keyed /\ alg \notin EcNames
    <3>1. Matches(given, sent, made)
      BY <2>1, <2>3, VerifiedMatches
    <3> QED
      BY <2>3, <3>1 DEF Matches, Writings
  <2>4. CASE alg \in EcNames
    <3> DEFINE crv == ExpectedCurve[alg]
               bits == KeySize[crv]
               pair == RawToDer(sent, bits)
    <3>1. given.key.part = crv /\ sent \in Seq(Byte) /\ bits \in Nat
      BY <2>1, <2>4, CurveOfUsable, SignatureAssumption DEF Signed, ExpectedCurves
    <3>2. answer = VerifyEc(given, sent, made)
      BY <2>1, <2>4, Names DEF Verify
    <3>3. RawFits(sent, bits) /\ pair \in Twins(made.pair, crv)
      <4> HIDE DEF crv
      <4> QED
        BY <3>1, <3>2 DEF VerifyEc, Verdict
    <3>4. DerToRaw(pair, bits) = sent
      <4> HIDE DEF bits
      <4> QED
        BY <3>1, <3>3, RawIsTheOneWriting
    <3> HIDE DEF crv, pair
    <3> QED
      BY <2>4, <3>1, <3>3, <3>4 DEF Writings
  <2> QED
    BY <2>2, <2>3, <2>4
<1> QED
  BY <1>1, SigningInvariance, PTL

-----------------------------------------------------------------------------
(* What to_jwk writes.                                                      *)

LEMMA NamedTexts ==
    ASSUME NEW fields, NEW texts,
           \A i, j \in DOMAIN texts : fields[i] = fields[j] => i = j
    PROVE  /\ DOMAIN Named(fields, texts) = {fields[i] : i \in DOMAIN texts}
           /\ \A i \in DOMAIN texts : Named(fields, texts)[fields[i]] = texts[i]
<1>1. ASSUME NEW i \in DOMAIN texts
      PROVE  Named(fields, texts)[fields[i]] = texts[i]
  <2>1. (CHOOSE j \in DOMAIN texts : fields[j] = fields[i]) = i
    OBVIOUS
  <2> QED
    BY <2>1 DEF Named
<1> QED
  BY <1>1 DEF Named

LEMMA Fields ==
    /\ RsaFields[1] = "n" /\ RsaFields[2] = "e" /\ RsaFields[3] = "d"
    /\ RsaFields[4] = "p" /\ RsaFields[5] = "q" /\ RsaFields[6] = "dp"
    /\ RsaFields[7] = "dq" /\ RsaFields[8] = "qi"
    /\ EcFields[1] = "x" /\ EcFields[2] = "y" /\ EcFields[3] = "d"
    /\ \A i, j \in 1..8 : RsaFields[i] = RsaFields[j] => i = j
    /\ \A i, j \in 1..3 : EcFields[i] = EcFields[j] => i = j
<1>1. \A i \in 1..8 : i = 1 \/ i = 2 \/ i = 3 \/ i = 4 \/ i = 5 \/ i = 6 \/ i = 7 \/ i = 8
  OBVIOUS
<1>2. \A i \in 1..3 : i = 1 \/ i = 2 \/ i = 3
  OBVIOUS
<1>3. /\ RsaFields[1] = "n" /\ RsaFields[2] = "e" /\ RsaFields[3] = "d"
      /\ RsaFields[4] = "p" /\ RsaFields[5] = "q" /\ RsaFields[6] = "dp"
      /\ RsaFields[7] = "dq" /\ RsaFields[8] = "qi"
  BY DEF RsaFields
<1>4. \A i, j \in 1..8 : RsaFields[i] = RsaFields[j] => i = j
  BY <1>1, <1>3
<1>5. EcFields[1] = "x" /\ EcFields[2] = "y" /\ EcFields[3] = "d"
  BY DEF EcFields
<1>6. \A i, j \in 1..3 : EcFields[i] = EcFields[j] => i = j
  BY <1>2, <1>5
<1> QED
  BY <1>3, <1>4, <1>5, <1>6

LEMMA KeyedFamilies ==
    ASSUME NEW name \in Keyed, NEW g
    PROVE  /\ name \in HmacNames => ToJwk(name, g) = HmacToJwk(g)
           /\ name \in RsaNames => ToJwk(name, g) = RsaToJwk(g)
           /\ name \in EcNames => ToJwk(name, g) = EcToJwk(g)
           /\ name \in OkpNames => ToJwk(name, g) = OkpToJwk(g)
           /\ name \in HmacNames \/ name \in RsaNames \/ name \in EcNames
              \/ name \in OkpNames
  BY Names DEF ToJwk, Keyed, Asymmetric

-----------------------------------------------------------------------------
(* Texts that to_jwk writes, and what can become of them on their way.      *)

Encoded(text) == \E bytes \in Seq(Byte) : text = Base64urlEncode(bytes)

LEMMA EncodedNumber ==
    ASSUME NEW n \in Nat, NEW bits \in Nat, Shifted(n, WidthOf(bits)) = 0
    PROVE  LET text == ToBase64urlUint(n, bits)
           IN  /\ Encoded(text)
               /\ FromBase64urlUint(text) = n
               /\ WidthOf(bits) > 0 => Len(Base64urlDecode(text)) = WidthOf(bits)
<1> DEFINE width == WidthOf(bits)
           text == ToBase64urlUint(n, bits)
<1>1. width \in Nat
  BY DEF WidthOf
<1>2. /\ BigEndian(n, width) \in Seq(Byte) /\ Len(BigEndian(n, width)) = width
      /\ <<0>> \in Seq(Byte)
  <2>1. <<0>> \in Seq(Byte)
    BY DEF Byte
  <2> HIDE DEF width
  <2> QED
    BY <1>1, <2>1, BigEndianBytes
<1> DEFINE from == IF width = 0 THEN <<0>> ELSE BigEndian(n, width)
<1>a. text = Base64urlEncode(from)
  BY DEF ToBase64urlUint, BytesFromInt
<1>b. from \in Seq(Byte) /\ (width > 0 => Len(from) = width)
  <2> HIDE DEF width
  <2> QED
    BY <1>1, <1>2
<1>3. PICK bytes \in Seq(Byte) : /\ text = Base64urlEncode(bytes)
                                 /\ width > 0 => Len(bytes) = width
  <2> HIDE DEF from, width, text
  <2> QED
    BY <1>a, <1>b
<1>4. Base64urlDecode(Base64urlEncode(bytes)) = bytes
  BY BytesSurviveText
<1>5. FromBase64urlUint(text) = n
  BY NumberSurvivesText
<1> HIDE DEF width, text
<1> QED
  BY <1>3, <1>4, <1>5 DEF Encoded, width, text

LEMMA CarriedText ==
    ASSUME NEW text, Encoded(text), NEW arrived \in Carried(text)
    PROVE  /\ arrived.how \in {"whole", "padded", "wrapped", "cut"}
           /\ arrived.how # "cut" =>
                 Base64urlDecode(arrived.text) = Base64urlDecode(text)
           /\ arrived.how \in {"whole", "padded"} => Decodable(arrived.text)
           /\ arrived.how = "cut" /\ Decodable(arrived.text) =>
                 Len(Base64urlDecode(arrived.text)) # Len(Base64urlDecode(text))
<1>1. PICK bytes \in Seq(Byte) : text = Base64urlEncode(bytes)
  BY DEF Encoded
<1>2. /\ Decodable(text) /\ Base64urlDecode(text) = bytes
      /\ Decodable(Padded(text)) /\ Base64urlDecode(Padded(text)) = bytes
      /\ \A i \in DOMAIN text : Base64urlDecode(InsertAt(text, i, Junk)) = bytes
  BY <1>1, LettersSurvive
<1>3. CASE arrived = [how |-> "whole", text |-> text]
  BY <1>2, <1>3
<1>4. CASE arrived = [how |-> "padded", text |-> Padded(text)]
  BY <1>2, <1>4
<1>5. CASE \E i \in DOMAIN text :
              arrived = [how |-> "wrapped", text |-> InsertAt(text, i, Junk)]
  BY <1>2, <1>5
<1>6. CASE arrived = [how |-> "cut", text |-> Front(text)] /\ DOMAIN text # {}
  <2>1. bytes # <<>>
    <3>1. SUFFICES ASSUME bytes = <<>> PROVE DOMAIN text = {}
      BY <1>6
    <3>2. Len(bytes) = 0
      BY <3>1
    <3>3. /\ text \in Seq(Letter) /\ Len(text) = (4 * Len(bytes) + 2) \div 3
      BY <1>1, EncodedLetters
    <3> QED
      BY <3>2, <3>3
  <2>2. arrived.how = "cut" /\ arrived.text = Front(text)
    BY <1>6
  <2>3. Decodable(Front(text)) => Len(Base64urlDecode(Front(text))) = Len(bytes) - 1
    BY <1>1, <2>1, CutText
  <2>4. Len(bytes) \in Nat
    OBVIOUS
  <2> QED
    BY <1>2, <2>2, <2>3, <2>4
<1> QED
  BY <1>3, <1>4, <1>5, <1>6 DEF Carried

-----------------------------------------------------------------------------
(* Documents, by what their texts stand for.                                *)

Number(d, field) == FromBase64urlUint(d.texts[field])

RsaDoc(d, key) ==
    /\ d.kty = "RSA" /\ d.crv = ""
    /\ DOMAIN d.texts = {RsaFields[i] : i \in DOMAIN Parts(key)}
    /\ \A i \in DOMAIN Parts(key) : Number(d, RsaFields[i]) = Parts(key)[i]

EcDoc(d, key) ==
    /\ d.kty = "EC" /\ d.crv = key.part /\ key.part \in ExpectedCurves
    /\ DOMAIN d.texts = {EcFields[i] : i \in DOMAIN Parts(key)}
    /\ \A i \in DOMAIN Parts(key) :
          /\ Number(d, EcFields[i]) = Parts(key)[i]
          /\ Len(Bytes(d, EcFields[i])) = Width[key.part]

OkpDoc(d, key) ==
    /\ d.kty = "OKP" /\ d.crv = key.part
    /\ DOMAIN d.texts = IF IsPrivate(key) THEN {"x", "d"} ELSE {"x"}
    /\ Bytes(d, "x") = key.pub
    /\ IsPrivate(key) => Bytes(d, "d") = key.priv

HmacDoc(d, bytes) ==
    /\ d.kty = "oct" /\ d.crv = ""
    /\ DOMAIN d.texts = {"k"}
    /\ Bytes(d, "k") = bytes

\* Documents that mean the same.
SameMeaning(d, other) ==
    /\ d.kty = other.kty /\ d.crv = other.crv
    /\ DOMAIN d.texts = DOMAIN other.texts
    /\ \A field \in DOMAIN d.texts : Bytes(d, field) = Bytes(other, field)

LEMMA MeaningKept ==
    ASSUME NEW d, NEW other, SameMeaning(d, other), NEW key, NEW bytes
    PROVE  /\ RsaDoc(other, key) => RsaDoc(d, key)
           /\ EcDoc(other, key) => EcDoc(d, key)
           /\ OkpDoc(other, key) => OkpDoc(d, key)
           /\ HmacDoc(other, bytes) => HmacDoc(d, bytes)
<1>1. \A field \in DOMAIN d.texts : /\ Number(d, field) = Number(other, field)
                                    /\ Bytes(d, field) = Bytes(other, field)
  BY DEF SameMeaning, Number, Bytes, FromBase64urlUint
<1>2. /\ d.kty = other.kty /\ d.crv = other.crv
      /\ DOMAIN d.texts = DOMAIN other.texts
  BY DEF SameMeaning
<1>3. RsaDoc(other, key) => RsaDoc(d, key)
  BY <1>1, <1>2 DEF RsaDoc
<1>4. EcDoc(other, key) => EcDoc(d, key)
  BY <1>1, <1>2 DEF EcDoc
<1>5. OkpDoc(other, key) => OkpDoc(d, key)
  BY <1>1, <1>2 DEF OkpDoc
<1>6. HmacDoc(other, bytes) => HmacDoc(d, bytes)
  BY <1>1, <1>2 DEF HmacDoc
<1> QED
  BY <1>3, <1>4, <1>5, <1>6

-----------------------------------------------------------------------------
(* Keys there are.                                                          *)

LEMMA KnownKey ==
    ASSUME NEW key, Known(key), key.family # "none"
    PROVE  \E whole \in Genuine :
              /\ whole.family = key.family /\ whole.part = key.part
              /\ whole.pub = key.pub
              /\ key = whole \/ key = PublicHalf(whole)
              /\ key.priv = whole.priv \/ key.priv = <<>>
              /\ key = Key(key.family, key.part, key.pub, key.priv)
              /\ IsPrivate(key) => key = whole
<1>1. NoKey.family = "none"
  BY DEF NoKey, Key
<1>2. PICK whole \in Genuine : key = whole \/ key = PublicHalf(whole)
  BY <1>1 DEF Known
<1>3. whole = Key(whole.family, whole.part, whole.pub, whole.priv) /\ IsPrivate(whole)
  BY GenuineAssumption
<1>4. CASE key = whole
  BY <1>2, <1>3, <1>4
<1>5. CASE key = PublicHalf(whole)
  <2>1. /\ key.family = whole.family /\ key.part = whole.part
        /\ key.pub = whole.pub /\ key.priv = <<>>
        /\ key = Key(key.family, key.part, key.pub, key.priv)
    BY <1>5 DEF PublicHalf, Key
  <2>2. ~IsPrivate(key)
    BY <2>1 DEF IsPrivate
  <2> QED
    BY <1>5, <2>1, <2>2
<1> QED
  BY <1>2, <1>4, <1>5

LEMMA JoinedParts ==
    ASSUME NEW key, key.pub \in Seq(Nat), key.priv \in Seq(Nat)
    PROVE  /\ Parts(key) \in Seq(Nat)
           /\ DOMAIN Parts(key) = 1..(Len(key.pub) + Len(key.priv))
           /\ \A i \in 1..Len(key.pub) : Parts(key)[i] = key.pub[i]
           /\ \A i \in 1..Len(key.priv) : Parts(key)[i + Len(key.pub)] = key.priv[i]
           /\ key.priv = <<>> => Parts(key) = key.pub
<1> DEFINE s == key.pub
           t == key.priv
<1>1. Parts(key) = s \o t
  BY DEF Parts
<1>2. s \in Seq(Nat)
  OBVIOUS
<1>3. t \in Seq(Nat)
  OBVIOUS
<1> HIDE DEF s, t
<1>4. /\ s \o t \in Seq(Nat) /\ Len(s \o t) = Len(s) + Len(t)
      /\ \A i \in 1..Len(s) : (s \o t)[i] = s[i]
      /\ \A i \in 1..Len(t) : (s \o t)[Len(s) + i] = t[i]
  BY <1>2, <1>3, Joined
<1>5. t = <<>> => s \o t = s
  BY <1>2
<1>6. \A i \in 1..Len(t) : (s \o t)[i + Len(s)] = t[i]
  <2>1. \A i \in 1..Len(t) : i + Len(s) = Len(s) + i
    BY <1>2
  <2> QED
    BY <1>4, <2>1
<1>7. DOMAIN (s \o t) = 1..(Len(s) + Len(t))
  <2>1. \A r \in Seq(Nat) : DOMAIN r = 1..Len(r)
    OBVIOUS
  <2> QED
    BY <1>4, <2>1
<1> QED
  BY <1>1, <1>4, <1>5, <1>6, <1>7 DEF s, t

\* A key of two numbers, and of as many more when it is private.
Consists(key, private) ==
    /\ Parts(key) \in Seq(Nat)
    /\ DOMAIN Parts(key) = IF IsPrivate(key) THEN 1..(2 + private) ELSE 1..2
    /\ key.pub = [i \in 1..2 |-> Parts(key)[i]]
    /\ key.priv = IF IsPrivate(key) THEN [i \in 1..private |-> Parts(key)[i + 2]]
                    ELSE <<>>

LEMMA ConsistsOf ==
    ASSUME NEW key, key.pub \in Seq(Nat), Len(key.pub) = 2,
           NEW private \in Nat,
           IsPrivate(key) => key.priv \in Seq(Nat) /\ Len(key.priv) = private
    PROVE  Consists(key, private)
<1>1. key.pub = [i \in 1..2 |-> key.pub[i]]
  OBVIOUS
<1>2. CASE IsPrivate(key)
  <2>1. key.priv \in Seq(Nat) /\ Len(key.priv) = private
    BY <1>2
  <2>2. key.priv = [i \in 1..private |-> key.priv[i]]
    BY <2>1
  <2>3. /\ Parts(key) \in Seq(Nat) /\ DOMAIN Parts(key) = 1..(2 + private)
        /\ \A i \in 1..2 : Parts(key)[i] = key.pub[i]
        /\ \A i \in 1..private : Parts(key)[i + 2] = key.priv[i]
    <3>1. /\ Parts(key) \in Seq(Nat)
          /\ DOMAIN Parts(key) = 1..(Len(key.pub) + Len(key.priv))
          /\ \A i \in 1..Len(key.pub) : Parts(key)[i] = key.pub[i]
          /\ \A i \in 1..Len(key.priv) : Parts(key)[i + Len(key.pub)] = key.priv[i]
      BY <2>1, JoinedParts
    <3> QED
      BY <2>1, <3>1
  <2> QED
    BY <1>1, <1>2, <2>2, <2>3 DEF Consists
<1>3. CASE ~IsPrivate(key)
  <2>1. key.priv = <<>>
    BY <1>3 DEF IsPrivate
  <2>2. key.priv \in Seq(Nat)
    BY <2>1
  <2>3. Parts(key) = key.pub
    BY <2>1, <2>2, JoinedParts
  <2>4. DOMAIN key.pub = 1..2
    OBVIOUS
  <2> QED
    BY <1>1, <1>3, <2>1, <2>3, <2>4 DEF Consists
<1> QED
  BY <1>2, <1>3

LEMMA RsaParts ==
    ASSUME NEW key, Known(key), key.family = "RSA"
    PROVE  /\ Consists(key, 6) /\ key.part = ""
           /\ key.pub[2] \in 3..(key.pub[1] - 1) /\ key.pub[2] % 2 = 1
           /\ IsPrivate(key) => key \in Genuine /\ GenuineRsa(key)
           /\ key = Key(key.family, key.part, key.pub, key.priv)
<1>1. PICK whole \in Genuine :
              /\ whole.family = key.family /\ whole.part = key.part
              /\ whole.pub = key.pub
              /\ key = Key(key.family, key.part, key.pub, key.priv)
              /\ IsPrivate(key) => key = whole
  BY KnownKey
<1>2. GenuineRsa(whole)
  BY <1>1, GenuineAssumption
<1>3. /\ key.part = ""
      /\ key.pub \in Seq(Nat) /\ Len(key.pub) = 2
      /\ IsPrivate(key) => key.priv \in Seq(Nat) /\ Len(key.priv) = 6
      /\ key.pub[2] \in 3..(key.pub[1] - 1) /\ key.pub[2] % 2 = 1
  BY <1>1, <1>2 DEF GenuineRsa
<1>4. Consists(key, 6)
  BY <1>3, ConsistsOf
<1> QED
  BY <1>1, <1>2, <1>3, <1>4

LEMMA EcParts ==
    ASSUME NEW key, Known(key), key.family = "EC", key.part \in ExpectedCurves
    PROVE  /\ Consists(key, 1)
           /\ \A i \in DOMAIN Parts(key) :
                 Shifted(Parts(key)[i], WidthOf(KeySize[key.part])) = 0
           /\ key \in Genuine \cup {PublicHalf(k) : k \in Genuine}
           /\ key = Key(key.family, key.part, key.pub, key.priv)
<1>1. PICK whole \in Genuine :
              /\ whole.family = key.family /\ whole.part = key.part
              /\ whole.pub = key.pub
              /\ key = whole \/ key = PublicHalf(whole)
              /\ key = Key(key.family, key.part, key.pub, key.priv)
              /\ IsPrivate(key) => key = whole
  BY KnownKey
<1>2. GenuineEc(whole)
  BY <1>1, GenuineAssumption
<1> DEFINE fits(n) == Shifted(n, WidthOf(KeySize[key.part])) = 0
<1>3. /\ key.pub \in Seq(Nat) /\ Len(key.pub) = 2
      /\ whole.priv \in Seq(Nat) /\ Len(whole.priv) = 1
      /\ \A i \in 1..3 : fits(Parts(whole)[i])
  BY <1>1, <1>2 DEF GenuineEc
<1>4. Consists(key, 1)
  <2>1. IsPrivate(key) => key.priv \in Seq(Nat) /\ Len(key.priv) = 1
    BY <1>1, <1>3
  <2> QED
    BY <1>3, <2>1, ConsistsOf
<1>5. \A i \in DOMAIN Parts(key) : i \in 1..3 /\ Parts(key)[i] = Parts(whole)[i]
  <2>1. CASE IsPrivate(key)
    BY <1>1, <1>4, <2>1 DEF Consists
  <2>2. CASE ~IsPrivate(key)
    <3>1. \A i \in 1..Len(whole.pub) : Parts(whole)[i] = whole.pub[i]
      BY <1>1, <1>3, JoinedParts
    <3>2. \A i \in 1..2 : Parts(whole)[i] = key.pub[i]
      BY <1>1, <1>3, <3>1
    <3>3. /\ DOMAIN Parts(key) = 1..2
          /\ key.pub = [i \in 1..2 |-> Parts(key)[i]]
      BY <1>4, <2>2 DEF Consists
    <3>4. \A i \in 1..2 : key.pub[i] = Parts(key)[i]
      BY <3>3
    <3> QED
      BY <3>2, <3>3, <3>4
  <2> QED
    BY <2>1, <2>2
<1> HIDE DEF fits
<1>6. \A i \in DOMAIN Parts(key) : fits(Parts(key)[i])
  BY <1>3, <1>5
<1> QED
  BY <1>1, <1>4, <1>6 DEF fits

LEMMA OkpParts ==
    ASSUME NEW key, Known(key), key.family = "OKP"
    PROVE  /\ key.part \in {"Ed25519", "Ed448"}
           /\ key.pub \in Seq(Byte) /\ Len(key.pub) = Width[key.part]
           /\ IF IsPrivate(key)
                THEN /\ key.priv \in Seq(Byte) /\ Len(key.priv) = Width[key.part]
                     /\ key \in Genuine /\ GenuineOkp(key)
                ELSE key.priv = <<>>
           /\ key = Key(key.family, key.part, key.pub, key.priv)
<1>1. PICK whole \in Genuine :
              /\ whole.family = key.family /\ whole.part = key.part
              /\ whole.pub = key.pub
              /\ key = Key(key.family, key.part, key.pub, key.priv)
              /\ IsPrivate(key) => key = whole
  BY KnownKey
<1>2. GenuineOkp(whole)
  BY <1>1, GenuineAssumption
<1> QED
  BY <1>1, <1>2 DEF GenuineOkp, Byte, IsPrivate

-----------------------------------------------------------------------------
(* What to_jwk writes says what the key is.                                 *)

LEMMA DocumentIs ==
    ASSUME NEW kty, NEW crv, NEW texts
    PROVE  /\ Document(kty, crv, texts).kty = kty
           /\ Document(kty, crv, texts).crv = crv
           /\ Document(kty, crv, texts).texts = texts
  BY DEF Document

AllEncoded(d) == \A field \in DOMAIN d.texts : Encoded(d.texts[field])

LEMMA RsaWrites ==
    ASSUME NEW g, Told(g), RsaToJwk(g).verdict = "ok"
    PROVE  /\ g = Object(g.key) /\ g.key.family = "RSA"
           /\ RsaDoc(RsaToJwk(g), g.key) /\ AllEncoded(RsaToJwk(g))
<1> DEFINE key == g.key
           texts == [i \in DOMAIN Parts(key) |->
                        ToBase64urlUint(Parts(key)[i], BitLength[Parts(key)[i]])]
           d == RsaToJwk(g)
<1>1. /\ g.form = "object" /\ key.family = "RSA"
      /\ d = Document("RSA", "", Named(RsaFields, texts))
  BY DEF RsaToJwk, NoDocument
<1>2. Known(key) /\ g = Object(key)
  BY <1>1 DEF Told
<1>3. Consists(key, 6)
  BY <1>1, <1>2, RsaParts
<1>4. DOMAIN texts \subseteq 1..8 /\ \A i \in DOMAIN texts : Parts(key)[i] \in Nat
  <2>1. DOMAIN texts = DOMAIN Parts(key)
    OBVIOUS
  <2>2. Parts(key) \in Seq(Nat) /\ DOMAIN Parts(key) \subseteq 1..8
    <3> HIDE DEF key, texts
    <3> QED
      BY <1>3 DEF Consists
  <2> HIDE DEF key, texts
  <2> QED
    BY <2>1, <2>2
<1>5. /\ DOMAIN Named(RsaFields, texts) = {RsaFields[i] : i \in DOMAIN texts}
      /\ \A i \in DOMAIN texts : Named(RsaFields, texts)[RsaFields[i]] = texts[i]
  <2>1. \A i, j \in DOMAIN texts : RsaFields[i] = RsaFields[j] => i = j
    <3> HIDE DEF texts
    <3> QED
      BY <1>4, Fields
  <2> HIDE DEF texts
  <2> QED
    BY <2>1, NamedTexts
<1>6. ASSUME NEW i \in DOMAIN texts
      PROVE  Encoded(texts[i]) /\ FromBase64urlUint(texts[i]) = Parts(key)[i]
  <2> DEFINE n == Parts(key)[i]
             bits == BitLength[n]
  <2>1. n \in Nat
    BY <1>4
  <2>2. texts[i] = ToBase64urlUint(n, bits)
    OBVIOUS
  <2> HIDE DEF n, texts
  <2>3. bits \in Nat /\ Shifted(n, WidthOf(bits)) = 0
    BY <2>1, OwnLength
  <2>4. /\ Encoded(ToBase64urlUint(n, bits))
        /\ FromBase64urlUint(ToBase64urlUint(n, bits)) = n
    <3> HIDE DEF bits
    <3> QED
      BY <2>1, <2>3, EncodedNumber
  <2> QED
    BY <2>2, <2>4 DEF n
<1>7. DOMAIN texts = DOMAIN Parts(key)
  OBVIOUS
<1> HIDE DEF key, texts, d
<1>8. /\ d.kty = "RSA" /\ d.crv = "" /\ d.texts = Named(RsaFields, texts)
  <2>1. d = Document("RSA", "", Named(RsaFields, texts))
    BY <1>1
  <2> QED
    BY <2>1 DEF Document
<1>9. AllEncoded(d)
  <2> SUFFICES ASSUME NEW field \in DOMAIN d.texts PROVE Encoded(d.texts[field])
    BY DEF AllEncoded
  <2>1. PICK i \in DOMAIN texts : field = RsaFields[i]
    BY <1>5, <1>8
  <2> QED
    BY <1>5, <1>6, <1>8, <2>1
<1>10. RsaDoc(d, key)
  BY <1>5, <1>6, <1>7, <1>8 DEF RsaDoc, Number
<1> QED
  BY <1>1, <1>2, <1>9, <1>10 DEF key, d

LEMMA EcWrites ==
    ASSUME NEW g, Told(g), EcToJwk(g).verdict = "ok"
    PROVE  /\ g = Object(g.key) /\ g.key.family = "EC"
           /\ EcDoc(EcToJwk(g), g.key) /\ AllEncoded(EcToJwk(g))
<1> DEFINE key == g.key
           bits == KeySize[key.part]
           texts == [i \in DOMAIN Parts(key) |-> EcUint(key.part, Parts(key)[i])]
           d == EcToJwk(g)
<1>1. /\ g.form = "object" /\ key.family = "EC" /\ key.part \in ExpectedCurves
      /\ d = Document("EC", key.part, Named(EcFields, texts))
  BY DEF EcToJwk, NoDocument
<1>2. Known(key) /\ g = Object(key)
  BY <1>1 DEF Told
<1>3. /\ Consists(key, 1)
      /\ \A i \in DOMAIN Parts(key) : Shifted(Parts(key)[i], WidthOf(bits)) = 0
  BY <1>1, <1>2, EcParts
<1>4. DOMAIN texts \subseteq 1..3 /\ \A i \in DOMAIN texts : Parts(key)[i] \in Nat
  BY <1>3 DEF Consists
<1>5. /\ DOMAIN Named(EcFields, texts) = {EcFields[i] : i \in DOMAIN texts}
      /\ \A i \in DOMAIN texts : Named(EcFields, texts)[EcFields[i]] = texts[i]
  <2>1. \A i, j \in DOMAIN texts : EcFields[i] = EcFields[j] => i = j
    <3> HIDE DEF texts
    <3> QED
      BY <1>4, Fields
  <2> HIDE DEF texts
  <2> QED
    BY <2>1, NamedTexts
<1>6. bits \in Nat /\ WidthOf(bits) = Width[key.part] /\ WidthOf(bits) > 0
  <2>1. key.part \in ExpectedCurves
    BY <1>1
  <2> HIDE DEF key
  <2>2. /\ bits \in Nat /\ WidthOf(bits) = Width[key.part]
        /\ Width[key.part] \in Nat \ {0}
    BY <2>1, WidthAssumption
  <2> HIDE DEF bits
  <2> QED
    BY <2>2
<1>7. ASSUME NEW i \in DOMAIN texts
      PROVE  /\ Encoded(texts[i]) /\ FromBase64urlUint(texts[i]) = Parts(key)[i]
             /\ Len(Base64urlDecode(texts[i])) = Width[key.part]
  <2> DEFINE n == Parts(key)[i]
  <2>1. n \in Nat /\ Shifted(n, WidthOf(bits)) = 0
    BY <1>3, <1>4
  <2>2. texts[i] = ToBase64urlUint(n, bits)
    BY DEF EcUint
  <2> HIDE DEF n, texts, bits
  <2>3. /\ Encoded(ToBase64urlUint(n, bits))
        /\ FromBase64urlUint(ToBase64urlUint(n, bits)) = n
        /\ Len(Base64urlDecode(ToBase64urlUint(n, bits))) = WidthOf(bits)
    BY <1>6, <2>1, EncodedNumber
  <2> QED
    BY <1>6, <2>2, <2>3 DEF n
<1>8. DOMAIN texts = DOMAIN Parts(key)
  OBVIOUS
<1> HIDE DEF key, texts, d
<1>9. /\ d.kty = "EC" /\ d.crv = key.part /\ d.texts = Named(EcFields, texts)
  BY <1>1, DocumentIs
<1>10. AllEncoded(d)
  <2> SUFFICES ASSUME NEW field \in DOMAIN d.texts PROVE Encoded(d.texts[field])
    BY DEF AllEncoded
  <2>1. PICK i \in DOMAIN texts : field = EcFields[i]
    BY <1>5, <1>9
  <2> QED
    BY <1>5, <1>7, <1>9, <2>1
<1>11. EcDoc(d, key)
  BY <1>1, <1>5, <1>7, <1>8, <1>9 DEF EcDoc, Number, Bytes
<1> QED
  BY <1>1, <1>2, <1>10, <1>11 DEF key, d

LEMMA OkpWrites ==
    ASSUME NEW g, Told(g), OkpToJwk(g).verdict = "ok"
    PROVE  /\ g = Object(g.key) /\ g.key.family = "OKP"
           /\ OkpDoc(OkpToJwk(g), g.key) /\ AllEncoded(OkpToJwk(g))
<1> DEFINE key == g.key
           texts == <<Base64urlEncode(key.pub)>>
                    \o (IF IsPrivate(key) THEN <<Base64urlEncode(key.priv)>> ELSE <<>>)
           fields == <<"x", "d">>
           d == OkpToJwk(g)
<1>1. /\ g.form = "object" /\ key.family = "OKP"
      /\ d = Document("OKP", key.part, Named(fields, texts))
  BY DEF OkpToJwk, NoDocument
<1>2. Known(key) /\ g = Object(key)
  BY <1>1 DEF Told
<1>3. key.pub \in Seq(Byte) /\ (IsPrivate(key) => key.priv \in Seq(Byte))
  BY <1>1, <1>2, OkpParts
<1>4. /\ DOMAIN texts = IF IsPrivate(key) THEN 1..2 ELSE 1..1
      /\ texts[1] = Base64urlEncode(key.pub)
      /\ IsPrivate(key) => texts[2] = Base64urlEncode(key.priv)
  <2> DEFINE one == Base64urlEncode(key.pub)
             two == Base64urlEncode(key.priv)
  <2> HIDE DEF one, two
  <2>1. DOMAIN (<<one>> \o <<two>>) = 1..2 /\ (<<one>> \o <<two>>)[1] = one
        /\ (<<one>> \o <<two>>)[2] = two
    OBVIOUS
  <2>2. DOMAIN (<<one>> \o <<>>) = 1..1 /\ (<<one>> \o <<>>)[1] = one
    OBVIOUS
  <2>3. texts = <<one>> \o (IF IsPrivate(key) THEN <<two>> ELSE <<>>)
    BY DEF one, two
  <2> HIDE DEF texts, key
  <2>4. IF IsPrivate(key) THEN texts = <<one>> \o <<two>> ELSE texts = <<one>> \o <<>>
    BY <2>3
  <2> QED
    BY <2>1, <2>2, <2>4 DEF one, two
<1>5. fields[1] = "x" /\ fields[2] = "d"
  OBVIOUS
<1> HIDE DEF key, texts, fields, d
<1>6. \A i \in DOMAIN texts : i = 1 \/ (i = 2 /\ IsPrivate(key))
  BY <1>4
<1>7. /\ DOMAIN Named(fields, texts) = {fields[i] : i \in DOMAIN texts}
      /\ \A i \in DOMAIN texts : Named(fields, texts)[fields[i]] = texts[i]
  <2>1. \A i, j \in DOMAIN texts : fields[i] = fields[j] => i = j
    BY <1>5, <1>6
  <2> QED
    BY <2>1, NamedTexts
<1>8. /\ DOMAIN Named(fields, texts) = IF IsPrivate(key) THEN {"x", "d"} ELSE {"x"}
      /\ Named(fields, texts)["x"] = texts[1]
      /\ IsPrivate(key) => Named(fields, texts)["d"] = texts[2]
  <2>1. 1 \in DOMAIN texts /\ (IsPrivate(key) => 2 \in DOMAIN texts)
    BY <1>4
  <2> QED
    BY <1>5, <1>6, <1>7, <2>1
<1>9. /\ d.kty = "OKP" /\ d.crv = key.part /\ d.texts = Named(fields, texts)
  BY <1>1, DocumentIs
<1>10. /\ Base64urlDecode(texts[1]) = key.pub /\ Encoded(texts[1])
       /\ IsPrivate(key) => Base64urlDecode(texts[2]) = key.priv /\ Encoded(texts[2])
  BY <1>3, <1>4, BytesSurviveText DEF Encoded
<1>11. AllEncoded(d)
  BY <1>8, <1>9, <1>10 DEF AllEncoded
<1>12. OkpDoc(d, key)
  BY <1>8, <1>9, <1>10 DEF OkpDoc, Bytes
<1> QED
  BY <1>1, <1>2, <1>11, <1>12 DEF key, d

LEMMA HmacWrites ==
    ASSUME NEW g, Told(g), HmacToJwk(g).verdict = "ok"
    PROVE  /\ g.form = "text" /\ g = TextOf(g.bytes)
           /\ HmacDoc(HmacToJwk(g), g.bytes) /\ AllEncoded(HmacToJwk(g))
<1> DEFINE d == HmacToJwk(g)
<1>1. /\ g.form = "text" /\ d = Document("oct", "", [k |-> Base64urlEncode(g.bytes)])
  BY DEF HmacToJwk, NoDocument
<1>2. g = TextOf(g.bytes) /\ g.bytes \in Seq(Byte)
  BY <1>1 DEF Told, Byte
<1>3. /\ d.kty = "oct" /\ d.crv = "" /\ DOMAIN d.texts = {"k"}
      /\ d.texts["k"] = Base64urlEncode(g.bytes)
  <2> DEFINE text == Base64urlEncode(g.bytes)
             texts == [k |-> text]
  <2>1. d = Document("oct", "", texts)
    BY <1>1
  <2>2. DOMAIN texts = {"k"} /\ texts["k"] = text
    <3> HIDE DEF text
    <3> QED
      OBVIOUS
  <2> HIDE DEF d, texts, text
  <2>3. d.kty = "oct" /\ d.crv = "" /\ d.texts = texts
    BY <2>1 DEF Document
  <2> QED
    BY <2>2, <2>3 DEF text
<1>4. Base64urlDecode(d.texts["k"]) = g.bytes /\ Encoded(d.texts["k"])
  <2> HIDE DEF d
  <2> QED
    BY <1>2, <1>3, BytesSurviveText DEF Encoded
<1> HIDE DEF d
<1> QED
  BY <1>1, <1>2, <1>3, <1>4 DEF AllEncoded, HmacDoc, Bytes, d

-----------------------------------------------------------------------------
(* What from_jwk reads.                                                     *)

LEMMA FieldLists ==
    /\ DOMAIN <<"n", "e">> = 1..2
    /\ \A i \in 1..2 : <<"n", "e">>[i] = RsaFields[i]
    /\ DOMAIN <<"d", "p", "q", "dp", "dq", "qi">> = 1..6
    /\ \A i \in 1..6 : <<"d", "p", "q", "dp", "dq", "qi">>[i] = RsaFields[i + 2]
    /\ DOMAIN <<"x", "y">> = 1..2
    /\ \A i \in 1..2 : <<"x", "y">>[i] = EcFields[i]
    /\ DOMAIN <<"d">> = 1..1
    /\ \A i \in 1..1 : <<"d">>[i] = EcFields[i + 2]
<1>1. \A i \in 1..6 : i = 1 \/ i = 2 \/ i = 3 \/ i = 4 \/ i = 5 \/ i = 6
  OBVIOUS
<1>2. \A i \in 1..2 : i = 1 \/ i = 2
  OBVIOUS
<1>3. \A i \in 1..1 : i = 1
  OBVIOUS
<1>4. \A i \in 1..2 : <<"n", "e">>[i] = RsaFields[i]
  BY <1>2 DEF RsaFields
<1>5. \A i \in 1..6 : <<"d", "p", "q", "dp", "dq", "qi">>[i] = RsaFields[i + 2]
  BY <1>1 DEF RsaFields
<1>6. \A i \in 1..2 : <<"x", "y">>[i] = EcFields[i]
  BY <1>2 DEF EcFields
<1>7. \A i \in 1..1 : <<"d">>[i] = EcFields[i + 2]
  BY <1>3 DEF EcFields
<1>8. /\ DOMAIN <<"n", "e">> = 1..2 /\ DOMAIN <<"x", "y">> = 1..2
      /\ DOMAIN <<"d", "p", "q", "dp", "dq", "qi">> = 1..6
      /\ DOMAIN <<"d">> = 1..1
  OBVIOUS
<1> QED
  BY <1>4, <1>5, <1>6, <1>7, <1>8

LEMMA RsaFromIs ==
    ASSUME NEW d, d.kty = "RSA", d.crv = ""
    PROVE  RsaFrom(d) =
             Key("RSA", "", [i \in 1..2 |-> Number(d, RsaFields[i])],
                 IF Has(d, "d") THEN [i \in 1..6 |-> Number(d, RsaFields[i + 2])]
                   ELSE <<>>)
<1>1. PartsOf(d, <<"n", "e">>) = [i \in 1..2 |-> Number(d, RsaFields[i])]
  <2> DEFINE fields == <<"n", "e">>
  <2>1. DOMAIN fields = 1..2 /\ \A i \in 1..2 : fields[i] = RsaFields[i]
    BY FieldLists
  <2> HIDE DEF fields
  <2>2. PartsOf(d, fields) = [i \in 1..2 |-> Number(d, RsaFields[i])]
    BY <2>1 DEF PartsOf, Number
  <2> QED
    BY <2>2 DEF fields
<1>2. PartsOf(d, <<"d", "p", "q", "dp", "dq", "qi">>) =
        [i \in 1..6 |-> Number(d, RsaFields[i + 2])]
  <2> DEFINE fields == <<"d", "p", "q", "dp", "dq", "qi">>
  <2>1. DOMAIN fields = 1..6 /\ \A i \in 1..6 : fields[i] = RsaFields[i + 2]
    BY FieldLists
  <2> HIDE DEF fields
  <2>2. PartsOf(d, fields) = [i \in 1..6 |-> Number(d, RsaFields[i + 2])]
    BY <2>1 DEF PartsOf, Number
  <2> QED
    BY <2>2 DEF fields
<1> QED
  BY <1>1, <1>2 DEF RsaFrom, FromNumbers

LEMMA EcFromIs ==
    ASSUME NEW d, d.kty = "EC"
    PROVE  EcFrom(d) =
             Key("EC", d.crv, [i \in 1..2 |-> Number(d, EcFields[i])],
                 IF Has(d, "d") THEN [i \in 1..1 |-> Number(d, EcFields[i + 2])]
                   ELSE <<>>)
<1>1. PartsOf(d, <<"x", "y">>) = [i \in 1..2 |-> Number(d, EcFields[i])]
  <2> DEFINE fields == <<"x", "y">>
  <2>1. DOMAIN fields = 1..2 /\ \A i \in 1..2 : fields[i] = EcFields[i]
    BY FieldLists
  <2> HIDE DEF fields
  <2>2. PartsOf(d, fields) = [i \in 1..2 |-> Number(d, EcFields[i])]
    BY <2>1 DEF PartsOf, Number
  <2> QED
    BY <2>2 DEF fields
<1>2. PartsOf(d, <<"d">>) = [i \in 1..1 |-> Number(d, EcFields[i + 2])]
  <2> DEFINE fields == <<"d">>
  <2>1. DOMAIN fields = 1..1 /\ \A i \in 1..1 : fields[i] = EcFields[i + 2]
    BY FieldLists
  <2> HIDE DEF fields
  <2>2. PartsOf(d, fields) = [i \in 1..1 |-> Number(d, EcFields[i + 2])]
    BY <2>1 DEF PartsOf, Number
  <2> QED
    BY <2>2 DEF fields
<1> QED
  BY <1>1, <1>2 DEF EcFrom, FromNumbers

\* The fields there are, by the key that was written.
LEMMA FieldsThere ==
    ASSUME NEW key, NEW d
    PROVE  /\ /\ Consists(key, 6)
              /\ DOMAIN d.texts = {RsaFields[i] : i \in DOMAIN Parts(key)}
              => /\ Has(d, "n") /\ Has(d, "e") /\ (Has(d, "d") <=> IsPrivate(key))
                 /\ (Has(d, "qi") <=> IsPrivate(key))
                 /\ DOMAIN d.texts \subseteq {"n", "e", "d", "p", "q", "dp", "dq", "qi"}
                 /\ ~IsPrivate(key) => DOMAIN d.texts = {"n", "e"}
           /\ /\ Consists(key, 1)
              /\ DOMAIN d.texts = {EcFields[i] : i \in DOMAIN Parts(key)}
              => /\ DOMAIN d.texts = IF IsPrivate(key) THEN {"x", "y", "d"}
                                       ELSE {"x", "y"}
<1>1. \A i \in 1..8 : i = 1 \/ i = 2 \/ i = 3 \/ i = 4 \/ i = 5 \/ i = 6 \/ i = 7 \/ i = 8
  OBVIOUS
<1>2. /\ \A i \in 1..2 : i = 1 \/ i = 2
      /\ \A i \in 1..3 : i = 1 \/ i = 2 \/ i = 3
  OBVIOUS
<1>3. ASSUME Consists(key, 6),
             DOMAIN d.texts = {RsaFields[i] : i \in DOMAIN Parts(key)}
      PROVE  /\ Has(d, "n") /\ Has(d, "e") /\ (Has(d, "d") <=> IsPrivate(key))
             /\ (Has(d, "qi") <=> IsPrivate(key))
             /\ DOMAIN d.texts \subseteq {"n", "e", "d", "p", "q", "dp", "dq", "qi"}
             /\ ~IsPrivate(key) => DOMAIN d.texts = {"n", "e"}
  <2>1. CASE IsPrivate(key)
    <3>1. DOMAIN Parts(key) = 1..8
      BY <1>3, <2>1 DEF Consists
    <3>2. DOMAIN d.texts = {RsaFields[i] : i \in 1..8}
      BY <1>3, <3>1
    <3>3. DOMAIN d.texts = {"n", "e", "d", "p", "q", "dp", "dq", "qi"}
      BY <1>1, <3>2, Fields
    <3> QED
      BY <2>1, <3>3 DEF Has
  <2>2. CASE ~IsPrivate(key)
    <3>1. DOMAIN Parts(key) = 1..2
      BY <1>3, <2>2 DEF Consists
    <3>2. DOMAIN d.texts = {"n", "e"}
      BY <1>2, <1>3, <3>1, Fields
    <3> QED
      BY <2>2, <3>2 DEF Has
  <2> QED
    BY <2>1, <2>2
<1>4. ASSUME Consists(key, 1),
             DOMAIN d.texts = {EcFields[i] : i \in DOMAIN Parts(key)}
      PROVE  DOMAIN d.texts = IF IsPrivate(key) THEN {"x", "y", "d"} ELSE {"x", "y"}
  <2>1. CASE IsPrivate(key)
    <3>1. DOMAIN Parts(key) = 1..3
      BY <1>4, <2>1 DEF Consists
    <3> QED
      BY <1>2, <1>4, <2>1, <3>1, Fields
  <2>2. CASE ~IsPrivate(key)
    <3>1. DOMAIN Parts(key) = 1..2
      BY <1>4, <2>2 DEF Consists
    <3> QED
      BY <1>2, <1>4, <2>2, <3>1, Fields
  <2> QED
    BY <2>1, <2>2
<1> QED
  BY <1>3, <1>4

LEMMA RsaReads ==
    ASSUME NEW d, NEW key, Known(key), key.family = "RSA", RsaDoc(d, key)
    PROVE  Imported(d) = Object(key) /\ ~Refused(d)
<1>1. /\ Consists(key, 6) /\ key.part = ""
      /\ key.pub[2] \in 3..(key.pub[1] - 1) /\ key.pub[2] % 2 = 1
      /\ IsPrivate(key) => key \in Genuine
      /\ key = Key(key.family, key.part, key.pub, key.priv)
  BY RsaParts
<1>2. /\ d.kty = "RSA" /\ d.crv = ""
      /\ \A i \in DOMAIN Parts(key) : Number(d, RsaFields[i]) = Parts(key)[i]
  BY DEF RsaDoc
<1>3. Has(d, "d") <=> IsPrivate(key)
  BY <1>1, FieldsThere DEF RsaDoc
<1>a. Consists(key, 6)
  BY <1>1
<1> DEFINE pub == [i \in 1..2 |-> Number(d, RsaFields[i])]
           priv == IF Has(d, "d") THEN [i \in 1..6 |-> Number(d, RsaFields[i + 2])]
                     ELSE <<>>
<1>4. pub = key.pub
  <2>1. 1..2 \subseteq DOMAIN Parts(key)
    BY <1>a DEF Consists
  <2>2. pub = [i \in 1..2 |-> Parts(key)[i]]
    BY <1>2, <2>1
  <2> HIDE DEF pub
  <2> QED
    BY <1>a, <2>2 DEF Consists
<1>5. priv = key.priv
  <2>1. CASE IsPrivate(key)
    <3>1. DOMAIN Parts(key) = 1..8 /\ \A i \in 1..6 : i + 2 \in 1..8
      BY <1>a, <2>1 DEF Consists
    <3>2. priv = [i \in 1..6 |-> Parts(key)[i + 2]]
      BY <1>2, <1>3, <2>1, <3>1
    <3> HIDE DEF priv
    <3> QED
      BY <1>a, <2>1, <3>2 DEF Consists
  <2>2. CASE ~IsPrivate(key)
    BY <1>3, <2>2 DEF IsPrivate
  <2> QED
    BY <2>1, <2>2
<1>6. RsaFrom(d) = key
  <2>1. RsaFrom(d) = Key("RSA", "", pub, priv)
    BY <1>2, RsaFromIs
  <2> HIDE DEF pub, priv
  <2> QED
    BY <1>1, <1>4, <1>5, <2>1
<1>7. Imported(d) = Object(key)
  BY <1>2, <1>6 DEF Imported
<1>8. ~Refused(d)
  BY <1>1, <1>2, <1>3, <1>6 DEF Refused
<1> QED
  BY <1>7, <1>8

LEMMA EcReads ==
    ASSUME NEW d, NEW key, Known(key), key.family = "EC", EcDoc(d, key)
    PROVE  Imported(d) = Object(key) /\ ~Refused(d)
<1>1. /\ d.kty = "EC" /\ d.crv = key.part /\ key.part \in ExpectedCurves
      /\ DOMAIN d.texts = {EcFields[i] : i \in DOMAIN Parts(key)}
      /\ \A i \in DOMAIN Parts(key) : Number(d, EcFields[i]) = Parts(key)[i]
  BY DEF EcDoc
<1>2. /\ Consists(key, 1)
      /\ key \in Genuine \cup {PublicHalf(k) : k \in Genuine}
      /\ key = Key(key.family, key.part, key.pub, key.priv)
  BY <1>1, EcParts
<1>3. Has(d, "d") <=> IsPrivate(key)
  BY <1>1, <1>2, FieldsThere DEF Has
<1> DEFINE pub == [i \in 1..2 |-> Number(d, EcFields[i])]
           priv == IF Has(d, "d") THEN [i \in 1..1 |-> Number(d, EcFields[i + 2])]
                     ELSE <<>>
<1>4. pub = key.pub
  <2>1. 1..2 \subseteq DOMAIN Parts(key)
    BY <1>2 DEF Consists
  <2>2. pub = [i \in 1..2 |-> Parts(key)[i]]
    BY <1>1, <2>1
  <2> HIDE DEF pub
  <2> QED
    BY <1>2, <2>2 DEF Consists
<1>5. priv = key.priv
  <2>1. CASE IsPrivate(key)
    <3>1. DOMAIN Parts(key) = 1..3 /\ \A i \in 1..1 : i + 2 \in 1..3
      BY <1>2, <2>1 DEF Consists
    <3>2. priv = [i \in 1..1 |-> Parts(key)[i + 2]]
      BY <1>1, <1>3, <2>1, <3>1
    <3> HIDE DEF priv
    <3> QED
      BY <1>2, <2>1, <3>2 DEF Consists
  <2>2. CASE ~IsPrivate(key)
    BY <1>3, <2>2 DEF IsPrivate
  <2> QED
    BY <2>1, <2>2
<1>6. EcFrom(d) = key
  <2>1. EcFrom(d) = Key("EC", d.crv, pub, priv)
    BY <1>1, EcFromIs
  <2> HIDE DEF pub, priv
  <2> QED
    BY <1>1, <1>2, <1>4, <1>5, <2>1
<1>7. Imported(d) = Object(key)
  BY <1>1, <1>6 DEF Imported
<1>8. ~Refused(d)
  BY <1>1, <1>2, <1>6 DEF Refused
<1> QED
  BY <1>7, <1>8

\* Of a private Ed key "x" does not matter.
LEMMA OkpReads ==
    ASSUME NEW d, NEW key, Known(key), key.family = "OKP",
           d.kty = "OKP", d.crv = key.part, Has(d, "d") <=> IsPrivate(key),
           IF IsPrivate(key) THEN Bytes(d, "d") = key.priv
             ELSE Bytes(d, "x") = key.pub
    PROVE  Imported(d) = Object(key) /\ ~Refused(d)
<1>1. /\ key = Key(key.family, key.part, key.pub, key.priv)
      /\ IF IsPrivate(key) THEN key \in Genuine /\ GenuineOkp(key)
           ELSE key.priv = <<>>
  BY OkpParts
<1>2. CASE IsPrivate(key)
  <2> DEFINE found(k) == k.part = d.crv /\ k.priv = Bytes(d, "d")
  <2>1. key \in Genuine /\ found(key)
    BY <1>1, <1>2
  <2>2. \A k \in Genuine : found(k) => k = key
    BY <1>1, <1>2 DEF GenuineOkp
  <2> HIDE DEF found
  <2>3. (CHOOSE k \in Genuine : found(k)) = key
    BY <2>1, <2>2
  <2>4. OkpFrom(d) = CHOOSE k \in Genuine : found(k)
    BY <1>2 DEF OkpFrom, found
  <2> QED
    BY <2>3, <2>4 DEF Imported, Refused
<1>3. CASE ~IsPrivate(key)
  <2>1. OkpFrom(d) = key
    BY <1>1, <1>3 DEF OkpFrom
  <2> QED
    BY <2>1 DEF Imported, Refused
<1> QED
  BY <1>2, <1>3

LEMMA HmacReads ==
    ASSUME NEW d, NEW bytes, HmacDoc(d, bytes)
    PROVE  Imported(d) = TextOf(bytes) /\ ~Refused(d)
  BY DEF HmacDoc, Imported, Refused

-----------------------------------------------------------------------------
(* What the handlers say to the texts of a document.                        *)

LEMMA SortIsGood ==
    ASSUME NEW d, NEW fields, ~Refused(d),
           \A field \in fields \cap DOMAIN d.texts :
              /\ Decodable(d.texts[field])
              /\ d.crv \in DOMAIN Width => Len(Bytes(d, field)) = Width[d.crv]
    PROVE  SortOf(d, fields) = IF fields \cap DOMAIN d.texts = {} THEN "absent"
                                 ELSE "good"
  BY DEF SortOf

LEMMA SortIsShort ==
    ASSUME NEW d, NEW fields, NEW field \in fields \cap DOMAIN d.texts,
           d.crv \in DOMAIN Width,
           Decodable(d.texts[field]) => Len(Bytes(d, field)) # Width[d.crv]
    PROVE  SortOf(d, fields) \in {"undecodable", "short"}
  BY DEF SortOf

LEMMA SortIsRefused ==
    ASSUME NEW d, NEW fields, fields \cap DOMAIN d.texts # {},
           d.crv \notin DOMAIN Width, Refused(d)
    PROVE  SortOf(d, fields) \in {"undecodable", "refused"}
  BY DEF SortOf

\* PyJWK takes the handler of the name it is given or infers.
LEMMA VerdictIs ==
    ASSUME NEW a, NEW d, d.kty # ""
    PROVE  LET jwk == AsJwk(d)
               name == Jwk(a)!AlgorithmName(jwk)
           IN  /\ name = IF a # "" THEN a ELSE Jwk(a)!Inferred(jwk)
               /\ name \in Keyed =>
                     Jwk(a)!KeyVerdict(jwk) = Jwk(a)!FromJwk(name, jwk)
               /\ Jwk(a)!KeyVerdict(jwk) = "ok" => name \in Keyed
<1> DEFINE jwk == AsJwk(d)
           name == Jwk(a)!AlgorithmName(jwk)
<1>1. jwk.form = "object" /\ jwk.kty = d.kty /\ jwk.alg = "" /\ jwk.crv = d.crv
  BY DEF AsJwk
<1> HIDE DEF jwk
<1>2. name = IF a # "" THEN a ELSE Jwk(a)!Inferred(jwk)
  BY <1>1 DEF Jwk!AlgorithmName, Jwk!EmptyName
<1> HIDE DEF name
<1>3. Jwk(a)!DefaultAlgorithms = Keyed \cup {"none"}
  BY Names DEF Jwk!DefaultAlgorithms, Jwk!RequiresCryptography, Jwk!HmacNames,
     Jwk!RsaNames, Jwk!OkpNames, Jwk!EcNames, Jwk!ExpectedCurve, Keyed, Asymmetric
<1>4. "" \notin Keyed /\ "none" \notin Keyed
  BY Names DEF Keyed, Asymmetric
<1>5. Jwk(a)!KeyVerdict(jwk) =
        IF name = "" THEN "InvalidKeyError"
        ELSE IF name \notin Keyed \cup {"none"} THEN "PyJWKError"
        ELSE Jwk(a)!FromJwk(name, jwk)
  BY <1>1, <1>3 DEF Jwk!KeyVerdict, Jwk!Then, Jwk!Raise, Jwk!EmptyName, name
<1>6. Jwk(a)!FromJwk("none", jwk) = "NotImplementedError"
  BY DEF Jwk!FromJwk, Jwk!HmacNames, Jwk!RsaNames, Jwk!OkpNames, Jwk!EcNames,
     Jwk!ExpectedCurve
<1> QED
  BY <1>2, <1>4, <1>5, <1>6 DEF name, jwk

PrivateFields == {"d", "p", "q", "dp", "dq", "qi"}

LEMMA HandlerIs ==
    ASSUME NEW a, NEW name, NEW jwk
    PROVE  /\ name \in HmacNames => Jwk(a)!FromJwk(name, jwk) = Jwk(a)!HmacKey(jwk)
           /\ name \in RsaNames => Jwk(a)!FromJwk(name, jwk) = Jwk(a)!RsaKey(jwk)
           /\ name \in EcNames => Jwk(a)!FromJwk(name, jwk) = Jwk(a)!EcKey(jwk)
           /\ name \in OkpNames => Jwk(a)!FromJwk(name, jwk) = Jwk(a)!OkpKey(jwk)
<1>1. /\ Jwk(a)!HmacNames = HmacNames /\ Jwk(a)!RsaNames = RsaNames
      /\ Jwk(a)!EcNames = EcNames /\ Jwk(a)!OkpNames = OkpNames
  BY DEF HmacNames, RsaNames, EcNames, OkpNames, Jwk!HmacNames, Jwk!RsaNames,
     Jwk!EcNames, Jwk!OkpNames, Jwk!ExpectedCurve
<1> QED
  BY <1>1, Names DEF Jwk!FromJwk

\* FromJwk of each family, by what the texts are good for.
LEMMA HmacAccepts ==
    ASSUME NEW a, NEW name \in HmacNames, NEW d, d.kty = "oct",
           SortOf(d, {"k"}) = "good"
    PROVE  Jwk(a)!FromJwk(name, AsJwk(d)) = "ok"
<1> DEFINE jwk == AsJwk(d)
<1>1. jwk.kty = "oct" /\ jwk.k = "good"
  BY DEF AsJwk
<1> HIDE DEF jwk
<1>2. Jwk(a)!FromJwk(name, jwk) = Jwk(a)!HmacKey(jwk)
  BY HandlerIs
<1>3. Jwk(a)!HmacKey(jwk) = "ok"
  BY <1>1 DEF Jwk!HmacKey, Jwk!Then, Jwk!Raise, Jwk!Read
<1> QED
  BY <1>2, <1>3 DEF jwk

LEMMA RsaVerdict ==
    ASSUME NEW a, NEW name \in RsaNames, NEW d, d.kty = "RSA"
    PROVE  LET n == SortOf(d, {"n"})
               e == SortOf(d, {"e"})
               p == SortOf(d, PrivateFields)
               verdict == Jwk(a)!FromJwk(name, AsJwk(d))
           IN  /\ n = "good" /\ e = "good" /\ p \in {"absent", "good"} =>
                     verdict = "ok"
               /\ verdict = "ok" =>
                     /\ n \notin {"absent", "undecodable", "refused"}
                     /\ e \notin {"absent", "undecodable", "refused"}
                     /\ p \notin {"undecodable", "refused"}
<1> DEFINE jwk == AsJwk(d)
<1>1. /\ jwk.kty = "RSA" /\ jwk.n = SortOf(d, {"n"}) /\ jwk.e = SortOf(d, {"e"})
      /\ jwk.d = SortOf(d, PrivateFields)
      /\ jwk.crt # "some" /\ ~jwk.oth
  BY DEF AsJwk, PrivateFields
<1> HIDE DEF jwk
<1>2. Jwk(a)!FromJwk(name, jwk) = Jwk(a)!RsaKey(jwk)
  BY HandlerIs
<1>3. jwk.n = "good" /\ jwk.e = "good" /\ jwk.d \in {"absent", "good"} =>
        Jwk(a)!RsaKey(jwk) = "ok"
  BY <1>1 DEF Jwk!RsaKey, Jwk!RsaPublic, Jwk!RsaPrivate, Jwk!Then, Jwk!Raise,
     Jwk!Read
<1>4. Jwk(a)!RsaKey(jwk) = "ok" =>
        /\ jwk.n \notin {"absent", "undecodable", "refused"}
        /\ jwk.e \notin {"absent", "undecodable", "refused"}
        /\ jwk.d \notin {"undecodable", "refused"}
  BY <1>1 DEF Jwk!RsaKey, Jwk!RsaPublic, Jwk!RsaPrivate, Jwk!Then, Jwk!Raise,
     Jwk!Read
<1> QED
  BY <1>1, <1>2, <1>3, <1>4 DEF jwk

LEMMA EcVerdict ==
    ASSUME NEW a, NEW name \in EcNames, NEW d, d.kty = "EC",
           d.crv \in ExpectedCurves
    PROVE  LET x == SortOf(d, {"x"})
               y == SortOf(d, {"y"})
               p == SortOf(d, PrivateFields)
               verdict == Jwk(a)!FromJwk(name, AsJwk(d))
           IN  /\ x = "good" /\ y = "good" /\ p \in {"absent", "good"} =>
                     verdict = "ok"
               /\ verdict = "ok" =>
                     /\ x \notin {"undecodable", "short"}
                     /\ y \notin {"undecodable", "short"}
                     /\ p \notin {"undecodable", "short"}
<1> DEFINE jwk == AsJwk(d)
<1>1. /\ jwk.kty = "EC" /\ jwk.x = SortOf(d, {"x"}) /\ jwk.y = SortOf(d, {"y"})
      /\ jwk.d = SortOf(d, PrivateFields) /\ jwk.crv = d.crv
  BY DEF AsJwk, PrivateFields
<1> HIDE DEF jwk
<1>2. Jwk(a)!FromJwk(name, jwk) = Jwk(a)!EcKey(jwk)
  BY HandlerIs
<1>3. Jwk(a)!EcCurveVerdict(jwk) =
        IF "short" \in {jwk.x, jwk.y} THEN "InvalidKeyError" ELSE "ok"
  <2>1. ~(\A alg1 \in Jwk(a)!EcNames : jwk.crv # Jwk(a)!ExpectedCurve[alg1])
    <3>1. PICK other \in EcNames : d.crv = ExpectedCurve[other]
      BY DEF ExpectedCurves
    <3> QED
      BY <1>1, <3>1 DEF EcNames, ExpectedCurve, Jwk!EcNames, Jwk!ExpectedCurve
  <2> QED
    BY <2>1 DEF Jwk!EcCurveVerdict, Jwk!Raise
<1>4. jwk.x = "good" /\ jwk.y = "good" /\ jwk.d \in {"absent", "good"} =>
        Jwk(a)!EcKey(jwk) = "ok"
  BY <1>1, <1>3 DEF Jwk!EcKey, Jwk!EcPublic, Jwk!EcPrivate, Jwk!Then, Jwk!Raise,
     Jwk!Read
<1>5. Jwk(a)!EcKey(jwk) = "ok" =>
        /\ jwk.x \notin {"undecodable", "short"}
        /\ jwk.y \notin {"undecodable", "short"}
        /\ jwk.d \notin {"undecodable", "short"}
  BY <1>1, <1>3 DEF Jwk!EcKey, Jwk!EcPublic, Jwk!EcPrivate, Jwk!Then, Jwk!Raise,
     Jwk!Read
<1> QED
  BY <1>1, <1>2, <1>4, <1>5 DEF jwk

LEMMA OkpVerdict ==
    ASSUME NEW a, NEW name \in OkpNames, NEW d, d.kty = "OKP",
           d.crv \in {"Ed25519", "Ed448"}
    PROVE  LET x == SortOf(d, {"x"})
               p == SortOf(d, PrivateFields)
               verdict == Jwk(a)!FromJwk(name, AsJwk(d))
           IN  /\ x = "good" /\ p \in {"absent", "good"} => verdict = "ok"
               /\ verdict = "ok" =>
                     (IF p = "absent" THEN x ELSE p) \notin {"undecodable", "short"}
<1> DEFINE jwk == AsJwk(d)
<1>1. /\ jwk.kty = "OKP" /\ jwk.x = SortOf(d, {"x"})
      /\ jwk.d = SortOf(d, PrivateFields) /\ jwk.crv = d.crv
  BY DEF AsJwk, PrivateFields
<1> HIDE DEF jwk
<1>2. Jwk(a)!FromJwk(name, jwk) = Jwk(a)!OkpKey(jwk)
  BY HandlerIs
<1>3. jwk.x = "good" /\ jwk.d \in {"absent", "good"} => Jwk(a)!OkpKey(jwk) = "ok"
  BY <1>1 DEF Jwk!OkpKey, Jwk!Then, Jwk!Raise, Jwk!Read
<1>4. Jwk(a)!OkpKey(jwk) = "ok" =>
        (IF jwk.d = "absent" THEN jwk.x ELSE jwk.d) \notin {"undecodable", "short"}
  BY <1>1 DEF Jwk!OkpKey, Jwk!Then, Jwk!Raise, Jwk!Read
<1> QED
  BY <1>1, <1>2, <1>3, <1>4 DEF jwk

\* What PyJWK infers from "kty" and "crv".
LEMMA InferredIs ==
    ASSUME NEW a, NEW d
    PROVE  LET name == Jwk(a)!Inferred(AsJwk(d))
           IN  /\ d.kty = "oct" => name = "HS256"
               /\ d.kty = "RSA" => name = "RS256"
               /\ d.kty = "EC" /\ d.crv \in ExpectedCurves =>
                     name \in EcNames /\ ExpectedCurve[name] = d.crv
               /\ d.kty = "OKP" /\ d.crv = "Ed25519" => name = "EdDSA"
<1> DEFINE jwk == AsJwk(d)
           name == Jwk(a)!Inferred(jwk)
<1>1. jwk.kty = d.kty /\ jwk.crv = d.crv
  BY DEF AsJwk
<1> HIDE DEF jwk
<1>2. /\ jwk.kty = "oct" => name = "HS256"
      /\ jwk.kty = "RSA" => name = "RS256"
      /\ jwk.kty = "OKP" /\ jwk.crv = "Ed25519" => name = "EdDSA"
  BY DEF Jwk!Inferred, Jwk!EmptyName
<1>3. /\ jwk.kty = "EC" /\ jwk.crv = "P-256" => name = "ES256"
      /\ jwk.kty = "EC" /\ jwk.crv = "P-384" => name = "ES384"
      /\ jwk.kty = "EC" /\ jwk.crv = "P-521" => name = "ES512"
      /\ jwk.kty = "EC" /\ jwk.crv = "secp256k1" => name = "ES256K"
  BY DEF Jwk!Inferred, Jwk!EmptyName
<1> HIDE DEF name
<1>4. /\ ExpectedCurve["ES256"] = "P-256" /\ ExpectedCurve["ES384"] = "P-384"
      /\ ExpectedCurve["ES512"] = "P-521" /\ ExpectedCurve["ES521"] = "P-521"
      /\ ExpectedCurve["ES256K"] = "secp256k1"
  BY DEF ExpectedCurve, Jwk!ExpectedCurve
<1>5. d.crv \in ExpectedCurves =>
        d.crv = "P-256" \/ d.crv = "P-384" \/ d.crv = "P-521" \/ d.crv = "secp256k1"
  BY <1>4, Names DEF ExpectedCurves
<1> QED
  BY <1>1, <1>2, <1>3, <1>4, <1>5, Names DEF name, jwk

-----------------------------------------------------------------------------
(* A document on its way.                                                   *)

\* The text of one field became another.
Arrived(d, new, field, how) ==
    /\ field \in DOMAIN d.texts
    /\ new.kty = d.kty /\ new.crv = d.crv /\ DOMAIN new.texts = DOMAIN d.texts
    /\ \A other \in DOMAIN d.texts \ {field} : new.texts[other] = d.texts[other]
    /\ \E arrived \in Carried(d.texts[field]) :
          new.texts[field] = arrived.text /\ how = arrived.how

LEMMA WrittenShape ==
    ASSUME NEW name, NEW g
    PROVE  DOMAIN ToJwk(name, g) = {"verdict", "kty", "crv", "texts"}
<1>1. ToJwk(name, g) \in {HmacToJwk(g), RsaToJwk(g), EcToJwk(g), OkpToJwk(g),
                          NoDocument("NotImplementedError")}
  BY DEF ToJwk
<1>2. \A class : DOMAIN NoDocument(class) = {"verdict", "kty", "crv", "texts"}
  BY DEF NoDocument
<1>3. \A kty, crv, texts :
        DOMAIN Document(kty, crv, texts) = {"verdict", "kty", "crv", "texts"}
  BY DEF Document
<1>4. DOMAIN HmacToJwk(g) = {"verdict", "kty", "crv", "texts"}
  BY <1>2, <1>3 DEF HmacToJwk
<1>5. DOMAIN RsaToJwk(g) = {"verdict", "kty", "crv", "texts"}
  BY <1>2, <1>3 DEF RsaToJwk
<1>6. DOMAIN EcToJwk(g) = {"verdict", "kty", "crv", "texts"}
  BY <1>2, <1>3 DEF EcToJwk
<1>7. DOMAIN OkpToJwk(g) = {"verdict", "kty", "crv", "texts"}
  BY <1>2, <1>3 DEF OkpToJwk
<1> QED
  BY <1>1, <1>2, <1>4, <1>5, <1>6, <1>7

LEMMA CarryArrives ==
    ASSUME NEW d, DOMAIN d = {"verdict", "kty", "crv", "texts"},
           NEW field \in DOMAIN d.texts, NEW arrived \in Carried(d.texts[field])
    PROVE  Arrived(d, [d EXCEPT !.texts[field] = arrived.text], field, arrived.how)
<1> DEFINE texts == [d.texts EXCEPT ![field] = arrived.text]
           new == [d EXCEPT !.texts[field] = arrived.text]
<1>1. /\ DOMAIN texts = DOMAIN d.texts /\ texts[field] = arrived.text
      /\ \A other \in DOMAIN d.texts \ {field} : texts[other] = d.texts[other]
  OBVIOUS
<1>2. new.kty = d.kty /\ new.crv = d.crv /\ new.texts = texts
  OBVIOUS
<1> HIDE DEF texts, new
<1> QED
  BY <1>1, <1>2 DEF Arrived, new

LEMMA ArrivedMeans ==
    ASSUME NEW d, NEW new, NEW field, NEW how, Arrived(d, new, field, how),
           AllEncoded(d)
    PROVE  /\ how \in {"whole", "padded", "wrapped", "cut"}
           /\ how # "cut" => SameMeaning(new, d)
           /\ how \in {"whole", "padded"} =>
                 \A other \in DOMAIN new.texts : Decodable(new.texts[other])
           /\ \A other \in DOMAIN d.texts \ {field} :
                 Bytes(new, other) = Bytes(d, other)
           /\ how = "cut" /\ Decodable(new.texts[field]) =>
                 Len(Bytes(new, field)) # Len(Bytes(d, field))
<1>1. /\ field \in DOMAIN d.texts
      /\ new.kty = d.kty /\ new.crv = d.crv /\ DOMAIN new.texts = DOMAIN d.texts
      /\ \A other \in DOMAIN d.texts \ {field} : new.texts[other] = d.texts[other]
  BY DEF Arrived
<1>2. PICK arrived \in Carried(d.texts[field]) :
             new.texts[field] = arrived.text /\ how = arrived.how
  BY DEF Arrived
<1>3. Encoded(d.texts[field])
  BY <1>1 DEF AllEncoded
<1>4. /\ arrived.how \in {"whole", "padded", "wrapped", "cut"}
      /\ arrived.how # "cut" =>
            Base64urlDecode(arrived.text) = Base64urlDecode(d.texts[field])
      /\ arrived.how \in {"whole", "padded"} => Decodable(arrived.text)
      /\ arrived.how = "cut" /\ Decodable(arrived.text) =>
            Len(Base64urlDecode(arrived.text)) # Len(Base64urlDecode(d.texts[field]))
  <2> DEFINE text == d.texts[field]
  <2>1. Encoded(text) /\ arrived \in Carried(text)
    BY <1>3
  <2> HIDE DEF text
  <2> QED
    BY <2>1, CarriedText DEF text
<1>5. \A other \in DOMAIN d.texts \ {field} : Bytes(new, other) = Bytes(d, other)
  BY <1>1 DEF Bytes
<1>6. how # "cut" => SameMeaning(new, d)
  BY <1>1, <1>2, <1>4, <1>5 DEF SameMeaning, Bytes
<1>7. ASSUME how \in {"whole", "padded"}, NEW other \in DOMAIN new.texts
      PROVE  Decodable(new.texts[other])
  <2>1. CASE other = field
    BY <1>2, <1>4, <1>7, <2>1
  <2>2. CASE other # field
    <3>1. Encoded(d.texts[other]) /\ new.texts[other] = d.texts[other]
      BY <1>1, <1>7, <2>2 DEF AllEncoded
    <3>2. PICK bytes \in Seq(Byte) : d.texts[other] = Base64urlEncode(bytes)
      BY <3>1 DEF Encoded
    <3>3. Decodable(Base64urlEncode(bytes))
      BY BytesSurviveText
    <3> QED
      BY <3>1, <3>2, <3>3
  <2> QED
    BY <2>1, <2>2
<1> QED
  BY <1>2, <1>4, <1>5, <1>6, <1>7 DEF Bytes

-----------------------------------------------------------------------------
(* A document that means what was written.                                  *)

LEMMA WrittenReads ==
    ASSUME NEW name \in Keyed, NEW g, Told(g), ToJwk(name, g).verdict = "ok",
           NEW new, SameMeaning(new, ToJwk(name, g))
    PROVE  /\ Imported(new) = g /\ ~Refused(new)
           /\ \A field \in DOMAIN new.texts :
                 new.crv \in DOMAIN Width => Len(Bytes(new, field)) = Width[new.crv]
<1> DEFINE d == ToJwk(name, g)
<1>1. Told(g) => Known(g.key)
  BY DEF Told
<1>2. CASE name \in HmacNames
  <2>1. d = HmacToJwk(g)
    BY <1>2, KeyedFamilies
  <2>2. g = TextOf(g.bytes) /\ HmacDoc(HmacToJwk(g), g.bytes)
    BY <2>1, HmacWrites
  <2>3. HmacDoc(new, g.bytes)
    BY <2>1, <2>2, MeaningKept
  <2> QED
    BY <2>2, <2>3, HmacReads, WidthAssumption DEF HmacDoc
<1>3. CASE name \in RsaNames
  <2>1. d = RsaToJwk(g)
    BY <1>3, KeyedFamilies
  <2>2. /\ g = Object(g.key) /\ g.key.family = "RSA"
        /\ RsaDoc(RsaToJwk(g), g.key)
    BY <2>1, RsaWrites
  <2>3. RsaDoc(new, g.key)
    BY <2>1, <2>2, MeaningKept
  <2> QED
    BY <1>1, <2>2, <2>3, RsaReads, WidthAssumption DEF RsaDoc
<1>4. CASE name \in EcNames
  <2>1. d = EcToJwk(g)
    BY <1>4, KeyedFamilies
  <2>2. /\ g = Object(g.key) /\ g.key.family = "EC"
        /\ EcDoc(EcToJwk(g), g.key)
    BY <2>1, EcWrites
  <2>3. EcDoc(new, g.key)
    BY <2>1, <2>2, MeaningKept
  <2>4. Imported(new) = Object(g.key) /\ ~Refused(new)
    BY <1>1, <2>2, <2>3, EcReads
  <2> QED
    BY <2>2, <2>3, <2>4 DEF EcDoc
<1>5. CASE name \in OkpNames
  <2>1. d = OkpToJwk(g)
    BY <1>5, KeyedFamilies
  <2>2. /\ g = Object(g.key) /\ g.key.family = "OKP"
        /\ OkpDoc(OkpToJwk(g), g.key)
    BY <2>1, OkpWrites
  <2>3. OkpDoc(new, g.key)
    BY <2>1, <2>2, MeaningKept
  <2>4. Imported(new) = Object(g.key) /\ ~Refused(new)
    BY <1>1, <2>2, <2>3, OkpReads DEF OkpDoc, Has
  <2>5. /\ Len(g.key.pub) = Width[g.key.part]
        /\ IsPrivate(g.key) => Len(g.key.priv) = Width[g.key.part]
    BY <1>1, <2>2, OkpParts
  <2> QED
    BY <2>2, <2>3, <2>4, <2>5 DEF OkpDoc
<1> QED
  BY <1>2, <1>3, <1>4, <1>5, KeyedFamilies

\* What a name has in common with the handlers that read what it writes.
SameHandler(name, other) ==
    \/ name \in HmacNames /\ other \in HmacNames
    \/ name \in RsaNames /\ other \in RsaNames
    \/ name \in EcNames /\ other \in EcNames
    \/ name \in OkpNames /\ other \in OkpNames

\* What a written document has, whatever its texts became.
LEMMA WrittenHas ==
    ASSUME NEW name \in Keyed, NEW g, Told(g), ToJwk(name, g).verdict = "ok"
    PROVE  LET d == ToJwk(name, g)
           IN  /\ AllEncoded(d)
               /\ name \in HmacNames =>
                     /\ d.kty = "oct" /\ DOMAIN d.texts = {"k"}
                     /\ g.form = "text"
               /\ name \in RsaNames =>
                     /\ d.kty = "RSA" /\ Has(d, "n") /\ Has(d, "e")
                     /\ RsaDoc(d, g.key) /\ Known(g.key) /\ g.key.family = "RSA"
                     /\ g = Object(g.key)
               /\ name \in EcNames =>
                     /\ d.kty = "EC" /\ Has(d, "x") /\ Has(d, "y")
                     /\ DOMAIN d.texts \subseteq {"x", "y", "d"}
                     /\ EcDoc(d, g.key) /\ Known(g.key) /\ g.key.family = "EC"
                     /\ g = Object(g.key)
               /\ name \in OkpNames =>
                     /\ d.kty = "OKP" /\ Has(d, "x") /\ d.crv \in {"Ed25519", "Ed448"}
                     /\ OkpDoc(d, g.key) /\ Known(g.key) /\ g.key.family = "OKP"
                     /\ g = Object(g.key)
<1> DEFINE d == ToJwk(name, g)
<1>1. Told(g) => Known(g.key)
  BY DEF Told
<1>2. CASE name \in HmacNames
  <2>1. d = HmacToJwk(g)
    BY <1>2, KeyedFamilies
  <2>2. g.form = "text" /\ HmacDoc(HmacToJwk(g), g.bytes) /\ AllEncoded(HmacToJwk(g))
    BY <2>1, HmacWrites
  <2> HIDE DEF d
  <2> QED
    BY <1>2, <2>1, <2>2, Names DEF HmacDoc, d
<1>3. CASE name \in RsaNames
  <2>1. d = RsaToJwk(g)
    BY <1>3, KeyedFamilies
  <2>2. /\ g = Object(g.key) /\ g.key.family = "RSA"
        /\ RsaDoc(RsaToJwk(g), g.key) /\ AllEncoded(RsaToJwk(g))
    BY <2>1, RsaWrites
  <2>3. Consists(g.key, 6)
    BY <1>1, <2>2, RsaParts
  <2>4. Has(RsaToJwk(g), "n") /\ Has(RsaToJwk(g), "e")
    BY <2>2, <2>3, FieldsThere DEF RsaDoc
  <2>5. RsaToJwk(g).kty = "RSA"
    BY <2>2 DEF RsaDoc
  <2> HIDE DEF d
  <2> QED
    BY <1>1, <1>3, <2>1, <2>2, <2>4, <2>5, Names DEF d
<1>4. CASE name \in EcNames
  <2>1. d = EcToJwk(g)
    BY <1>4, KeyedFamilies
  <2>2. /\ g = Object(g.key) /\ g.key.family = "EC"
        /\ EcDoc(EcToJwk(g), g.key) /\ AllEncoded(EcToJwk(g))
    BY <2>1, EcWrites
  <2>3. Consists(g.key, 1)
    BY <1>1, <2>2, EcParts DEF EcDoc
  <2>4. DOMAIN EcToJwk(g).texts = IF IsPrivate(g.key) THEN {"x", "y", "d"}
                                    ELSE {"x", "y"}
    BY <2>2, <2>3, FieldsThere DEF EcDoc
  <2>5. EcToJwk(g).kty = "EC"
    BY <2>2 DEF EcDoc
  <2>6. /\ Has(EcToJwk(g), "x") /\ Has(EcToJwk(g), "y")
        /\ DOMAIN EcToJwk(g).texts \subseteq {"x", "y", "d"}
    BY <2>4 DEF Has
  <2> HIDE DEF d
  <2> QED
    BY <1>1, <1>4, <2>1, <2>2, <2>5, <2>6, Names DEF d
<1>5. CASE name \in OkpNames
  <2>1. d = OkpToJwk(g)
    BY <1>5, KeyedFamilies
  <2>2. /\ g = Object(g.key) /\ g.key.family = "OKP"
        /\ OkpDoc(OkpToJwk(g), g.key) /\ AllEncoded(OkpToJwk(g))
    BY <2>1, OkpWrites
  <2>3. OkpToJwk(g).kty = "OKP" /\ Has(OkpToJwk(g), "x")
    BY <2>2 DEF OkpDoc, Has
  <2>4. OkpToJwk(g).crv \in {"Ed25519", "Ed448"}
    BY <1>1, <2>2, OkpParts DEF OkpDoc
  <2> HIDE DEF d
  <2> QED
    BY <1>1, <1>5, <2>1, <2>2, <2>3, <2>4, Names DEF d
<1> QED
  BY <1>2, <1>3, <1>4, <1>5, KeyedFamilies

LEMMA WrittenIsAccepted ==
    ASSUME NEW name \in Keyed, NEW g, Told(g), ToJwk(name, g).verdict = "ok",
           NEW new, SameMeaning(new, ToJwk(name, g)),
           \A field \in DOMAIN new.texts : Decodable(new.texts[field]),
           NEW a, NEW other, SameHandler(name, other)
    PROVE  Jwk(a)!FromJwk(other, AsJwk(new)) = "ok"
<1> DEFINE d == ToJwk(name, g)
<1>1. \A fields : SortOf(new, fields) = IF fields \cap DOMAIN new.texts = {}
                                          THEN "absent" ELSE "good"
  <2> TAKE fields
  <2>1. /\ ~Refused(new)
        /\ \A field \in DOMAIN new.texts :
              new.crv \in DOMAIN Width => Len(Bytes(new, field)) = Width[new.crv]
    BY WrittenReads
  <2> QED
    BY <2>1, SortIsGood
<1>2. SortOf(new, PrivateFields) \in {"absent", "good"}
  BY <1>1
<1>3. /\ new.kty = d.kty /\ new.crv = d.crv /\ DOMAIN new.texts = DOMAIN d.texts
  BY DEF SameMeaning
<1>4. \A field : Has(d, field) => SortOf(new, {field}) = "good"
  BY <1>1, <1>3 DEF Has
<1> HIDE DEF d
<1>5. CASE name \in HmacNames /\ other \in HmacNames
  BY <1>3, <1>4, <1>5, WrittenHas, HmacAccepts DEF d, Has
<1>6. CASE name \in RsaNames /\ other \in RsaNames
  <2>1. d.kty = "RSA" /\ Has(d, "n") /\ Has(d, "e")
    BY <1>6, WrittenHas DEF d
  <2> QED
    BY <1>2, <1>3, <1>4, <1>6, <2>1, RsaVerdict
<1>7. CASE name \in EcNames /\ other \in EcNames
  <2>1. d.kty = "EC" /\ Has(d, "x") /\ Has(d, "y") /\ d.crv \in ExpectedCurves
    BY <1>7, WrittenHas DEF d, EcDoc
  <2> QED
    BY <1>2, <1>3, <1>4, <1>7, <2>1, EcVerdict
<1>8. CASE name \in OkpNames /\ other \in OkpNames
  <2>1. d.kty = "OKP" /\ Has(d, "x") /\ d.crv \in {"Ed25519", "Ed448"}
    BY <1>8, WrittenHas DEF d
  <2> QED
    BY <1>2, <1>3, <1>4, <1>8, <2>1, OkpVerdict
<1> QED
  BY <1>5, <1>6, <1>7, <1>8 DEF SameHandler

\* The name a document written under "name" is read under, and what is left
\* to its handler.
ReadAs(name, new, a) ==
    LET jwk == AsJwk(new)
        other == Jwk(a)!AlgorithmName(jwk)
        verdict == Jwk(a)!KeyVerdict(jwk)
    IN  \/ /\ SameHandler(name, other) /\ other \in Keyed
           /\ verdict = Jwk(a)!FromJwk(other, jwk)
           /\ other = name \/ other \in {"HS256", "RS256"}
              \/ (other \in EcNames /\ ExpectedCurve[other] = new.crv)
        \/ verdict # "ok" /\ a = "" /\ new.crv = "Ed448"

LEMMA ReadUnder ==
    ASSUME NEW name \in Keyed, NEW g, Told(g), ToJwk(name, g).verdict = "ok",
           NEW new, new.kty = ToJwk(name, g).kty, new.crv = ToJwk(name, g).crv,
           NEW a \in {"", name}
    PROVE  ReadAs(name, new, a)
<1> DEFINE d == ToJwk(name, g)
           jwk == AsJwk(new)
           other == Jwk(a)!AlgorithmName(jwk)
<1>1. /\ name \in HmacNames => d.kty = "oct"
      /\ name \in RsaNames => d.kty = "RSA"
      /\ name \in EcNames => d.kty = "EC" /\ d.crv \in ExpectedCurves
      /\ name \in OkpNames => d.kty = "OKP" /\ d.crv \in {"Ed25519", "Ed448"}
  BY WrittenHas DEF EcDoc
<1>2. new.kty = d.kty /\ new.crv = d.crv
  OBVIOUS
<1>3. name \in HmacNames \/ name \in RsaNames \/ name \in EcNames \/ name \in OkpNames
  BY KeyedFamilies
<1> HIDE DEF d
<1>4. new.kty # ""
  BY <1>1, <1>2, <1>3
<1>5. /\ other = IF a # "" THEN a ELSE Jwk(a)!Inferred(jwk)
      /\ other \in Keyed =>
            Jwk(a)!KeyVerdict(jwk) = Jwk(a)!FromJwk(other, jwk)
      /\ Jwk(a)!KeyVerdict(jwk) = "ok" => other \in Keyed
  BY <1>4, VerdictIs
<1>6. CASE a = name
  <2>1. name # ""
    BY Names DEF Keyed, Asymmetric
  <2>2. other = name
    BY <1>5, <1>6, <2>1
  <2> HIDE DEF other, jwk
  <2> QED
    BY <1>3, <1>5, <2>2 DEF SameHandler, ReadAs, other, jwk
<1>7. CASE a = ""
  <2> DEFINE inferred == Jwk(a)!Inferred(jwk)
  <2>1. /\ new.kty = "oct" => inferred = "HS256"
        /\ new.kty = "RSA" => inferred = "RS256"
        /\ new.kty = "EC" /\ new.crv \in ExpectedCurves =>
              inferred \in EcNames /\ ExpectedCurve[inferred] = new.crv
        /\ new.kty = "OKP" /\ new.crv = "Ed25519" => inferred = "EdDSA"
    BY InferredIs
  <2>2. other = inferred
    BY <1>5, <1>7
  <2> HIDE DEF other, jwk, inferred
  <2>3. CASE name \in HmacNames
    <3>1. other = "HS256"
      BY <1>1, <1>2, <2>1, <2>2, <2>3
    <3>2. other \in HmacNames /\ other \in Keyed
      BY <3>1, Names DEF Keyed
    <3> QED
      BY <1>5, <2>3, <3>1, <3>2 DEF SameHandler, ReadAs, other, jwk
  <2>4. CASE name \in RsaNames
    <3>1. other = "RS256"
      BY <1>1, <1>2, <2>1, <2>2, <2>4
    <3>2. other \in RsaNames /\ other \in Keyed
      BY <3>1, Names DEF Keyed, Asymmetric
    <3> QED
      BY <1>5, <2>4, <3>1, <3>2 DEF SameHandler, ReadAs, other, jwk
  <2>5. CASE name \in EcNames
    <3>1. other \in EcNames /\ ExpectedCurve[other] = new.crv
      BY <1>1, <1>2, <2>1, <2>2, <2>5
    <3>2. other \in Keyed
      BY <3>1 DEF Keyed, Asymmetric
    <3> QED
      BY <1>5, <2>5, <3>1, <3>2 DEF SameHandler, ReadAs, other, jwk
  <2>6. CASE name \in OkpNames /\ new.crv = "Ed25519"
    <3>1. other = "EdDSA" /\ name = "EdDSA"
      BY <1>1, <1>2, <2>1, <2>2, <2>6, Names
    <3>2. other \in OkpNames /\ other \in Keyed
      BY <3>1, Names DEF Keyed, Asymmetric
    <3> QED
      BY <1>5, <2>6, <3>1, <3>2 DEF SameHandler, ReadAs, other, jwk
  <2>7. CASE name \in OkpNames /\ new.crv = "Ed448"
    <3>1. new.kty = "OKP"
      BY <1>1, <1>2, <2>7
    <3>2. inferred = ""
      BY <2>7, <3>1 DEF inferred, jwk, AsJwk, Jwk!Inferred, Jwk!EmptyName
    <3>3. other \notin Keyed
      BY <2>2, <3>2, Names DEF Keyed, Asymmetric
    <3> QED
      BY <1>5, <1>7, <2>7, <3>3 DEF ReadAs, other, jwk
  <2> QED
    BY <1>1, <1>2, <1>3, <2>3, <2>4, <2>5, <2>6, <2>7
<1> QED
  BY <1>6, <1>7

-----------------------------------------------------------------------------
(* A document that lost the end of a text.                                  *)

LEMMA Places ==
    /\ \A j \in 1..8 : j \in 1..2 \/ j \in 3..8
    /\ \A j \in 3..8 : j - 2 \in 1..6 /\ (j - 2) + 2 = j
  OBVIOUS

LEMMA ObjectIs ==
    ASSUME NEW key
    PROVE  Object(key).key = key /\ Object(key).form = "object"
  BY DEF Object, Given

LEMMA NumbersOfRsaFrom ==
    ASSUME NEW d, d.kty = "RSA", d.crv = "", Has(d, "d"), RsaFrom(d) \in Genuine
    PROVE  /\ RsaFrom(d).family = "RSA"
           /\ \A j \in 1..8 : Parts(RsaFrom(d))[j] = Number(d, RsaFields[j])
<1> DEFINE key == RsaFrom(d)
           pub == [i \in 1..2 |-> Number(d, RsaFields[i])]
           priv == [i \in 1..6 |-> Number(d, RsaFields[i + 2])]
<1>1. key.family = "RSA" /\ key.pub = pub /\ key.priv = priv
  <2>1. key = Key("RSA", "", pub, priv)
    BY RsaFromIs
  <2> HIDE DEF key, pub, priv
  <2> QED
    BY <2>1 DEF Key
<1>a. key \in Genuine
  OBVIOUS
<1> HIDE DEF key
<1>2. GenuineRsa(key) /\ IsPrivate(key)
  BY <1>1, <1>a, GenuineAssumption
<1>3. /\ key.pub \in Seq(Nat) /\ Len(key.pub) = 2
      /\ key.priv \in Seq(Nat) /\ Len(key.priv) = 6
  BY <1>2 DEF GenuineRsa
<1> HIDE DEF pub, priv
<1>4. /\ \A i \in 1..2 : Parts(key)[i] = key.pub[i]
      /\ \A i \in 1..6 : Parts(key)[i + 2] = key.priv[i]
  <2>1. /\ \A i \in 1..Len(key.pub) : Parts(key)[i] = key.pub[i]
        /\ \A i \in 1..Len(key.priv) : Parts(key)[i + Len(key.pub)] = key.priv[i]
    BY <1>3, JoinedParts
  <2> QED
    BY <1>3, <2>1
<1>5. ASSUME NEW j \in 1..2 PROVE Parts(key)[j] = Number(d, RsaFields[j])
  BY <1>1, <1>4 DEF pub
<1>6. ASSUME NEW j \in 3..8 PROVE Parts(key)[j] = Number(d, RsaFields[j])
  <2>1. j - 2 \in 1..6 /\ (j - 2) + 2 = j
    BY Places
  <2>2. Parts(key)[(j - 2) + 2] = key.priv[j - 2]
    BY <1>4, <2>1
  <2>3. priv[j - 2] = Number(d, RsaFields[(j - 2) + 2])
    BY <2>1 DEF priv
  <2> QED
    BY <1>1, <2>1, <2>2, <2>3
<1>7. \A j \in 1..8 : j \in 1..2 \/ j \in 3..8
  BY Places
<1> QED
  BY <1>1, <1>5, <1>6, <1>7 DEF key

LEMMA PublicRsaFrom ==
    ASSUME NEW d, d.kty = "RSA", ~Has(d, "d")
    PROVE  RsaFrom(d).priv = <<>>
  BY DEF RsaFrom, FromNumbers, Key

LEMMA CutRsaReads ==
    ASSUME NEW d, NEW key, Known(key), key.family = "RSA", RsaDoc(d, key),
           NEW new, NEW field \in DOMAIN d.texts,
           new.kty = d.kty, new.crv = d.crv, DOMAIN new.texts = DOMAIN d.texts,
           \A other \in DOMAIN d.texts \ {field} : Bytes(new, other) = Bytes(d, other),
           SortOf(new, PrivateFields) \notin {"undecodable", "refused"}
    PROVE  \/ Imported(new) = Object(key)
           \/ ~IsPrivate(Imported(new).key)
<1>1. /\ d.kty = "RSA" /\ d.crv = ""
      /\ DOMAIN d.texts = {RsaFields[i] : i \in DOMAIN Parts(key)}
      /\ \A i \in DOMAIN Parts(key) : Number(d, RsaFields[i]) = Parts(key)[i]
  BY DEF RsaDoc
<1>2. Consists(key, 6) /\ (IsPrivate(key) => GenuineRsa(key) /\ key \in Genuine)
  BY RsaParts
<1>3. Has(new, "d") <=> IsPrivate(key)
  <2>1. Has(d, "d") <=> IsPrivate(key)
    BY <1>1, <1>2, FieldsThere
  <2> QED
    BY <2>1 DEF Has
<1>4. Imported(new) = Object(RsaFrom(new))
  BY <1>1 DEF Imported
<1>5. Imported(new).key = RsaFrom(new)
  BY <1>4, ObjectIs
<1>6. CASE ~IsPrivate(key)
  <2>1. RsaFrom(new).priv = <<>>
    BY <1>1, <1>3, <1>6, PublicRsaFrom
  <2> QED
    BY <1>5, <2>1 DEF IsPrivate
<1>7. CASE IsPrivate(key)
  <2>1. Has(new, "d") /\ new.kty = "RSA" /\ new.crv = ""
    BY <1>1, <1>3, <1>7
  <2>2. ~Refused(new)
    <3>1. PrivateFields \cap DOMAIN new.texts # {}
      BY <2>1 DEF Has, PrivateFields
    <3>2. new.crv \notin DOMAIN Width
      BY <2>1, WidthAssumption
    <3> QED
      BY <3>1, <3>2, SortIsRefused
  <2>3. RsaFrom(new) \in Genuine
    BY <2>1, <2>2 DEF Refused
  <2>4. /\ RsaFrom(new).family = "RSA"
        /\ \A j \in 1..8 : Parts(RsaFrom(new))[j] = Number(new, RsaFields[j])
    BY <2>1, <2>3, NumbersOfRsaFrom
  <2>5. DOMAIN Parts(key) = 1..8
    BY <1>2, <1>7 DEF Consists
  <2>6. PICK i \in 1..8 : field = RsaFields[i]
    BY <1>1, <2>5
  <2>7. ASSUME NEW j \in (1..8) \ {i}
        PROVE  Parts(RsaFrom(new))[j] = Parts(key)[j]
    <3>1. RsaFields[j] # field /\ RsaFields[j] \in DOMAIN d.texts
      BY <1>1, <2>5, <2>6, <2>7, Fields
    <3>2. Bytes(new, RsaFields[j]) = Bytes(d, RsaFields[j])
      BY <3>1
    <3>3. Number(new, RsaFields[j]) = Number(d, RsaFields[j])
      BY <3>2 DEF Number, Bytes, FromBase64urlUint
    <3> QED
      BY <1>1, <2>4, <2>5, <2>7, <3>3
  <2>8. RsaFrom(new) = key
    <3>1. GenuineRsa(key)
      BY <1>2, <1>7
    <3> QED
      BY <2>3, <2>4, <2>6, <2>7, <3>1 DEF GenuineRsa
  <2> QED
    BY <1>4, <2>8
<1> QED
  BY <1>6, <1>7

LEMMA CutReads ==
    ASSUME NEW name \in Keyed, NEW g, Told(g), ToJwk(name, g).verdict = "ok",
           NEW new, NEW field, Arrived(ToJwk(name, g), new, field, "cut"),
           NEW a, NEW other, SameHandler(name, other),
           Jwk(a)!FromJwk(other, AsJwk(new)) = "ok"
    PROVE  \/ Imported(new) = g
           \/ new.kty = "oct"
           \/ new.kty = "RSA" /\ ~IsPrivate(Imported(new).key)
<1> DEFINE d == ToJwk(name, g)
<1>1. /\ field \in DOMAIN d.texts
      /\ new.kty = d.kty /\ new.crv = d.crv /\ DOMAIN new.texts = DOMAIN d.texts
  BY DEF Arrived
<1>2. /\ \A f \in DOMAIN d.texts \ {field} : Bytes(new, f) = Bytes(d, f)
      /\ Decodable(new.texts[field]) =>
            Len(Bytes(new, field)) # Len(Bytes(d, field))
  BY WrittenHas, ArrivedMeans
<1>3. \A f \in DOMAIN d.texts :
         d.crv \in DOMAIN Width => Len(Bytes(d, f)) = Width[d.crv]
  <2>1. SameMeaning(d, d)
    BY DEF SameMeaning
  <2> QED
    BY <2>1, WrittenReads
<1>4. ASSUME NEW fields, field \in fields, d.crv \in DOMAIN Width
      PROVE  SortOf(new, fields) \in {"undecodable", "short"}
  <2>1. Decodable(new.texts[field]) => Len(Bytes(new, field)) # Width[new.crv]
    BY <1>1, <1>2, <1>3, <1>4
  <2>2. field \in fields \cap DOMAIN new.texts /\ new.crv \in DOMAIN Width
    BY <1>1, <1>4
  <2> HIDE DEF d
  <2> QED
    BY <2>1, <2>2, SortIsShort
<1>5. CASE name \in HmacNames
  BY <1>1, <1>5, WrittenHas
<1>6. CASE name \in RsaNames
  <2>1. /\ d.kty = "RSA" /\ RsaDoc(d, g.key) /\ Known(g.key)
        /\ g.key.family = "RSA" /\ g = Object(g.key)
    BY <1>6, WrittenHas
  <2> HIDE DEF d
  <2>2. other \in RsaNames
    BY <1>6, Names DEF SameHandler
  <2>3. SortOf(new, PrivateFields) \notin {"undecodable", "refused"}
    BY <1>1, <2>1, <2>2, RsaVerdict
  <2> QED
    BY <1>1, <1>2, <2>1, <2>3, CutRsaReads
<1>7. CASE name \in EcNames
  <2>1. /\ d.kty = "EC" /\ DOMAIN d.texts \subseteq {"x", "y", "d"}
        /\ d.crv \in ExpectedCurves
    BY <1>7, WrittenHas DEF EcDoc
  <2> HIDE DEF d
  <2>2. other \in EcNames
    BY <1>7, Names DEF SameHandler
  <2>3. /\ SortOf(new, {"x"}) \notin {"undecodable", "short"}
        /\ SortOf(new, {"y"}) \notin {"undecodable", "short"}
        /\ SortOf(new, PrivateFields) \notin {"undecodable", "short"}
    BY <1>1, <2>1, <2>2, EcVerdict
  <2>4. d.crv \in DOMAIN Width
    BY <2>1, WidthAssumption
  <2>5. field \in {"x"} \/ field \in {"y"} \/ field \in PrivateFields
    BY <1>1, <2>1 DEF PrivateFields
  <2> QED
    BY <1>4, <2>3, <2>4, <2>5
<1>8. CASE name \in OkpNames
  <2>1. /\ d.kty = "OKP" /\ d.crv \in {"Ed25519", "Ed448"}
        /\ OkpDoc(d, g.key) /\ Known(g.key) /\ g.key.family = "OKP"
        /\ g = Object(g.key)
    BY <1>8, WrittenHas
  <2> HIDE DEF d
  <2>2. other \in OkpNames
    BY <1>8, Names DEF SameHandler
  <2>3. (IF SortOf(new, PrivateFields) = "absent" THEN SortOf(new, {"x"})
           ELSE SortOf(new, PrivateFields)) \notin {"undecodable", "short"}
    BY <1>1, <2>1, <2>2, OkpVerdict
  <2>4. d.crv \in DOMAIN Width
    BY <2>1, WidthAssumption
  <2>5. /\ d.crv = g.key.part
        /\ DOMAIN d.texts = IF IsPrivate(g.key) THEN {"x", "d"} ELSE {"x"}
        /\ IsPrivate(g.key) => Bytes(d, "d") = g.key.priv
    BY <2>1 DEF OkpDoc
  <2>6. field \notin PrivateFields
    BY <1>4, <2>3, <2>4
  <2>7. field = "x"
    BY <1>1, <2>5, <2>6 DEF PrivateFields
  <2>8. IsPrivate(g.key)
    <3>1. SUFFICES ASSUME ~IsPrivate(g.key) PROVE FALSE
      OBVIOUS
    <3>2. PrivateFields \cap DOMAIN new.texts = {}
      BY <1>1, <2>5, <3>1 DEF PrivateFields
    <3>3. SortOf(new, PrivateFields) = "absent"
      BY <3>2 DEF SortOf
    <3>4. SortOf(new, {"x"}) \in {"undecodable", "short"}
      BY <1>4, <2>4, <2>7
    <3> QED
      BY <2>3, <3>3, <3>4
  <2>9. Has(new, "d") /\ Bytes(new, "d") = g.key.priv
    BY <1>1, <1>2, <2>5, <2>7, <2>8 DEF Has
  <2>10. Imported(new) = Object(g.key)
    BY <1>1, <2>1, <2>5, <2>8, <2>9, OkpReads
  <2> QED
    BY <2>1, <2>10
<1> QED
  BY <1>5, <1>6, <1>7, <1>8, KeyedFamilies

-----------------------------------------------------------------------------
(* What prepare_key takes.                                                  *)

LEMMA UsableIsPrepared ==
    ASSUME NEW name \in Keyed, NEW k, NEW enforced, Usable(name, enforced, k)
    PROVE  PrepareSigningKey(name, k, enforced).verdict = "ok"
<1>1. Ok(k).verdict = "ok" /\ Ok(k).key = k
  BY DEF Ok
<1>2. PrepareKey(name, k) = Ok(k)
  <2>1. CASE name \in HmacNames
    <3>1. k.form = "text" /\ ~IsPemFormat(k) /\ ~IsSshKey(k)
      BY <2>1 DEF Usable
    <3>2. PrepareKey(name, k) = PrepareHmac(k)
      BY <2>1, Handlers
    <3> QED
      BY <3>1, <3>2 DEF PrepareHmac
  <2>2. CASE name \in Asymmetric
    <3>1. /\ k.form = "object" /\ k.key.family = FamilyOf(name)
          /\ name \in EcNames => k.key.part = ExpectedCurve[name]
      BY <2>2 DEF Usable, Fits
    <3>2. OwnObject(name, k)
      BY <3>1 DEF OwnObject
    <3>3. CASE name \in RsaNames
      BY <3>2, <3>3, Handlers DEF PrepareRsa
    <3>4. CASE name \in EcNames
      <4>1. OfCurve(name, Ok(k)) = Ok(k)
        BY <1>1, <3>1, <3>4 DEF OfCurve
      <4>2. PrepareKey(name, k) = PrepareEc(name, k)
        BY <3>4, Handlers
      <4> QED
        BY <3>2, <4>1, <4>2 DEF PrepareEc
    <3>5. CASE name \in OkpNames
      <4>1. OfFamily(name, Ok(k)) = Ok(k)
        BY <1>1, <3>1 DEF OfFamily
      <4>2. PrepareKey(name, k) = PrepareOkp(name, k)
        BY <3>5, Handlers
      <4> QED
        BY <3>1, <4>1, <4>2 DEF PrepareOkp
    <3> QED
      BY <2>2, <3>3, <3>4, <3>5 DEF Asymmetric
  <2> QED
    BY <2>1, <2>2 DEF Keyed
<1>3. enforced => ~TooShort(name, k)
  BY DEF Usable
<1> QED
  BY <1>1, <1>2, <1>3 DEF PrepareSigningKey

\* It passes a key on, or loads the one its text is of.
LEMMA PreparedFrom ==
    ASSUME NEW name, NEW g, PrepareKey(name, g).verdict = "ok"
    PROVE  PrepareKey(name, g).key \in {g, Object(g.key), Nothing}
<1> DEFINE Fine(result) == result.verdict = "ok" =>
                              result.key \in {g, Object(g.key), Nothing}
<1>1. \A class : Fine(Error(class))
  BY DEF Error
<1>2. Fine(Ok(g)) /\ Fine(Ok(Nothing))
  BY DEF Ok
<1>3. \A markers, private : Fine(Loaded(g, markers, private))
  BY DEF Loaded, Ok, Error
<1>4. Fine(LoadPemPublic(g)) /\ Fine(LoadPemPrivate(g)) /\ Fine(LoadSsh(g))
  <2> HIDE DEF Fine
  <2> QED
    BY <1>3 DEF LoadPemPublic, LoadPemPrivate, LoadSsh
<1>5. \A result : Fine(result) =>
        Fine(OfFamily(name, result)) /\ Fine(OfCurve(name, result))
  BY <1>1 DEF OfFamily, OfCurve
<1>6. \A first, second, classes :
        Fine(first) /\ Fine(second) => Fine(Rescued(first, classes, second))
  BY DEF Rescued
<1> HIDE DEF Fine
<1>7. Fine(PrepareHmac(g))
  BY <1>1, <1>2 DEF PrepareHmac
<1>8. Fine(PrepareNone(g))
  BY <1>1, <1>2 DEF PrepareNone
<1>9. Fine(PrepareRsa(name, g))
  <2> DEFINE first == OfFamily(name, IF g.marker = "ssh-rsa"
                                       THEN LoadSsh(g) ELSE LoadPemPrivate(g))
             second == OfFamily(name, LoadPemPublic(g))
             rest == Rescued(second, {"ValueError", "UnsupportedAlgorithm"},
                             Error("InvalidKeyError"))
  <2>1. Fine(first) /\ Fine(second)
    BY <1>4, <1>5
  <2> HIDE DEF first, second
  <2>2. Fine(rest)
    BY <1>1, <1>6, <2>1
  <2> HIDE DEF rest
  <2>3. Fine(Rescued(first, {"ValueError"}, rest))
    BY <1>6, <2>1, <2>2
  <2> QED
    BY <1>1, <1>2, <2>3 DEF PrepareRsa, first, second, rest
<1>10. Fine(PrepareEc(name, g))
  <2>1. Fine(EcPublic(name, g))
    BY <1>4, <1>5 DEF EcPublic
  <2>2. Fine(EcPrivate(name, g))
    BY <1>4, <1>5 DEF EcPrivate
  <2>3. Fine(Rescued(EcPublic(name, g), {"ValueError"}, EcPrivate(name, g)))
    BY <1>6, <2>1, <2>2
  <2> QED
    BY <1>1, <1>2, <1>5, <2>3 DEF PrepareEc
<1>11. Fine(PrepareOkp(name, g))
  BY <1>1, <1>2, <1>4, <1>5 DEF PrepareOkp
<1>12. Fine(PrepareKey(name, g))
  BY <1>7, <1>8, <1>9, <1>10, <1>11 DEF PrepareKey
<1> QED
  BY <1>12 DEF Fine

LEMMA PreparedIsTold ==
    ASSUME NEW name, NEW g, NEW enforced, Told(g),
           PrepareSigningKey(name, g, enforced).verdict = "ok"
    PROVE  Told(PrepareSigningKey(name, g, enforced).key)
<1> DEFINE k == PrepareKey(name, g).key
<1>1. /\ PrepareSigningKey(name, g, enforced) = PrepareKey(name, g)
      /\ PrepareKey(name, g).verdict = "ok"
  BY DEF PrepareSigningKey, Error
<1>2. k \in {g, Object(g.key), Nothing}
  BY <1>1, PreparedFrom
<1>3. Told(Object(g.key))
  <2>1. Known(g.key)
    BY DEF Told
  <2> QED
    BY <2>1, ObjectIs DEF Told
<1>4. Told(Nothing)
  <2>1. Nothing.key = NoKey /\ Nothing.form = "nothing"
    BY DEF Nothing, Given
  <2> QED
    BY <2>1 DEF Told, Known
<1> HIDE DEF k
<1>5. Told(k)
  BY <1>2, <1>3, <1>4
<1> QED
  BY <1>1, <1>5 DEF k

LEMMA WrittenIsKeyed ==
    ASSUME NEW name, NEW g, ToJwk(name, g).verdict = "ok"
    PROVE  name \in Keyed
<1>1. NoDocument("NotImplementedError").verdict # "ok"
  BY DEF NoDocument
<1> QED
  BY <1>1 DEF ToJwk, Keyed, Asymmetric

\* A key that is good for the name it was written under is good for the name
\* it is read under.
LEMMA UsableUnder ==
    ASSUME NEW name \in Keyed, NEW g, Told(g), ToJwk(name, g).verdict = "ok",
           NEW enforced, Usable(name, enforced, g),
           NEW other, SameHandler(name, other),
           \/ other = name
           \/ other \in {"HS256", "RS256"}
           \/ /\ other \in EcNames
              /\ ExpectedCurve[other] = ToJwk(name, g).crv
    PROVE  Usable(other, enforced, g)
<1>1. CASE other = name
  BY <1>1
<1>2. CASE name \in HmacNames /\ other \in HmacNames /\ other # name
  <2>1. other = "HS256" /\ other \notin EcNames /\ other \notin RsaNames
        /\ other \notin Asymmetric
    BY <1>2, Names DEF Asymmetric
  <2>2. g.form = "text" /\ g.bytes \in Seq(Byte)
    BY <1>2, WrittenHas DEF Told, Byte
  <2>3. Len(g.bytes) \in Nat
    BY <2>2
  <2>4. /\ MinimumLength[other] \in Nat /\ MinimumLength[name] \in Nat
        /\ MinimumLength[other] <= MinimumLength[name]
    BY <1>2, <2>1, LengthAssumption
  <2>5. Len(g.bytes) < MinimumLength[other] => Len(g.bytes) < MinimumLength[name]
    BY <2>3, <2>4
  <2>6. TooShort(other, g) => TooShort(name, g)
    BY <1>2, <2>1, <2>5 DEF TooShort
  <2> QED
    BY <1>2, <2>1, <2>6 DEF Usable
<1>3. CASE name \in RsaNames /\ other \in RsaNames /\ other # name
  <2>1. /\ other = "RS256" /\ other \notin EcNames /\ other \notin HmacNames
        /\ other \in Asymmetric /\ name \in Asymmetric
    BY <1>3, Names DEF Asymmetric
  <2>2. Known(g.key) /\ g.key.family = "RSA"
    BY <1>3, WrittenHas
  <2> DEFINE bits == BitLength[g.key.pub[1]]
  <2>3. bits \in Nat
    <3>1. Consists(g.key, 6)
      BY <2>2, RsaParts
    <3>2. 1 \in DOMAIN Parts(g.key) /\ Parts(g.key) \in Seq(Nat)
          /\ g.key.pub[1] = Parts(g.key)[1]
      BY <3>1 DEF Consists
    <3>3. g.key.pub[1] \in Nat
      BY <3>2
    <3> QED
      BY <3>3, OwnLength
  <2>4. /\ MinimumLength[other] \in Nat /\ MinimumLength[name] \in Nat
        /\ MinimumLength[other] <= MinimumLength[name]
    BY <1>3, <2>1, LengthAssumption
  <2> HIDE DEF bits
  <2>5. bits < MinimumLength[other] => bits < MinimumLength[name]
    BY <2>3, <2>4
  <2>6. TooShort(other, g) => TooShort(name, g)
    BY <1>3, <2>1, <2>5 DEF TooShort, bits
  <2>7. FamilyOf(other) = FamilyOf(name)
    BY <1>3, Handlers
  <2> QED
    BY <2>1, <2>6, <2>7 DEF Usable, Fits
<1>4. CASE name \in EcNames /\ other \in EcNames /\ other # name
  <2>1. /\ other \notin HmacNames /\ other \notin RsaNames
        /\ other \notin {"HS256", "RS256"}
        /\ other \in Asymmetric /\ name \in Asymmetric
    BY <1>4, Names DEF Asymmetric
  <2>2. ~TooShort(other, g)
    BY <2>1 DEF TooShort
  <2>3. ToJwk(name, g).crv = g.key.part
    BY <1>4, WrittenHas DEF EcDoc
  <2>4. FamilyOf(other) = FamilyOf(name)
    BY <1>4, Handlers
  <2>5. ExpectedCurve[other] = g.key.part
    BY <1>4, <2>1, <2>3
  <2> QED
    BY <2>1, <2>2, <2>4, <2>5 DEF Usable, Fits
<1>5. name \in OkpNames /\ other \in OkpNames => other = name
  BY Names
<1> QED
  BY <1>1, <1>2, <1>3, <1>4, <1>5 DEF SameHandler

-----------------------------------------------------------------------------
(* What a JWK is of, from the export to the import.                         *)

Written ==
    /\ alg \in Keyed
    /\ Told(exported.key)
    /\ ToJwk(alg, exported.key).verdict = "ok"
    /\ exported.prepared => Usable(alg, enforce, exported.key)

Alive == {"given", "ready", "signed", "sent", "judged"}

JInv ==
    /\ SInv
    /\ phase \in {"given", "ready"} /\ way = "none" => Told(given)
    /\ phase = "written" => Written /\ doc = ToJwk(alg, exported.key)
    /\ phase = "carried" =>
          /\ Written
          /\ \E field \in DOMAIN ToJwk(alg, exported.key).texts :
                Arrived(ToJwk(alg, exported.key), doc, field, way)
    /\ phase \in Alive /\ way # "none" => alg \in Keyed
    /\ phase = "given" /\ Unharmed /\ exported.prepared => Usable(alg, enforce, given)
    /\ ExportedKeyComesBack

LEMMA UnharmedIsCarried == Unharmed => way # "none" /\ way # "cut"
  BY DEF Unharmed

LEMMA InitJInv == Init => JInv
<1> SUFFICES ASSUME Init PROVE JInv
  OBVIOUS
<1>1. SInv
  BY InitIInv DEF Init, SInv
<1>2. Told(given)
  BY KeyLifeAssumption DEF Init
<1>3. phase = "given" /\ way = "none" /\ ~Unharmed
  BY DEF Init, Unharmed
<1> QED
  BY <1>1, <1>2, <1>3 DEF JInv, ExportedKeyComesBack

LEMMA PrepareKeeps == JInv /\ Prepare /\ SInv' => JInv'
<1> SUFFICES ASSUME JInv, Prepare, SInv' PROVE JInv'
  OBVIOUS
<1> DEFINE result == PrepareSigningKey(alg, given, enforce)
<1>1. phase = "given" /\ UNCHANGED <<alg, enforce, doc, way, exported>>
  BY DEF Prepare, Fail, journey
<1>2. (Unharmed' <=> Unharmed) /\ (way = "none" => Told(given))
      /\ (way # "none" => alg \in Keyed)
      /\ (Unharmed /\ exported.prepared => Usable(alg, enforce, given))
  BY <1>1 DEF JInv, Unharmed, Alive
<1>3. CASE result.verdict = "ok" /\ phase' = "ready" /\ given' = result.key
  <2>1. way = "none" => Told(given')
    BY <1>2, <1>3, PreparedIsTold
  <2> QED
    BY <1>1, <1>2, <1>3, <2>1 DEF JInv, ExportedKeyComesBack
<1>4. CASE result.verdict # "ok" /\ phase' = "refused"
  <2>1. ~(Unharmed /\ exported.prepared)
    BY <1>2, <1>4, UnharmedIsCarried, UsableIsPrepared
  <2> QED
    BY <1>1, <1>2, <1>4, <2>1 DEF JInv, ExportedKeyComesBack, Alive
<1> QED
  BY <1>3, <1>4 DEF Prepare, Fail

LEMMA ExportKeeps == JInv /\ Export /\ SInv' => JInv'
<1> SUFFICES ASSUME JInv, Export, SInv' PROVE JInv'
  OBVIOUS
<1> DEFINE written == ToJwk(alg, given)
<1>1. /\ phase \in {"given", "ready"} /\ way = "none" /\ way' = way
      /\ UNCHANGED <<alg, enforce>>
  BY DEF Export, Fail
<1>2. Told(given) /\ ~Unharmed'
  BY <1>1 DEF JInv, Unharmed
<1>3. CASE written.verdict = "ok" /\ phase' = "written" /\ doc' = written
           /\ exported' = [key |-> given, prepared |-> phase = "ready"]
  <2>1. exported'.key = given /\ exported'.prepared = (phase = "ready")
    BY <1>3
  <2>2. exported'.prepared => Usable(alg, enforce, given)
    BY <2>1 DEF JInv, SInv, IInv, Prepared
  <2>3. alg \in Keyed
    BY <1>3, WrittenIsKeyed
  <2> HIDE DEF written
  <2>4. Written' /\ doc' = ToJwk(alg', exported'.key)
    BY <1>1, <1>2, <1>3, <2>1, <2>2, <2>3 DEF Written, written
  <2> QED
    BY <1>1, <1>2, <1>3, <2>4 DEF JInv, ExportedKeyComesBack, Alive
<1>4. CASE phase' = "unwritten"
  BY <1>1, <1>2, <1>4 DEF JInv, ExportedKeyComesBack, Alive
<1> QED
  BY <1>3, <1>4 DEF Export, Fail

LEMMA CarryKeeps == JInv /\ Carry /\ SInv' => JInv'
<1> SUFFICES ASSUME JInv, Carry, SInv' PROVE JInv'
  OBVIOUS
<1> DEFINE d == ToJwk(alg, exported.key)
<1>1. /\ phase = "written" /\ phase' = "carried"
      /\ UNCHANGED <<alg, enforce, given, exported>>
      /\ \E field \in DOMAIN doc.texts : \E arrived \in Carried(doc.texts[field]) :
            /\ doc' = [doc EXCEPT !.texts[field] = arrived.text]
            /\ way' = arrived.how
  BY DEF Carry
<1>2. Written /\ doc = d
  BY <1>1 DEF JInv
<1>a. PICK field \in DOMAIN doc.texts : \E arrived \in Carried(doc.texts[field]) :
            /\ doc' = [doc EXCEPT !.texts[field] = arrived.text]
            /\ way' = arrived.how
  BY <1>1
<1>3. PICK arrived \in Carried(doc.texts[field]) :
            /\ doc' = [doc EXCEPT !.texts[field] = arrived.text]
            /\ way' = arrived.how
  BY <1>a
<1>4. DOMAIN doc = {"verdict", "kty", "crv", "texts"}
  BY <1>2, WrittenShape
<1>5. Arrived(doc, doc', field, way')
  BY <1>3, <1>4, CarryArrives
<1>6. Written'
  BY <1>1, <1>2 DEF Written
<1>7. \E f \in DOMAIN ToJwk(alg, exported.key)'.texts :
         Arrived(ToJwk(alg, exported.key)', doc', f, way')
  BY <1>1, <1>2, <1>5
<1> QED
  BY <1>1, <1>6, <1>7 DEF JInv, ExportedKeyComesBack, Alive

LEMMA ImportKeeps == JInv /\ Import /\ SInv' => JInv'
<1> SUFFICES ASSUME JInv, Import, SInv' PROVE JInv'
  OBVIOUS
<1> DEFINE d == ToJwk(alg, exported.key)
<1>1. phase = "carried" /\ UNCHANGED <<enforce, doc, way, exported>>
  BY DEF Import, Fail, journey
<1>2. Written /\ \E field \in DOMAIN d.texts : Arrived(d, doc, field, way)
  BY <1>1 DEF JInv
<1>3. PICK field \in DOMAIN d.texts : Arrived(d, doc, field, way)
  BY <1>2
<1>4. PICK argument \in {"", alg} :
        LET verdict == Jwk(argument)!KeyVerdict(AsJwk(doc))
        IN  \/ /\ verdict = "ok" /\ phase' = "given" /\ given' = Imported(doc)
               /\ alg' = Jwk(argument)!AlgorithmName(AsJwk(doc))
            \/ /\ verdict # "ok"
               /\ phase' = IF argument = "" THEN "unnamed" ELSE "lost"
  BY DEF Import, Fail
<1>5. /\ alg \in Keyed /\ Told(exported.key) /\ d.verdict = "ok"
      /\ exported.prepared => Usable(alg, enforce, exported.key)
  BY <1>2 DEF Written
<1>6. doc.kty = d.kty /\ doc.crv = d.crv
  BY <1>3 DEF Arrived
<1>7. /\ way \in {"whole", "padded", "wrapped", "cut"}
      /\ way # "cut" => SameMeaning(doc, d)
      /\ Unharmed => \A f \in DOMAIN doc.texts : Decodable(doc.texts[f])
  BY <1>3, <1>5, WrittenHas, ArrivedMeans DEF Unharmed
<1> DEFINE other == Jwk(argument)!AlgorithmName(AsJwk(doc))
           verdict == Jwk(argument)!KeyVerdict(AsJwk(doc))
<1>8. \/ /\ SameHandler(alg, other) /\ other \in Keyed
         /\ verdict = Jwk(argument)!FromJwk(other, AsJwk(doc))
         /\ other = alg \/ other \in {"HS256", "RS256"}
            \/ (other \in EcNames /\ ExpectedCurve[other] = doc.crv)
      \/ verdict # "ok" /\ argument = "" /\ doc.crv = "Ed448"
  <2>1. ReadAs(alg, doc, argument)
    BY <1>5, <1>6, ReadUnder
  <2> QED
    BY <2>1 DEF ReadAs
<1>9. Unharmed => way # "cut" /\ way # "none"
  BY UnharmedIsCarried
<1>10. Unharmed' <=> Unharmed
  BY <1>1 DEF Unharmed
<1>11. CASE verdict = "ok" /\ phase' = "given" /\ given' = Imported(doc) /\ alg' = other
  <2>1. /\ SameHandler(alg, other) /\ other \in Keyed
        /\ Jwk(argument)!FromJwk(other, AsJwk(doc)) = "ok"
        /\ other = alg \/ other \in {"HS256", "RS256"}
           \/ (other \in EcNames /\ ExpectedCurve[other] = d.crv)
    BY <1>6, <1>8, <1>11
  <2>2. way # "cut" => given' = exported.key
    BY <1>5, <1>7, <1>11, WrittenReads
  <2>3. way = "cut" => \/ given' = exported.key
                       \/ doc.kty = "oct"
                       \/ doc.kty = "RSA" /\ ~IsPrivate(given'.key)
    BY <1>3, <1>5, <1>11, <2>1, CutReads
  <2>4. Unharmed /\ exported.prepared => Usable(other, enforce, exported.key)
    BY <1>5, <2>1, UsableUnder
  <2>5. Unharmed /\ exported.prepared => Usable(alg', enforce', given')
    BY <1>1, <1>9, <1>11, <2>2, <2>4
  <2>6. alg' \in Keyed
    BY <1>11, <2>1
  <2> HIDE DEF d, other, verdict
  <2>7. ExportedKeyComesBack'
    BY <1>1, <1>11, <2>2, <2>3 DEF ExportedKeyComesBack
  <2>8. phase' = "given" /\ way' # "none"
    BY <1>1, <1>7, <1>11
  <2> QED
    BY <1>1, <1>10, <2>5, <2>6, <2>7, <2>8 DEF JInv
<1>12. CASE verdict # "ok" /\ phase' = IF argument = "" THEN "unnamed" ELSE "lost"
  <2>1. Unharmed => argument = "" /\ doc.crv = "Ed448"
    <3>1. ASSUME Unharmed, SameHandler(alg, other)
          PROVE  Jwk(argument)!FromJwk(other, AsJwk(doc)) = "ok"
      BY <1>5, <1>7, <1>9, <3>1, WrittenIsAccepted
    <3> QED
      BY <1>8, <1>12, <3>1
  <2> HIDE DEF d, other, verdict
  <2>2. ExportedKeyComesBack'
    BY <1>1, <1>10, <1>12, <2>1 DEF ExportedKeyComesBack
  <2>3. phase' \in {"unnamed", "lost"}
    BY <1>12
  <2> QED
    BY <2>2, <2>3 DEF JInv, Alive
<1> QED
  BY <1>4, <1>11, <1>12

LEMMA VerifyKeeps == JInv /\ VerifyIt /\ SInv' => JInv'
<1> SUFFICES ASSUME JInv, VerifyIt, SInv' PROVE JInv'
  OBVIOUS
<1>1. phase = "sent" /\ UNCHANGED <<alg, enforce, way, exported>>
  BY DEF VerifyIt, Fail, journey
<1>2. /\ way # "none" => alg \in Keyed
      /\ Usable(alg, enforce, given)
      /\ Unharmed' <=> Unharmed
  BY <1>1 DEF JInv, Alive, SInv, IInv, Prepared, Unharmed
<1>3. PICK held \in {given, WithPublicHalf(given)} :
        \/ phase' = "judged"
        \/ /\ phase' = "refused"
           /\ PrepareSigningKey(alg, held, enforce).verdict # "ok"
  BY DEF VerifyIt, Fail
<1>4. CASE phase' = "judged"
  BY <1>1, <1>2, <1>4 DEF JInv, ExportedKeyComesBack, Alive
<1>5. CASE phase' = "refused" /\ PrepareSigningKey(alg, held, enforce).verdict # "ok"
  <2>1. alg \in Keyed => Usable(alg, enforce, held)
    BY <1>2, <1>3, HalfIsUsable DEF Keyed
  <2>2. ~Unharmed
    BY <1>2, <1>5, <2>1, UsableIsPrepared, UnharmedIsCarried
  <2> QED
    BY <1>1, <1>2, <1>5, <2>2 DEF JInv, ExportedKeyComesBack, Alive
<1> QED
  BY <1>3, <1>4, <1>5

LEMMA NextJInv == JInv /\ [Next]_vars => JInv'
<1> SUFFICES ASSUME JInv, [Next]_vars PROVE JInv'
  OBVIOUS
<1>1. SInv'
  BY NextSInv DEF JInv
<1>2. CASE SignIt
  <2>1. /\ phase = "ready" /\ phase' \in {"signed", "unsigned"}
        /\ UNCHANGED <<alg, way>>
    BY <1>2 DEF SignIt, Fail, journey
  <2> QED
    BY <1>1, <2>1 DEF JInv, ExportedKeyComesBack, Alive
<1>3. CASE Alter
  <2>1. phase = "signed" /\ phase' = "sent" /\ UNCHANGED <<alg, way>>
    BY <1>3 DEF Alter, journey
  <2> QED
    BY <1>1, <2>1 DEF JInv, ExportedKeyComesBack, Alive
<1>4. CASE UNCHANGED vars
  <2>1. UNCHANGED <<alg, enforce, phase, given, doc, way, exported>>
    BY <1>4 DEF vars
  <2> QED
    BY <1>1, <2>1 DEF JInv, Written, Unharmed, ExportedKeyComesBack
<1> QED
  BY <1>1, <1>2, <1>3, <1>4, PrepareKeeps, ExportKeeps, CarryKeeps, ImportKeeps,
     VerifyKeeps DEF Next

(* Whatever key to_jwk writes, under whatever name and of whatever numbers: *)
(* from_jwk makes it again, for every writing of its texts, and a document  *)
(* that lost the end of a text never makes another key of its kind but where *)
(* nothing tells, in a secret and in a public RSA key.                      *)
THEOREM ExportedKeyComesBackHolds == Spec => []ExportedKeyComesBack
<1>1. JInv => ExportedKeyComesBack
  BY DEF JInv
<1> QED
  BY <1>1, InitJInv, NextJInv, PTL DEF Spec
=============================================================================
