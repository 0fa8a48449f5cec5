------------------------------ MODULE MCKeyLife ------------------------------
(* Small instances of KeyLife for TLC.  Keys are scaled down: two bytes for *)
(* the numbers of P-256, P-384 and secp256k1, three for P-521, whose size is  *)
(* one bit more than bytes hold.  Their numbers begin with zeros, and with  *)
(* none.                                                                    *)
EXTENDS KeyLife

Curves == {"P-256", "P-384", "P-521", "secp256k1"}
SmallKeySize == [crv \in Curves \cup {"brainpool"} |->
                    IF crv = "P-521" THEN 17 ELSE 16]
SmallWidth == [crv \in Curves \cup {"Ed25519", "Ed448"} |->
                  IF crv \in {"P-521", "Ed448"} THEN 3 ELSE 2]
SmallOrder == [crv \in Curves |-> IF crv = "P-521" THEN 131071 ELSE 65521]
SmallDraws == [crv \in Curves |->
                  {<<1, SmallOrder[crv] - 1>>, <<300, 20000>>,
                   <<SmallOrder[crv] - 3, 255>>}]
SmallMinimumLength ==
    [name \in HmacNames |-> CASE name = "HS256" -> 2 [] name = "HS384" -> 3
                              [] name = "HS512" -> 4]
    @@ [name \in RsaNames |-> 16]

Rsa == Key("RSA", "", <<60491, 17>>, <<42353, 241, 251, 113, 103, 217>>)
ShortRsa == Key("RSA", "", <<14351, 5>>, <<5645, 113, 127, 45, 101, 105>>)
P256 == Key("EC", "P-256", <<7, 4660>>, <<1>>)
AtZero == Key("EC", "P-256", <<0, 65000>>, <<60000>>)
Secp256k1 == Key("EC", "secp256k1", <<40000, 50000>>, <<258>>)
P521 == Key("EC", "P-521", <<100000, 255>>, <<70000>>)
LowP521 == Key("EC", "P-521", <<255, 65536>>, <<3>>)
Brainpool == Key("EC", "brainpool", <<5, 6>>, <<7>>)
Ed25519 == Key("OKP", "Ed25519", <<0, 9>>, <<0, 0>>)
Ed448 == Key("OKP", "Ed448", <<1, 2, 3>>, <<0, 255, 4>>)
Dsa == Key("DSA", "", <<1, 2>>, <<3>>)

GenuineKeys == {Rsa, ShortRsa, P256, AtZero, Secp256k1, P521, LowP521,
                Brainpool, Ed25519, Ed448, Dsa}

\* What there are texts of, and the states they are in.
Markings ==
    <<<<"PUBLIC KEY", Rsa>>, <<"PUBLIC KEY", P256>>, <<"PUBLIC KEY", P521>>,
      <<"PUBLIC KEY", Ed25519>>, <<"PUBLIC KEY", Dsa>>,
      <<"RSA PUBLIC KEY", ShortRsa>>, <<"CERTIFICATE", NoKey>>,
      <<"ssh-rsa", Rsa>>, <<"ssh-ed25519", Ed25519>>, <<"ssh-dss", Dsa>>,
      <<"ecdsa-sha2-nistp256", P256>>, <<"ecdsa-sha2-nistp521", LowP521>>,
      <<"PRIVATE KEY", Rsa>>, <<"PRIVATE KEY", AtZero>>,
      <<"PRIVATE KEY", Secp256k1>>, <<"PRIVATE KEY", Ed448>>,
      <<"PRIVATE KEY", Dsa>>, <<"ENCRYPTED PRIVATE KEY", Rsa>>,
      <<"RSA PRIVATE KEY", ShortRsa>>, <<"EC PRIVATE KEY", P521>>,
      <<"EC PRIVATE KEY", Secp256k1>>, <<"DSA PRIVATE KEY", Dsa>>,
      <<"OPENSSH PRIVATE KEY", Ed25519>>>>
Publics == 1..12
States == <<"whole", "cut", "broken", "unsupported", "loose", "encrypted">>
SshTexts == 8..12

\* Only a private key is encrypted, and only a PEM text has a layout.
StatesOf(i) == (IF i \in Publics THEN 1..5 ELSE 1..6)
               \ (IF i \in SshTexts THEN {5} ELSE {})

KeyText(i, j) ==
    Given("text", Markings[i][1], States[j],
          IF i \in Publics THEN PublicHalf(Markings[i][2]) ELSE Markings[i][2],
          <<45, i, j>>)

KeyTexts == UNION {{KeyText(i, j) : j \in StatesOf(i)} : i \in DOMAIN Markings}

Objects == {Object(key) : key \in GenuineKeys \cup {PublicHalf(k) : k \in GenuineKeys}}

InvalidUtf8 == {<<250, 251, 252, 253, 254>>}

Secrets == {Secret(bytes) : bytes \in
               {<<>>, <<0>>, <<0, 7>>, <<1, 2, 3>>, <<0, 0, 0, 0>>} \cup InvalidUtf8}

AllGivens == KeyTexts \cup Objects \cup Secrets
             \cup {Nothing, Given("other", "", "whole", NoKey, <<>>)}

AllAlgorithms == HmacNames \cup RsaNames \cup EcNames \cup OkpNames \cup {"none"}
=============================================================================
