---------------------------- MODULE Config_proofs ----------------------------
(***************************************************************************)
(* Proofs about Config, for any connection strings, texts and widths of    *)
(* integers.  The argument: at most one item decides about a name, so each *)
(* setting has at most one value; and a conversion to 32 bits happens only *)
(* when everything fits, where it changes nothing.                         *)
(***************************************************************************)
EXTENDS Config, CStrings_proofs

\* A configuration has an API key or a user with a password.
Credentialed(c) ==
    \/ c.apiKey = {} /\ c.username # {} /\ c.password # {}
    \/ c.apiKey # {} /\ c.username = {} /\ c.password = {}

\* The inductive invariant.  A configuration that was parsed says what its URL says, and
\* the C structure was made from the configuration when everything fitted.
ConfigInv ==
    /\ TypeOK
    /\ \A c \in config :
         /\ Credentialed(c)
         /\ \A u \in url : c = Parsed(u)
    /\ \A s \in handed, c \in config : s = Struct(c) /\ Fits(c)

-----------------------------------------------------------------------------
(* Query items *)

\* The first item of a name decides: the value is its value.
LEMMA FirstDecides ==
    ASSUME NEW items \in Seq([name : STRING, value : Optional(Texts)]),
           NEW i \in DOMAIN items, \A k \in 1 .. i - 1 : items[k].name # items[i].name
    PROVE  ValueOf(items, items[i].name) = items[i].value
<1> DEFINE name == items[i].name
           First == {k \in Named(items, name) : \A l \in Named(items, name) : k <= l}
<1>1. DOMAIN items = 1 .. Len(items) /\ Len(items) \in Nat
  OBVIOUS
<1>2. i \in Named(items, name)
  BY DEF Named
<1>3. \A l \in Named(items, name) : i <= l
  BY <1>1 DEF Named
<1>4. First = {i}
  <2>1. i \in First
    BY <1>2, <1>3
  <2>2. \A k \in First : k <= i /\ i <= k /\ k \in Int
    BY <1>1, <1>2, <1>3 DEF Named
  <2>3. \A k \in First : k = i
    BY <1>1, <2>2
  <2> QED
    BY <2>1, <2>3
<1> QED
  BY <1>4 DEF ValueOf

\* A name has at most one value.
LEMMA ValueType ==
    ASSUME NEW items \in Seq([name : STRING, value : Optional(Texts)]), NEW name
    PROVE  ValueOf(items, name) \in Optional(Texts)
<1> DEFINE First == {k \in Named(items, name) : \A l \in Named(items, name) : k <= l}
<1>1. DOMAIN items = 1 .. Len(items) /\ Len(items) \in Nat
  OBVIOUS
<1>2. \A k, l \in First : k = l
  <2>1. \A k, l \in First : k <= l /\ l <= k /\ k \in Int /\ l \in Int
    BY <1>1 DEF Named
  <2> QED
    BY <2>1
<1>3. \A k \in First : items[k].value \in Optional(Texts)
  <2>1. \A k \in DOMAIN items : items[k] \in [name : STRING, value : Optional(Texts)]
    <3> DEFINE S == [name : STRING, value : Optional(Texts)]
    <3>1. items \in Seq(S)
      OBVIOUS
    <3> HIDE DEF S
    <3>2. \A k \in DOMAIN items : items[k] \in S
      BY <3>1
    <3> QED
      BY <3>2 DEF S
  <2>2. \A k \in First : k \in DOMAIN items
    BY DEF Named
  <2> HIDE DEF First
  <2> QED
    BY <2>1, <2>2
<1>4. CASE First = {}
  BY <1>4 DEF ValueOf, Optional
<1>5. CASE First # {}
  <2>1. PICK k \in First : First = {k}
    BY <1>2, <1>5
  <2>2. ValueOf(items, name) = items[k].value
    BY <2>1 DEF ValueOf
  <2> QED
    BY <1>3, <2>2
<1> QED
  BY <1>4, <1>5

\* A number that is read is in the range of its type.
LEMMA NumberType ==
    ASSUME NEW items \in Seq([name : STRING, value : Optional(Texts)]), NEW name,
           NEW max \in Nat
    PROVE  NumberIn(items, name, max) \in To(max)
<1>1. ValueOf(items, name) \in Optional(Texts)
  BY ValueType
<1>2. 0 \in To(max)
  BY DEF To
<1> QED
  BY <1>1, <1>2 DEF NumberIn, Optional

\* What is written in the deciding item is what is read.
LEMMA NumberRead ==
    ASSUME NEW items \in Seq([name : STRING, value : Optional(Texts)]), NEW name,
           NEW max \in Nat, NEW x \in ValueOf(items, name)
    PROVE  NumberIn(items, name, max)
             = IF x \in DOMAIN NumberOf /\ NumberOf[x] \in To(max) THEN NumberOf[x] ELSE 0
<1>1. \A y \in ValueOf(items, name) : y = x
  BY ValueType DEF Optional
<1> QED
  BY <1>1 DEF NumberIn

\* The same for a truth value.
LEMMA FlagRead ==
    ASSUME NEW items \in Seq([name : STRING, value : Optional(Texts)]), NEW name,
           NEW x \in ValueOf(items, name)
    PROVE  FlagIn(items, name) <=> (x \in DOMAIN TruthOf /\ TruthOf[x])
<1>1. \A y \in ValueOf(items, name) : y = x
  BY ValueType DEF Optional
<1> QED
  BY <1>1 DEF FlagIn

-----------------------------------------------------------------------------
(* Conversions *)

\* Int32() of a number that fits changes nothing.
LEMMA FittingIsKept == \A x \in To(Int32Max) : Int32Of(x) = x
<1> SUFFICES ASSUME NEW x \in To(Int32Max) PROVE Int32Of(x) = x
  OBVIOUS
<1>1. Int32Max \in Nat
  BY ConfigAssumption
<1>2. x \in Int /\ x + Int32Max + 1 \in 0 .. (2 * Int32Max + 2) - 1
  BY <1>1 DEF To
<1>3. \A m \in Nat, y \in Nat : y < m => y % m = y
  OBVIOUS
<1>4. (x + Int32Max + 1) % (2 * Int32Max + 2) = x + Int32Max + 1
  BY <1>1, <1>2, <1>3
<1> QED
  BY <1>1, <1>2, <1>4 DEF Int32Of

-----------------------------------------------------------------------------
(* The inductive invariant *)

\* A family is one of the three.
LEMMA FamilyType ==
    ASSUME NEW n
    PROVE  FamilyOf(n) \in DOMAIN Families
<1>1. "ipv4" \in DOMAIN Families
  BY DEF Families
<1> QED
  BY <1>1 DEF FamilyOf

\* Without its slashes, a path is made of texts.
LEMMA NameType ==
    ASSUME NEW path \in Seq(Texts \cup {Slash})
    PROVE  WithoutSlashes(path) \in Seq(Texts)
<1> DEFINE Piece(x) == IF x = Slash THEN <<>> ELSE <<x>>
           pieces == [j \in DOMAIN path |-> Piece(path[j])]
<1>1. DOMAIN path = 1 .. Len(path) /\ Len(path) \in Nat
  OBVIOUS
<1>2. \A j \in 1 .. Len(path) : path[j] \in Texts \cup {Slash}
  OBVIOUS
<1>3. \A x \in Texts \cup {Slash} : Piece(x) \in Seq(Texts)
  OBVIOUS
<1>4. Len(pieces) = Len(path) /\ ListOf(Texts, pieces)
  <2> HIDE DEF Piece
  <2> QED
    BY <1>1, <1>2, <1>3 DEF ListOf
<1>5. WithoutSlashes(path) = Joins(pieces)[Len(pieces)]
  BY DEF WithoutSlashes, Joined
<1> HIDE DEF pieces
<1>6. \A k \in 0 .. Len(pieces) : Joins(pieces)[k] \in Seq(Texts)
  BY <1>4, JoinsProperties
<1> QED
  BY <1>1, <1>4, <1>5, <1>6

\* What init?(connectionString:) makes is a configuration, with one kind of credentials.
LEMMA ParsedSettings ==
    ASSUME NEW u \in Url, u.host # {}, HasCredentials(u)
    PROVE  Parsed(u) \in Configuration /\ Credentialed(Parsed(u))
<1> DEFINE key == ValueOf(u.items, "apikey")
           numbers == [k \in NumberKeys |-> NumberIn(u.items, k, IntMax)]
           flags == [k \in FlagKeys |-> FlagIn(u.items, k)]
           texts == [k \in TextKeys |-> ValueOf(u.items, k)]
<1>1. /\ u.host \in Optional(Texts) /\ u.user \in Optional(Texts)
      /\ u.password \in Optional(Texts) /\ u.port \in Optional(0 .. IntMax)
      /\ u.path \in Seq(Texts \cup {Slash})
      /\ u.items \in Seq([name : STRING, value : Optional(Texts)])
  BY DEF Url
<1>2. numbers \in [NumberKeys -> To(IntMax)]
  BY <1>1, NumberType, ConfigAssumption
<1>3. flags \in [FlagKeys -> BOOLEAN]
  BY DEF FlagIn
<1>4. texts \in [TextKeys -> Optional(Texts)] /\ key \in Optional(Texts)
  BY <1>1, ValueType
<1>5. (CHOOSE h \in u.host : TRUE) \in Texts
  BY <1>1 DEF Optional
<1>6. u.port \in Optional(To(IntMax)) /\ {} \in Optional(Texts)
  BY <1>1, ConfigAssumption DEF Optional, To
<1>7. FamilyOf(NumberIn(u.items, "family", Int32Max)) \in DOMAIN Families
  BY FamilyType
<1>8. {WithoutSlashes(u.path)} \in Optional(Seq(Texts))
  BY <1>1, NameType DEF Optional
<1>9. Credentialed(Parsed(u))
  BY DEF Credentialed, Parsed, HasCredentials
<1>10. /\ (IF key = {} THEN u.user ELSE {}) \in Optional(Texts)
       /\ (IF key = {} THEN u.password ELSE {}) \in Optional(Texts)
  BY <1>1, <1>6
<1> HIDE DEF key, numbers, flags, texts
<1>11. Parsed(u) \in Configuration
  BY <1>2, <1>3, <1>4, <1>5, <1>6, <1>7, <1>8, <1>10
     DEF Parsed, Configuration, key, numbers, flags, texts
<1> QED
  BY <1>9, <1>11

\* Configuring and connecting preserve it.
LEMMA ConfigStep == ConfigInv /\ [Next]_vars => ConfigInv'
<1> SUFFICES ASSUME ConfigInv, [Next]_vars PROVE ConfigInv'
  OBVIOUS
<1> USE DEF ConfigInv
<1>0. CASE UNCHANGED vars
  BY <1>0 DEF vars, TypeOK
<1>1. /\ \A u \in url : u \in Urls /\ u \in Url /\ \A v \in url : v = u
      /\ \A c \in config, d \in config : c = d
      /\ pc = "start" => config = {} /\ handed = {}
      /\ pc = "configured" => config # {} /\ handed = {}
  BY ConfigAssumption DEF TypeOK, Optional
<1>2. CASE Parse
  <2>1. PICK u \in url : u.host # {} /\ HasCredentials(u) /\ config' = {Parsed(u)}
    BY <1>2 DEF Parse
  <2>2. Parsed(u) \in Configuration /\ Credentialed(Parsed(u))
    BY <1>1, <2>1, ParsedSettings
  <2>3. /\ pc' = "configured" /\ handed = {} /\ UNCHANGED <<url, handed>>
    BY <1>1, <1>2 DEF Parse
  <2>4. {Parsed(u)} \in Optional(Configuration)
    BY <2>2 DEF Optional
  <2>5. TypeOK'
    BY <2>1, <2>3, <2>4 DEF TypeOK
  <2> QED
    BY <1>1, <2>1, <2>2, <2>3, <2>5
<1>3. CASE ParseFails
  BY <1>1, <1>3 DEF ParseFails, TypeOK
<1>4. ASSUME NEW c \in Explicits, Configure(c) PROVE ConfigInv'
  <2>1. c \in Configuration /\ Credentialed(c)
    BY ConfigAssumption DEF Credentialed
  <2>2. /\ pc' = "configured" /\ config' = {c} /\ handed = {} /\ url = {}
        /\ UNCHANGED <<url, handed>>
    BY <1>1, <1>4 DEF Configure
  <2>3. {c} \in Optional(Configuration)
    BY <2>1 DEF Optional
  <2>4. TypeOK'
    BY <2>2, <2>3 DEF TypeOK
  <2> QED
    BY <2>1, <2>2, <2>4
<1>5. CASE Connect
  <2>1. PICK c \in config : Fits(c) /\ handed' = {Struct(c)}
    BY <1>5 DEF Connect
  <2>2. pc = "configured" /\ pc' = "connecting" /\ UNCHANGED <<url, config>>
    BY <1>5 DEF Connect
  <2>3. TypeOK'
    BY <1>1, <2>1, <2>2 DEF TypeOK
  <2> QED
    BY <1>1, <2>1, <2>2, <2>3
<1>6. CASE ConnectTraps
  <2>1. /\ pc = "configured" /\ pc' = "trapped" /\ UNCHANGED <<url, config, handed>>
    BY <1>6 DEF ConnectTraps
  <2>2. TypeOK'
    BY <1>1, <2>1 DEF TypeOK
  <2> QED
    BY <2>1, <2>2
<1> QED
  BY <1>0, <1>2, <1>3, <1>4, <1>5, <1>6 DEF Next

\* There is at most one configuration, with one kind of credentials, and the C structure
\* agrees with it.
THEOREM ConfigInvariant == Spec => []ConfigInv
<1>1. Init => ConfigInv
  <2>1. Init => url \in Optional(Urls) /\ config \in Optional(Configuration)
    BY DEF Init, Optional
  <2> QED
    BY <2>1 DEF Init, ConfigInv, TypeOK
<1> QED
  BY <1>1, ConfigStep, PTL DEF Spec

\* The type invariant: whatever the connection string, what is parsed of it is a
\* configuration an initializer could make (SQLiteCloudConfig.init, UrlParser).
THEOREM ConfigTypeCorrect == Spec => []TypeOK
<1>1. ConfigInv => TypeOK
  BY DEF ConfigInv
<1> QED
  BY <1>1, ConfigInvariant, PTL

-----------------------------------------------------------------------------
(* What libsqcloud is given *)

\* What is handed over was made from a configuration, and that from the URL, if there is one.
LEMMA HandedFrom ==
    ASSUME ConfigInv, NEW s \in handed
    PROVE  /\ \E c \in config : s = Struct(c) /\ Fits(c)
           /\ \A c \in config : c.numbers \in [NumberKeys -> To(IntMax)]
           /\ \A u \in url : u.items \in Seq([name : STRING, value : Optional(Texts)])
<1>1. config # {} /\ \A c \in config : c \in Configuration
  BY DEF ConfigInv, TypeOK, Optional
<1>2. \A u \in url : u \in Url
  BY ConfigAssumption DEF ConfigInv, TypeOK, Optional
<1> QED
  BY <1>1, <1>2 DEF ConfigInv, Configuration, Url

\* An API key or a username with its password (SQLiteCloudConfig, sqConfig).
THEOREM OneKindOfCredentials == Spec => []CredentialsExclusive
<1>1. ConfigInv => CredentialsExclusive
  <2> SUFFICES ASSUME ConfigInv, NEW s \in handed
               PROVE  (s.api_key # {}) # (s.credentials # {})
    BY DEF CredentialsExclusive
  <2>1. PICK c \in config : s = Struct(c)
    BY HandedFrom
  <2>2. CASE c.apiKey = {} /\ c.username # {} /\ c.password # {}
    <3>1. s.api_key = {} /\ s.credentials = c.username \X c.password
      BY <2>1, <2>2 DEF Struct
    <3>2. PICK u \in c.username, w \in c.password : TRUE
      BY <2>2
    <3>3. <<u, w>> \in s.credentials
      BY <3>1, <3>2
    <3> QED
      BY <3>1, <3>3
  <2>3. CASE c.apiKey # {} /\ c.username = {} /\ c.password = {}
    BY <2>1, <2>3 DEF Struct
  <2> QED
    BY <2>2, <2>3 DEF ConfigInv, Credentialed
<1> QED
  BY <1>1, ConfigInvariant, PTL

\* Numbers are handed on whole or not at all (sqConfig, connect).
THEOREM NumbersAreWhole == Spec => []NothingIsCut
<1>1. ConfigInv => NothingIsCut
  <2> SUFFICES ASSUME ConfigInv, NEW s \in handed, NEW c \in config
               PROVE  s.port = PortNumber(c.port) /\ s.numbers = c.numbers
    BY DEF NothingIsCut
  <2>1. s = Struct(c) /\ Fits(c) /\ c.numbers \in [NumberKeys -> To(IntMax)]
    BY HandedFrom DEF ConfigInv
  <2>2. s.port = PortNumber(c.port)
    BY <2>1, FittingIsKept DEF Struct, Fits
  <2>3. \A k \in NumberKeys : Int32Of(c.numbers[k]) = c.numbers[k]
    BY <2>1, FittingIsKept DEF Fits
  <2>4. s.numbers = [k \in NumberKeys |-> Int32Of(c.numbers[k])]
    BY <2>1 DEF Struct
  <2>5. s.numbers = c.numbers
    BY <2>1, <2>3, <2>4
  <2> QED
    BY <2>2, <2>5
<1> QED
  BY <1>1, ConfigInvariant, PTL

\* The first item of a name is the setting libsqcloud is given (UrlParser.parse).
THEOREM SettingsReachLibrary == Spec => []SettingsArrive
<1>1. ConfigInv => SettingsArrive
  <2> SUFFICES ASSUME ConfigInv, NEW s \in handed, NEW u \in url,
                      NEW i \in DOMAIN u.items, Decides(u, i),
                      NEW x \in u.items[i].value
               PROVE  LET item == u.items[i]
                      IN /\ item.name \in NumberKeys
                              => s.numbers[item.name] =
                                   (IF x \in DOMAIN NumberOf /\ NumberOf[x] \in To(IntMax)
                                    THEN NumberOf[x] ELSE 0)
                         /\ item.name \in FlagKeys \ {"readonly"}
                              => s.flags[item.name] = (x \in DOMAIN TruthOf /\ TruthOf[x])
                         /\ item.name \in TextKeys => s.texts[item.name] = {x}
                         /\ item.name = "apikey" => s.api_key = {x}
    BY DEF SettingsArrive
  <2> DEFINE name == u.items[i].name
  <2>1. PICK c \in config : s = Struct(c) /\ Fits(c) /\ c = Parsed(u)
    BY HandedFrom DEF ConfigInv
  <2>2. u.items \in Seq([name : STRING, value : Optional(Texts)])
    BY HandedFrom
  <2>3. ValueOf(u.items, name) = u.items[i].value
    BY <2>2, FirstDecides DEF Decides
  <2>4. ValueOf(u.items, name) = {x}
    <3>1. ValueOf(u.items, name) \in Optional(Texts)
      BY <2>2, ValueType
    <3>2. x \in ValueOf(u.items, name)
      BY <2>3
    <3> QED
      BY <3>1, <3>2 DEF Optional
  <2>5. ASSUME name \in NumberKeys
        PROVE  s.numbers[name] = IF x \in DOMAIN NumberOf /\ NumberOf[x] \in To(IntMax)
                                 THEN NumberOf[x] ELSE 0
    <3>1. c.numbers[name] = NumberIn(u.items, name, IntMax)
      BY <2>1, <2>5 DEF Parsed
    <3>2. s.numbers[name] = Int32Of(c.numbers[name])
      BY <2>1, <2>5 DEF Struct
    <3>3. Int32Of(c.numbers[name]) = c.numbers[name]
      BY <2>1, <2>5, FittingIsKept DEF Fits
    <3> QED
      BY <2>2, <2>4, <3>1, <3>2, <3>3, NumberRead, ConfigAssumption
  <2>6. ASSUME name \in FlagKeys \ {"readonly"}
        PROVE  s.flags[name] = (x \in DOMAIN TruthOf /\ TruthOf[x])
    <3>1. s.flags[name] = c.flags[name]
      BY <2>1, <2>6 DEF Struct
    <3>2. c.flags[name] = FlagIn(u.items, name)
      BY <2>1, <2>6 DEF Parsed
    <3>3. FlagIn(u.items, name) = (x \in DOMAIN TruthOf /\ TruthOf[x])
      BY <2>4 DEF FlagIn
    <3> QED
      BY <3>1, <3>2, <3>3
  <2>7. name \in TextKeys => s.texts[name] = {x}
    BY <2>1, <2>4 DEF Struct, Parsed
  <2>8. name = "apikey" => s.api_key = {x}
    BY <2>1, <2>4 DEF Struct, Parsed
  <2> QED
    BY <2>5, <2>6, <2>7, <2>8
<1> QED
  BY <1>1, ConfigInvariant, PTL
=============================================================================
