-------------------------------- MODULE Config --------------------------------
(***************************************************************************)
(* From a connection string, or an explicit initializer, to the            *)
(* SQLiteCloudConfig the client keeps, and from that to the SQCloudConfig  *)
(* and the port that connect() gives to libsqcloud                         *)
(* (Core/SQLiteCloudConfig.swift, Parsing/UrlParser.swift,                 *)
(* Core/SQLiteCloudConfig+Internal.swift).                                 *)
(*                                                                         *)
(* A Swift optional is a set of at most one element.  Int32(x) of a number *)
(* that does not fit traps; Int(text) of such a number is nil.             *)
(*                                                                         *)
(* Abstracted: the URL is what Foundation makes of the string (host, user, *)
(* password, port, path, query items); texts are atoms, of which only the  *)
(* number and the truth value they spell are known; a path is a sequence   *)
(* of its characters.                                                      *)
(***************************************************************************)
EXTENDS CStrings

CONSTANTS
    Texts,       \* the values of query items, users, passwords, hosts, names
    NumberOf,    \* the number each text that spells one stands for
    TruthOf,     \* the same for "true" and "false"
    Slash,       \* the character /
    Int32Max,    \* the largest Int32
    IntMax,      \* the largest Int
    DefaultPort, \* Port.default, 8860
    Urls,        \* the connection strings of an instance, taken apart
    Explicits    \* the configurations an application makes without a string

Optional(S) == {o \in SUBSET S : \A x, y \in o : x = y}
To(max) == -max - 1 .. max

\* The query items that set a number, a truth value or a text.
NumberKeys == {"timeout", "maxdata", "maxrows", "maxrowset"}
FlagKeys == {"readonly", "passwordHashed", "nonlinearizable", "compression", "zerotext",
             "memory", "create", "insecure", "noblob"}
TextKeys == {"root_certificate", "client_certificate", "client_certificate_key"}
Families == [ipv4 |-> 0, ipv6 |-> 1, ipvAny |-> 2]

Url == [host : Optional(Texts), user : Optional(Texts), password : Optional(Texts),
        port : Optional(0 .. IntMax), path : Seq(Texts \cup {Slash}),
        items : Seq([name : STRING, value : Optional(Texts)])]

\* A Port is .default, {}, or .custom of a number.
Configuration ==
    [hostname : Texts, port : Optional(To(IntMax)),
     username : Optional(Texts), password : Optional(Texts), apiKey : Optional(Texts),
     family : DOMAIN Families, dbname : Optional(Seq(Texts)),
     numbers : [NumberKeys -> To(IntMax)], flags : [FlagKeys -> BOOLEAN],
     texts : [TextKeys -> Optional(Texts)]]

ASSUME ConfigAssumption ==
    /\ Int32Max \in Nat /\ IntMax \in Nat /\ Int32Max <= IntMax
    /\ DefaultPort \in 0 .. Int32Max
    /\ Slash \notin Texts
    /\ DOMAIN NumberOf \subseteq Texts
    /\ \A x \in DOMAIN NumberOf : NumberOf[x] \in Int
    /\ DOMAIN TruthOf \subseteq Texts
    /\ \A x \in DOMAIN TruthOf : TruthOf[x] \in BOOLEAN
    /\ Urls \subseteq Url
    /\ Explicits \subseteq Configuration
    /\ \A c \in Explicits :
         \/ c.apiKey = {} /\ c.username # {} /\ c.password # {}
         \/ c.apiKey # {} /\ c.username = {} /\ c.password = {}

VARIABLES
    pc,      \* "start", "nil", "configured", "connecting" or "trapped"
    url,     \* the connection string, taken apart, if the application uses one
    config,  \* SQLiteCloud.config, once it is made
    handed   \* what connect() hands to SQCloudConnect

vars == <<pc, url, config, handed>>

-----------------------------------------------------------------------------
(* UrlParser *)

\* The positions of the items of that name.
Named(items, name) == {i \in DOMAIN items : items[i].name = name}

\* Defective variant of ValueOf: the last item of the name wins.
ValueOfLast(items, name) ==
    UNION {items[i].value : i \in {k \in Named(items, name) :
                                     \A l \in Named(items, name) : l <= k}}

\* queryItems.first { $0.name == name }, and its value if it has both.
ValueOf(items, name) ==
    UNION {items[i].value : i \in {k \in Named(items, name) :
                                     \A l \in Named(items, name) : k <= l}}

\* Defective variant of NumberIn: a number that is too large for T is not refused.
NumberInUnchecked(items, name, max) ==
    IF \E x \in ValueOf(items, name) : x \in DOMAIN NumberOf
    THEN NumberOf[CHOOSE x \in ValueOf(items, name) : TRUE] ELSE 0

\* T(value) ?? .zero for an integer type T from -max - 1 to max
NumberIn(items, name, max) ==
    IF \E x \in ValueOf(items, name) : x \in DOMAIN NumberOf /\ NumberOf[x] \in To(max)
    THEN NumberOf[CHOOSE x \in ValueOf(items, name) : TRUE] ELSE 0

\* Bool(value) ?? false
FlagIn(items, name) ==
    \E x \in ValueOf(items, name) : x \in DOMAIN TruthOf /\ TruthOf[x]

-----------------------------------------------------------------------------
(* SQLiteCloudConfig.init?(connectionURL:) *)

\* Defective variant of HasCredentials: the user is not looked for.
HasCredentialsUnchecked(u) == ValueOf(u.items, "apikey") # {} \/ u.password # {}

\* An apikey, or else a user and a password.
HasCredentials(u) ==
    ValueOf(u.items, "apikey") # {} \/ (u.user # {} /\ u.password # {})

\* Family(rawValue:) ?? .ipv4
FamilyOf(n) ==
    IF \E f \in DOMAIN Families : Families[f] = n
    THEN CHOOSE f \in DOMAIN Families : Families[f] = n ELSE "ipv4"

\* path.replacingOccurrences(of: "/", with: "")
WithoutSlashes(path) ==
    Joined([j \in DOMAIN path |-> IF path[j] = Slash THEN <<>> ELSE <<path[j]>>])

\* The configuration of a URL with a host and credentials.  A username and a password
\* next to an apikey are dropped.
Parsed(u) ==
    LET key == ValueOf(u.items, "apikey")
    IN [hostname |-> CHOOSE h \in u.host : TRUE,
        port     |-> u.port,
        username |-> IF key = {} THEN u.user ELSE {},
        password |-> IF key = {} THEN u.password ELSE {},
        apiKey   |-> key,
        family   |-> FamilyOf(NumberIn(u.items, "family", Int32Max)),
        dbname   |-> {WithoutSlashes(u.path)},
        numbers  |-> [k \in NumberKeys |-> NumberIn(u.items, k, IntMax)],
        flags    |-> [k \in FlagKeys |-> FlagIn(u.items, k)],
        texts    |-> [k \in TextKeys |-> ValueOf(u.items, k)]]

-----------------------------------------------------------------------------
(* Port.number, sqConfig *)

\* The port's number, before Int32().
PortNumber(port) == IF port = {} THEN DefaultPort ELSE CHOOSE n \in port : TRUE

\* Defective variant of Fits: the maxima are converted without a check.
FitsTimeout(c) ==
    PortNumber(c.port) \in To(Int32Max) /\ c.numbers["timeout"] \in To(Int32Max)

\* No Int32() of connect() and sqConfig traps.
Fits(c) ==
    /\ PortNumber(c.port) \in To(Int32Max)
    /\ \A k \in NumberKeys : c.numbers[k] \in To(Int32Max)

\* x as an Int32, if it had to fit: its low bits.
Int32Of(x) == ((x + Int32Max + 1) % (2 * Int32Max + 2)) - Int32Max - 1

\* The C structure and the port.  Readonly is none of its fields.
Struct(c) ==
    [port        |-> Int32Of(PortNumber(c.port)),
     family      |-> Families[c.family],
     credentials |-> IF c.username # {} /\ c.password # {} THEN c.username \X c.password
                     ELSE {},
     api_key     |-> c.apiKey,
     database    |-> c.dbname,
     numbers     |-> [k \in NumberKeys |-> Int32Of(c.numbers[k])],
     flags       |-> [k \in FlagKeys \ {"readonly"} |-> c.flags[k]],
     texts       |-> c.texts]

-----------------------------------------------------------------------------

Init ==
    /\ pc = "start"
    /\ url \in {{}} \cup {{u} : u \in Urls}
    /\ config = {} /\ handed = {}

\* init?(connectionString:)
Parse ==
    /\ pc = "start"
    /\ \E u \in url : u.host # {} /\ HasCredentials(u) /\ config' = {Parsed(u)}
    /\ pc' = "configured"
    /\ UNCHANGED <<url, handed>>

\* No host or no credentials: nil.
ParseFails ==
    /\ pc = "start"
    /\ \E u \in url : u.host = {} \/ ~HasCredentials(u)
    /\ pc' = "nil"
    /\ UNCHANGED <<url, config, handed>>

\* init(hostname:apiKey:...) and init(hostname:username:password:...)
Configure(c) ==
    /\ pc = "start" /\ url = {}
    /\ config' = {c}
    /\ pc' = "configured"
    /\ UNCHANGED <<url, handed>>

\* connect() converts the configuration.
Connect ==
    /\ pc = "configured"
    /\ \E c \in config : Fits(c) /\ handed' = {Struct(c)}
    /\ pc' = "connecting"
    /\ UNCHANGED <<url, config>>

ConnectTraps ==
    /\ pc = "configured"
    /\ \E c \in config : ~Fits(c)
    /\ pc' = "trapped"
    /\ UNCHANGED <<url, config, handed>>

Next ==
    \/ Parse \/ ParseFails \/ Connect \/ ConnectTraps
    \/ \E c \in Explicits : Configure(c)

Spec == Init /\ [][Next]_vars

-----------------------------------------------------------------------------
(* Properties *)

\* The type invariant; a configuration that is parsed is one an initializer could make.
TypeOK ==
    /\ pc \in {"start", "nil", "configured", "connecting", "trapped"}
    /\ url \in Optional(Urls)
    /\ config \in Optional(Configuration)
    /\ pc \in {"configured", "connecting", "trapped"} <=> config # {}
    /\ pc = "connecting" <=> handed # {}

\* libsqcloud is given an API key, or a username with its password, never both or half of
\* one, whatever the connection string contains.
CredentialsExclusive ==
    \A s \in handed : (s.api_key # {}) # (s.credentials # {})

\* What libsqcloud is given has the numbers of the configuration: a number that is too
\* large for it ends the program and is never cut.
NothingIsCut ==
    \A s \in handed : \A c \in config :
        s.port = PortNumber(c.port) /\ s.numbers = c.numbers

\* Item i of u decides about its name: it is the first of it.
Decides(u, i) == \A k \in 1 .. i - 1 : u.items[k].name # u.items[i].name

\* A setting of the connection string reaches libsqcloud as it is written, when it is the
\* first of its name and spells what is expected there; what does not is ignored.
SettingsArrive ==
    \A s \in handed : \A u \in url : \A i \in DOMAIN u.items :
        LET item == u.items[i]
        IN Decides(u, i) => \A x \in item.value :
             /\ item.name \in NumberKeys
                  => s.numbers[item.name] =
                       (IF x \in DOMAIN NumberOf /\ NumberOf[x] \in To(IntMax)
                        THEN NumberOf[x] ELSE 0)
             /\ item.name \in FlagKeys \ {"readonly"}
                  => s.flags[item.name] = (x \in DOMAIN TruthOf /\ TruthOf[x])
             /\ item.name \in TextKeys => s.texts[item.name] = {x}
             /\ item.name = "apikey" => s.api_key = {x}
=============================================================================
