---------------------------- MODULE PasswordHandler ----------------------------
(***************************************************************************)
(* GET and POST /password/generate (password_handler.cpp) with the         *)
(* generator (password_generator.cpp), on the same threads and metrics as  *)
(* the lookups of LookupEndpoint; ServerSpec composes the two.             *)
(* Nothing here is authenticated or rate limited.                          *)
(*                                                                         *)
(* A character is its class and whether it is one of the confusing ones.   *)
(***************************************************************************)
EXTENDS LookupEndpoint

CONSTANTS
    MinLength, MaxLength, DefaultLength,    \* 8, 128 and 16
    IntModulus                              \* 2^32 of int

Flags == {"uppercase", "lowercase", "digits", "symbols", "exclude_similar"}

(* A number of a request: left out, an integer, or of another kind.        *)
Number == [kind : {"absent", "int", "other"}, val : Int]

PasswordRequest ==
    [route : {"password"}, method : {"GET", "POST"}, body : {"parses", "error", "unprintable"},
     length : Number, count : Number, flags : [Flags -> {"absent", "true", "false", "other"}]]

ASSUME PasswordAssumption ==
    /\ \A r \in Requests : r.route \in {"lookup", "password"}
    /\ \A r \in Requests : r.route = "password" => r \in PasswordRequest
    /\ {MinLength, MaxLength, DefaultLength, IntModulus} \subseteq Nat \ {0}
    /\ DefaultLength \in MinLength..MaxLength /\ MaxLength < IntModulus \div 2

-----------------------------------------------------------------------------
(* static_cast<int> of a JSON integer.                                     *)
Wrapped(n) == ((n + IntModulus \div 2) % IntModulus) - IntModulus \div 2

(* readInt of handle_post and std::stoi of handle_get: other kinds leave   *)
(* the default in the first and throw in the second.                       *)
ReadInt(v, default) == IF v.kind = "int" THEN Wrapped(v.val) ELSE default

(* parseBoolParam and readBool: a text other than "true" is false in a     *)
(* query, a value that is no Boolean is ignored in a body.                 *)
ReadBool(r, f) ==
    r.flags[f] \in {"absent", "true"} \/ (r.flags[f] = "other" /\ r.method = "POST")

PasswordConfig(r) ==
    [length |-> ReadInt(r.length, DefaultLength),
     uppercase |-> ReadBool(r, "uppercase"), lowercase |-> ReadBool(r, "lowercase"),
     digits |-> ReadBool(r, "digits"), symbols |-> ReadBool(r, "symbols"),
     exclude_similar |-> ReadBool(r, "exclude_similar")]

Count(r) == IF r.method = "GET" THEN 1 ELSE ReadInt(r.count, 1)

CharClasses == {"uppercase", "lowercase", "digits", "symbols"}

(* Confusing characters exist in all classes but the symbols.              *)
CharSet(config, class) ==
    {<<class, similar>> : similar \in
        IF config.exclude_similar \/ class = "symbols" THEN {FALSE} ELSE BOOLEAN}

(* Seeded error: the required characters are not filtered.                 *)
UnfilteredSet(config, class) ==
    IF config[class] THEN CharSet([exclude_similar |-> FALSE], class) ELSE {}

(* addSet of build_character_sets: what a class adds to required_chars_,   *)
(* nothing if it is not enabled; pool_ is the union.                       *)
RequiredChars(config, class) == IF config[class] THEN CharSet(config, class) ELSE {}

Pool(config) == UNION {RequiredChars(config, class) : class \in CharClasses}

validate_config(config) ==
    config.length \in MinLength..MaxLength /\ Pool(config) # {}

(* A character of the set at a random place, over what was there; an empty *)
(* set is passed over.                                                     *)
Placed(words, set) ==
    IF set = {} THEN words
    ELSE UNION {{[w EXCEPT ![pos] = ch] : pos \in DOMAIN w, ch \in set} : w \in words}

Shuffled(words, length) ==
    UNION {{[i \in 1..length |-> w[order[i]]] : order \in Bijection(1..length, 1..length)} : w \in words}

(* The passwords generate may return: characters of the pool, one of each  *)
(* class placed in turn, and all shuffled.                                 *)
generate(config) ==
    LET Add(words, class) == Placed(words, RequiredChars(config, class))
        drawn == [1..config.length -> Pool(config)]
    IN  Shuffled(Add(Add(Add(Add(drawn, "uppercase"), "lowercase"), "digits"), "symbols"),
                 config.length)

-----------------------------------------------------------------------------
(* How parsing and validation end: std::stoi throws out_of_range, which is *)
(* counted, or invalid_argument; generate throws invalid_argument; the     *)
(* answer to a parse error may itself throw.                               *)
ParseCode(r) ==
    IF \/ Escaped(r)
       \/ r.method = "GET" /\ r.length.kind = "int" /\ Wrapped(r.length.val) # r.length.val THEN 500
    ELSE IF \/ r.method = "GET" /\ r.length.kind = "other"
            \/ r.method = "POST" /\ r.body = "error"
            \/ Count(r) \notin 1..MaxBatchSize
            \/ ~ validate_config(PasswordConfig(r)) THEN 400 ELSE 200

(* handle_get and handle_post up to the generator.                         *)
ParsePassword(t) ==
    LET c    == conn[t]
        code == ParseCode(c.req)
    IN  /\ c.pc = "parse"
        /\ \/ code = 200 /\ Step(t, [c EXCEPT !.pc = "generate"])
           \/ (code = 400 \/ Escaped(c.req)) /\ Step(t, Finished(c, code))
           \/ code = 500 /\ ~ Escaped(c.req) /\ Step(t, Caught(c, "std"))
        /\ UNCHANGED <<api_keys, metrics, history>>

(* The next password of generate_batch; it depends on nothing shared.  An  *)
(* exception of the random device or of an allocation ends the request in  *)
(* the last catch clause of its handler, which counts it.                  *)
GenerateNext(t) ==
    LET c == conn[t]
    IN  /\ c.pc = "generate"
        /\ Len(c.results) < Count(c.req)
        /\ \/ \E w \in generate(PasswordConfig(c.req)) : Step(t, [c EXCEPT !.results = Append(@, w)])
           \/ MayThrow /\ Step(t, Caught(c, "std"))
        /\ UNCHANGED <<api_keys, metrics, history>>

(* metrics_->record_request, once for a batch, and the response.           *)
RecordPasswords(t) ==
    LET c == conn[t]
    IN  /\ c.pc = "generate"
        /\ Len(c.results) = Count(c.req)
        /\ metrics' = [metrics EXCEPT !.requests = @ + 1]
        /\ Step(t, Finished(c, 200))
        /\ UNCHANGED <<api_keys, history>>

HandlePassword(t) == ParsePassword(t) \/ GenerateNext(t) \/ RecordPasswords(t)

ServerNext == Next \/ \E t \in Threads : HandlePassword(t)

ServerSpec ==
    Init /\ [][ServerNext]_vars /\ Fairness /\ \A t \in Threads : WF_vars(HandlePassword(t))

-----------------------------------------------------------------------------
(* The password requests that were answered, and the classes one enables.  *)
Fulfilled == {t \in Threads : conn[t].pc = "reply" /\ conn[t].status = 200
                                /\ conn[t].req.route = "password"}
Classes(t) == {class \in CharClasses : ReadBool(conn[t].req, class)}

(* n is the number asked for, if that is one an int can hold, and the      *)
(* default if no number was.                                               *)
AsAsked(n, v, default) ==
    IF v.kind = "int" THEN Wrapped(v.val) = v.val => n = v.val ELSE n = default

(* The classes whose characters are placed after those of a class.         *)
Later == [uppercase |-> {"lowercase", "digits", "symbols"}, lowercase |-> {"digits", "symbols"},
          digits |-> {"symbols"}, symbols |-> {}]

(* A request that is answered gets as many passwords as it asked for and   *)
(* never more than a batch; each has the length asked for and one within   *)
(* the limits, only characters of enabled classes, no confusing one if     *)
(* those are excluded, also among the characters that are placed, and at   *)
(* least one of the enabled class that is placed last, which nothing       *)
(* overwrites.  Of numbers no int can hold see OutOfRangeRefused.          *)
PasswordsAsAsked ==
    \A t \in Fulfilled :
        LET r == conn[t].req
        IN  /\ Len(conn[t].results) \in 1..MaxBatchSize
            /\ r.method = "POST" => AsAsked(Len(conn[t].results), r.count, 1)
            /\ \A w \in Range(conn[t].results) :
                  /\ Len(w) \in MinLength..MaxLength /\ AsAsked(Len(w), r.length, DefaultLength)
                  /\ \A i \in DOMAIN w : /\ w[i][1] \in Classes(t)
                                         /\ w[i][2] => ~ ReadBool(r, "exclude_similar")
                  /\ \A class \in Classes(t) : Later[class] \cap Classes(t) = {} =>
                         \E i \in DOMAIN w : w[i][1] = class

(* README.md (length 8-128, count 1-100), and the answer "Count cannot     *)
(* exceed" of handle_post: a request that is answered asked for a length   *)
(* and a count within the limits.                                          *)
OutOfRangeRefused ==
    \A t \in Fulfilled :
        LET r == conn[t].req
        IN  /\ r.length.kind = "int" => r.length.val \in MinLength..MaxLength
            /\ r.method = "POST" /\ r.count.kind = "int" => r.count.val \in 1..MaxBatchSize

(* test_password_generator.cpp, GenerateMixedPassword: every enabled class *)
(* occurs in a password that has room for them all.                        *)
EveryClassPresent ==
    \A t \in Fulfilled : \A w \in Range(conn[t].results) :
        Len(w) >= Cardinality(Classes(t)) =>
            \A class \in Classes(t) : \E i \in DOMAIN w : w[i][1] = class
=============================================================================
