-------------------------- MODULE MCConfiguration --------------------------
(* The configuration with one file, for TLC.                               *)
EXTENDS Configuration

Whole(n)  == [kind |-> "int", val |-> n]
Num(n)   == [kind |-> "numeral", val |-> n]
Prefix(n) == [kind |-> "prefix", val |-> n]
Text(s)  == [kind |-> "text", val |-> s]
Bool(b)  == [kind |-> "bool", val |-> b]
Null     == [kind |-> "null", val |-> "null"]

MCModulus   == 1048576
MCDatabases == {base_dir[f] : f \in DbFields} \cup {"custom"}

AllDatabases == [city_db |-> Text("custom"), asn_db |-> Text("custom"), oui_db |-> Text("custom")]

(* Members missing, truncated, of a wrong kind and out of range.           *)
MCContents ==
    {[f \in {} |-> Null],
     AllDatabases,
     [port |-> Whole(65537), city_db |-> Text("custom")],
     [port |-> Num(65536)],
     [port |-> Null, threads |-> Text("many")],
     [host |-> Null],
     [port |-> Prefix(90), enable_rate_limiter |-> Prefix(1), log_file |-> Text("log")],
     [threads |-> Whole(1048577), oui_db |-> Text("custom")],
     [max_requests_per_minute |-> Whole(0)],
     [max_requests_per_minute |-> Whole(0), enable_rate_limiter |-> Text("false")],
     [log_max_file_size |-> Null, enable_file_logging |-> Bool(TRUE)],
     [log_max_file_size |-> Num(-1), log_file |-> Text("log")],
     [log_rotation |-> Text("daily"), enable_file_logging |-> Num(1)]}

MCOptions ==
    {[f \in {} |-> Null],
     AllDatabases,
     [port |-> Whole(65536)],
     [port |-> Whole(9000), city_db |-> Text("missing")],
     [threads |-> Whole(0)],
     [threads |-> Whole(8), max_batch_size |-> Whole(7)],
     [log_file |-> Text("log"), enable_file_logging |-> Text("false")],
     [log_max_file_size |-> Whole(2000), enable_rate_limiter |-> Text("true")],
     [default_api_key |-> Text("key"), enable_api_auth |-> Num(1)]}
=============================================================================
