--------------------------- MODULE Configuration ---------------------------
(***************************************************************************)
(* The configuration of a server process from its start to its end, over   *)
(* many starts (config.cpp: ConfigParser; main.cpp: main; paths.cpp):      *)
(* defaults, the JSON configuration file, command line options, validation *)
(* and the file that the server writes when it finds none, or an empty     *)
(* one.  A process may crash between any two steps, among them between     *)
(* opening the file, which truncates it, and writing it; an operator, or   *)
(* another process, may touch a file between any two steps.                *)
(*                                                                         *)
(* A configuration is a function from the names of the members, those of   *)
(* the JSON file, to their values; log_max_file_size counts megabytes.     *)
(* Values of options and of members of the file are records of a kind and  *)
(* a value.  A string is a "numeral", which spells an integer, one that    *)
(* begins with an integer ("prefix"), or a "text", where std::stoll finds  *)
(* none that it can hold.                                                  *)
(***************************************************************************)
EXTENDS Integers

CONSTANTS
    Paths, NoPath,      \* configuration files; the empty config_file_
    Contents,           \* the JSON objects an operator writes into them
    Options,            \* the sets of options the server is started with
    DatabaseFiles,      \* paths of database files that can be opened
    WideModulus         \* 2^32 of int, 2^44 of megabytes in a size_t

ASSUME WideAssumption == WideModulus \in Nat /\ WideModulus > 2 * 65536
ASSUME PathAssumption == NoPath \notin Paths

IntFields  == {"port", "threads", "max_requests_per_minute", "max_batch_size",
               "log_max_file_size", "log_max_backup_files"}
BoolFields == {"enable_rate_limiter", "enable_api_auth", "enable_file_logging",
               "log_enable_stdout"}
DbFields   == {"city_db", "asn_db", "oui_db"}
TextFields == DbFields \cup
              {"host", "api_keys_file", "default_api_key", "log_file", "log_rotation", "log_level"}
Fields     == IntFields \cup BoolFields \cup TextFields

Strings == {"text", "numeral", "prefix"}

(* The value of a member or option is one of its kind.                     *)
OfItsKind(v) ==
    /\ v.kind \in {"int", "numeral", "prefix"} => v.val \in Int
    /\ v.kind = "bool" => v.val \in BOOLEAN

ASSUME ContentsAssumption == \A j \in Contents : \A f \in DOMAIN j : OfItsKind(j[f])
ASSUME OptionsAssumption  ==
    \A o \in Options : DOMAIN o \subseteq Fields /\ \A f \in DOMAIN o : OfItsKind(o[f])
ASSUME DatabasesAssumption == "" \notin DatabaseFiles     \* no file has the empty path

(* The initial values of the members ...                                   *)
Initial ==
    [host |-> "0.0.0.0", port |-> 8080, city_db |-> "", asn_db |-> "", oui_db |-> "",
     threads |-> 4, enable_rate_limiter |-> TRUE, max_requests_per_minute |-> 100,
     max_batch_size |-> 100, enable_api_auth |-> FALSE, api_keys_file |-> "",
     default_api_key |-> "", enable_file_logging |-> FALSE, log_file |-> "logs/ip_server.log",
     log_rotation |-> "size", log_max_file_size |-> 10, log_max_backup_files |-> 5,
     log_enable_stdout |-> TRUE, log_level |-> "info"]

(* ... and the built-in configuration.                                     *)
ServerConfig == [f \in Fields |-> Initial[f]]

(* paths.cpp: the default places, under the home directory of the user.    *)
base_dir == [city_db |-> "~/GeoLite2-City.mmdb", asn_db |-> "~/GeoLite2-ASN.mmdb",
             oui_db |-> "~/master_oui.db", log_file |-> "~/ip_server.log"]

(* Seeded error: the default paths are not set.                            *)
WithoutPaths(c) == c

applyDefaultPaths(c) ==
    [f \in Fields |-> IF f \in DOMAIN base_dir THEN base_dir[f] ELSE c[f]]

VARIABLES
    files,          \* path -> what is there: nothing, an empty file, JSON, something else
    pc,             \* where the process is, "off" if there is none
    path,           \* the file it was started with
    opts,           \* the options it was started with
    saver,          \* who called save_to_file: "parse" or "main"
    config,         \* its configuration
    config_file,    \* config_file_
    \* History, read by no action:
    created,        \* path -> the configuration the server saved there, as a set
    foreign,        \* files edited by an operator or damaged by a failed write
    informed        \* the last look of the process at its file did not fail, and
                    \* nobody else has touched the file since

process    == <<pc, path, opts, saver, config, config_file>>
configVars == <<files, process, created, foreign, informed>>

NoFile     == [state |-> "absent", json |-> <<>>]
EmptyFile  == [state |-> "empty", json |-> <<>>]
OtherFile  == [state |-> "other", json |-> <<>>]
JsonFile(j) == [state |-> "json", json |-> j]

ConfigInit ==
    /\ files = [p \in Paths |-> NoFile]
    /\ pc = "off"
    /\ path = NoPath
    /\ opts = <<>>
    /\ saver = "parse"
    /\ config = ServerConfig
    /\ config_file = NoPath
    /\ created = [p \in Paths |-> {}]
    /\ foreign = {}
    /\ informed = TRUE

-----------------------------------------------------------------------------
(* An integer cast to the type of the field: uint16_t, size_t or int.      *)
Stored(f, n) ==
    IF f = "port" THEN n % 65536
    ELSE IF f = "log_max_file_size" THEN n % WideModulus
    ELSE ((n + WideModulus \div 2) % WideModulus) - WideModulus \div 2

parseBoolString(v) ==
    (v.kind = "text" /\ v.val = "true") \/ (v.kind = "numeral" /\ v.val = 1)

(* readStr, readInt, readBool: the value a field takes from v.  A value of *)
(* a wrong kind leaves an integer or Boolean field alone, except that the  *)
(* size of the log becomes zero.                                           *)
Taken(f, v, old) ==
    CASE f \in TextFields                                      -> v.val
      [] f \in IntFields /\ v.kind \in {"int", "numeral", "prefix"} -> Stored(f, v.val)
      [] f = "log_max_file_size" /\ v.kind \in {"bool", "null"} -> 0
      [] f \in BoolFields /\ v.kind = "bool"                   -> v.val
      [] f \in BoolFields /\ v.kind \in Strings                -> parseBoolString(v)
      [] OTHER                                                 -> old

(* get<std::string>() of another kind throws, and std::stoll of a text.    *)
Throws(f, v) ==
    \/ f \in TextFields /\ v.kind \notin Strings
    \/ f \in IntFields /\ v.kind = "text"

Merge(c, j) == [f \in Fields |-> IF f \in DOMAIN j THEN Taken(f, j[f], c[f]) ELSE c[f]]

from_json(j) == Merge(ServerConfig, j)

Loads(file) == file.state = "json" /\ \A f \in DOMAIN file.json : ~ Throws(f, file.json[f])

(* load_from_file, and the built-in configuration if it throws.            *)
load_from_file(file) == IF Loads(file) THEN from_json(file.json) ELSE ServerConfig

(* cxxopts refuses a number that the type of its option cannot hold.       *)
OptionsParse(o) ==
    \A f \in DOMAIN o \cap IntFields :
        o[f].kind = "int" /\ (IF f = "log_max_file_size" THEN o[f].val >= 0
                              ELSE Stored(f, o[f].val) = o[f].val)

(* Seeded error: an option only replaces a built-in value.                 *)
FileWins(c, o) ==
    [f \in Fields |-> IF c[f] = ServerConfig[f] THEN Merge(c, o)[f] ELSE c[f]]

apply_cli_overrides(c, o) ==
    IF "log_file" \in DOMAIN o
    THEN [Merge(c, o) EXCEPT !.enable_file_logging = TRUE] ELSE Merge(c, o)

Limits ==
    [port |-> 1..65535, threads |-> 1..64, max_requests_per_minute |-> 1..10000,
     max_batch_size |-> 1..1000, log_max_file_size |-> 1..1024, log_max_backup_files |-> 0..100]

validate(c) ==
    /\ \A f \in {"port", "threads", "max_batch_size"} : c[f] \in Limits[f]
    /\ c.enable_rate_limiter => c.max_requests_per_minute \in Limits.max_requests_per_minute
    /\ c.enable_file_logging =>
          /\ c.log_rotation \in {"none", "size"}
          /\ \A f \in {"log_max_file_size", "log_max_backup_files"} : c[f] \in Limits[f]

KindOf(f) ==
    IF f \in IntFields THEN "int" ELSE IF f \in BoolFields THEN "bool" ELSE "text"

(* Seeded error: the path of the log is not saved.                         *)
SavedWithoutLog(c) ==
    [f \in Fields \ {"log_file", "default_api_key"} |-> [kind |-> KindOf(f), val |-> c[f]]]

(* What save_to_file writes; a default key only if there is one.           *)
Saved(c) ==
    [f \in {f \in Fields : f = "default_api_key" => c[f] # ""} |->
        [kind |-> KindOf(f), val |-> c[f]]]

-----------------------------------------------------------------------------
(* ConfigParser::parse up to the question whether the file exists.         *)
(* Options that do not parse end the process, and nothing has changed.     *)
Launch(p, o) ==
    /\ pc = "off"
    /\ OptionsParse(o)
    /\ path' = p
    /\ opts' = o
    /\ saver' = "parse"
    /\ config' = applyDefaultPaths(ServerConfig)
    /\ config_file' = p
    /\ pc' = IF files[p].state = "absent" THEN "override" ELSE "peek"
    /\ informed' = TRUE
    /\ UNCHANGED <<files, created, foreign>>

(* handle_config_file asks for the first character.  There is none in an   *)
(* empty file, in one that cannot be opened and in one that cannot be      *)
(* read: all three are taken for empty, and a file is made.                *)
Peek ==
    /\ pc = "peek"
    /\ \/ /\ files[path].state # "absent"
          /\ pc' = IF files[path].state = "empty" THEN "opening" ELSE "load"
          /\ informed' = TRUE
       \/ pc' = "opening" /\ informed' = FALSE
    /\ UNCHANGED <<files, path, opts, saver, config, config_file, created, foreign>>

(* load_from_file opens the file again; a file that cannot be opened or    *)
(* read leaves the built-in configuration, like one that does not load.    *)
Load ==
    /\ pc = "load"
    /\ pc' = "override"
    /\ config_file' = NoPath
    /\ \/ files[path].state # "absent" /\ config' = load_from_file(files[path]) /\ informed' = TRUE
       \/ config' = ServerConfig /\ informed' = FALSE
    /\ UNCHANGED <<files, path, opts, saver, created, foreign>>

(* save_to_file has returned ok; handle_config_file takes the built-in     *)
(* configuration if that was false, main goes on regardless.               *)
SaveReturns(ok) ==
    /\ pc' = IF saver = "parse" THEN "override" ELSE "start"
    /\ IF saver = "parse" /\ ~ ok
       THEN config' = ServerConfig /\ config_file' = NoPath
       ELSE UNCHANGED <<config, config_file>>

(* std::ofstream file(config_file), which truncates the file, or fails.    *)
OpenFile ==
    /\ pc = "opening"
    /\ \/ /\ files' = [files EXCEPT ![path] = EmptyFile]
          /\ created' = [created EXCEPT ![path] = {}]
          /\ pc' = "writing"
          /\ UNCHANGED <<config, config_file, foreign>>
       \/ /\ SaveReturns(FALSE)
          /\ foreign' = foreign \cup {path}
          /\ UNCHANGED <<files, created>>
    /\ UNCHANGED <<path, opts, saver, informed>>

(* file << j.dump(2): written; or dump() throws; or, which is not noticed, *)
(* the device is full, the file was replaced or written to meanwhile, or   *)
(* it was removed.                                                         *)
WriteFile ==
    /\ pc = "writing"
    /\ \/ /\ files[path].state # "absent"
          /\ files' = [files EXCEPT ![path] = JsonFile(Saved(config))]
          /\ created' = [created EXCEPT ![path] = {config}]
          /\ SaveReturns(TRUE)
          /\ UNCHANGED foreign
       \/ /\ SaveReturns(FALSE)
          /\ foreign' = foreign \cup {path}
          /\ UNCHANGED <<files, created>>
       \/ /\ files[path].state # "absent"
          /\ \E rest \in {files[path], OtherFile} : files' = [files EXCEPT ![path] = rest]
          /\ SaveReturns(TRUE)
          /\ foreign' = foreign \cup {path}
          /\ UNCHANGED created
       \/ /\ files[path].state = "absent"
          /\ SaveReturns(TRUE)
          /\ UNCHANGED <<files, created, foreign>>
    /\ UNCHANGED <<path, opts, saver, informed>>

(* The rest of parse: overrides, then validation, which may throw.         *)
Override ==
    LET c == apply_cli_overrides(config, opts)
    IN  /\ pc = "override"
        /\ config' = c
        /\ pc' = IF validate(c) THEN "prepare" ELSE "off"
        /\ UNCHANGED <<files, path, opts, saver, config_file, created, foreign, informed>>

(* Seeded error: main saves its configuration even if the file exists.     *)
SavesAlways == config_file # NoPath

NeedsFile == config_file # NoPath /\ files[config_file].state = "absent"

(* main: init_logging, which throws if the log cannot be opened, the       *)
(* directories, and the question whether there is a configuration file.    *)
Prepare ==
    /\ pc = "prepare"
    /\ saver' = "main"
    /\ \/ config.enable_file_logging /\ pc' = "off"
       \/ pc' = IF NeedsFile THEN "opening" ELSE "start"
    /\ informed' = (NeedsFile \/ informed)
    /\ UNCHANGED <<files, path, opts, config, config_file, created, foreign>>

(* run_application: the services open their databases or throw.            *)
RunApplication ==
    /\ pc = "start"
    /\ pc' = IF \A f \in DbFields : config[f] \in DatabaseFiles THEN "running" ELSE "off"
    /\ UNCHANGED <<files, path, opts, saver, config, config_file, created, foreign, informed>>

(* The process ends or is killed, wherever it is.                          *)
Exit ==
    /\ pc # "off"
    /\ pc' = "off"
    /\ UNCHANGED <<files, path, opts, saver, config, config_file, created, foreign, informed>>

(* An operator or another process writes or removes a file, at any time.   *)
Edit(p, file) ==
    /\ files' = [files EXCEPT ![p] = file]
    /\ created' = [created EXCEPT ![p] = {}]
    /\ foreign' = IF file = NoFile THEN foreign \ {p} ELSE foreign \cup {p}
    /\ informed' = (informed /\ p # path)
    /\ UNCHANGED process

Edits == {NoFile, EmptyFile, OtherFile} \cup {JsonFile(j) : j \in Contents}

ConfigNext ==
    \/ \E p \in Paths : \/ \E o \in Options : Launch(p, o)
                        \/ \E file \in Edits : Edit(p, file)
    \/ Peek \/ Load \/ OpenFile \/ WriteFile \/ Override \/ Prepare \/ RunApplication \/ Exit

ConfigSpec == ConfigInit /\ [][ConfigNext]_configVars

-----------------------------------------------------------------------------
(* parse() has returned: the configuration is the one the process runs with. *)
Accepted == pc \in {"prepare", "start", "running"} \/ (saver = "main" /\ pc \in {"opening", "writing"})

(* Every option given on the command line holds in the process, whatever   *)
(* the file says, and also when the file is unreadable or was just made;   *)
(* a log file turns file logging on, even against its own option.          *)
OptionsWin ==
    Accepted =>
        /\ \A f \in DOMAIN opts : (f = "enable_file_logging" => "log_file" \notin DOMAIN opts) =>
              config[f] = Taken(f, opts[f], config[f])
        /\ "log_file" \in DOMAIN opts => config.enable_file_logging

(* A start without options on a file that the server itself wrote is not  *)
(* refused and gives the configuration that was saved: the run that made   *)
(* the file, with its options, and every later one that could read it      *)
(* agree on every member (save_to_file, from_json, validate).              *)
RestartKeepsConfig ==
    (Accepted \/ pc = "override") /\ DOMAIN opts = {} /\ created[path] # {} /\ informed =>
        created[path] = {config} /\ validate(config)

(* On a file that only the server has touched, that it could read and      *)
(* whose writing did not fail, the databases are named at every start,     *)
(* also after crashes that left the file truncated: it never runs into the *)
(* empty paths of the built-in configuration.                              *)
DatabasesNamed ==
    Accepted /\ path \notin foreign /\ informed => \A f \in DbFields : config[f] # ""

(* A process changes a file that has content only if it could not look at  *)
(* it or somebody has touched the file since it looked: otherwise content  *)
(* is changed by others alone (handle_config_file, main, save_to_file).    *)
FilesKept ==
    [][\A p \in Paths : files[p].state \in {"json", "other"} =>
           \/ files'[p] = files[p]
           \/ \E file \in Edits : Edit(p, file)
           \/ p = path /\ ~ informed]_configVars
=============================================================================
