------------------------------- MODULE OramParse -------------------------------
(***************************************************************************)
(* The configuration of a client or a server (parse/oram_parse,            *)
(* base/oram_config): a YAML file if one is found, otherwise the command   *)
(* line.  Values are opaque except where a later step looks at them.       *)
(***************************************************************************)
EXTENDS Naturals, Sequences

CONSTANTS
    Malformed,       \* a value that is no number and no truth value
    Nested,          \* a value that is not a scalar
    ACharacter       \* a number that was assigned to a string

default_config_path == "config.yaml"

\* base/oram_config.h; "default" where no step looks at the value.
default_config ==
    [oram_type |-> "kPathOram", block_num |-> 100000, bucket_size |-> "default",
     id |-> 0, crt_path |-> "server.crt", key_path |-> "default",
     server_address |-> "default", server_port |-> "default",
     enable_proxy |-> FALSE, proxy_address |-> "default", proxy_port |-> "default",
     log_level |-> "default", log_frequency |-> "default", odict_size |-> "default",
     client_cache_max_size |-> "default", disable_debugging |-> TRUE,
     filepath |-> ""]

\* Mutant of FieldOf: the number of blocks lands in the field of another key.
FieldOfShifted ==
    [OramType |-> "oram_type", BlockNum |-> "bucket_size", Id |-> "crt_path",
     ServerKeyPath |-> "key_path", FilePath |-> "filepath",
     DisableDebugging |-> "disable_debugging"]

\* The field that each key of the file sets.  That of the id is the path of the
\* certificate.
FieldOf ==
    [OramType |-> "oram_type", BlockNum |-> "block_num", BucketSize |-> "bucket_size",
     Id |-> "crt_path", ServerCrtPath |-> "crt_path", ServerKeyPath |-> "key_path",
     ServerAddress |-> "server_address", EnableProxy |-> "enable_proxy",
     ProxyAddress |-> "proxy_address", ServerPort |-> "server_port",
     ProxyPort |-> "proxy_port", LogLevel |-> "log_level",
     LogFrequency |-> "log_frequency", OdictSize |-> "odict_size",
     ClientCacheMaxSize |-> "client_cache_max_size", FilePath |-> "filepath",
     DisableDebugging |-> "disable_debugging"]

\* Every string converts to these; an unknown type becomes kInvalid.
TextKeys == {"OramType", "ServerCrtPath", "ServerKeyPath", "ServerAddress",
             "ProxyAddress", "LogLevel", "FilePath"}

StrToType(type) ==
    CASE type = "PathOram" -> "kPathOram"
      [] type = "SquareRootOram" -> "kSquareOram"
      [] type = "LinearOram" -> "kLinearOram"
      [] type = "PartitionOram" -> "kPartitionOram"
      [] type = "CuckooOram" -> "kCuckooOram"
      [] type = "ODS" -> "kOds"
      [] OTHER -> "kInvalid"

Converted(key, val) ==
    CASE key = "OramType" -> StrToType(val)
      [] key = "Id" -> ACharacter
      [] OTHER -> val

\* The status of one entry, and the configuration with it.  The value is logged as a
\* string before the key is looked at, outside of TryExec.
TryExec(entry) ==
    IF entry.val = Nested THEN "throws"
    ELSE IF entry.key \notin DOMAIN FieldOf THEN "kInvalidArgument"
    ELSE IF entry.val = Malformed /\ entry.key \notin TextKeys THEN "kUnknownError"
    ELSE "kOK"

DoParse(config, entry) ==
    [config EXCEPT ![FieldOf[entry.key]] = Converted(entry.key, entry.val)]

\* Every flag has a value, given or its default.  An unknown type is kInvalid.
DoCommandLine(flags) ==
    [f \in DOMAIN default_config |->
        IF f \notin DOMAIN flags THEN default_config[f]
        ELSE IF f = "oram_type" THEN StrToType(flags[f]) ELSE flags[f]]

\* What Parse does, given the environment variable and the files that exist.  When
\* the named file is missing and the default one exists, it is still the named
\* one that is opened.
Parse(s) ==
    LET path == IF s.env = "unset" THEN default_config_path ELSE s.env IN
    IF path \notin DOMAIN s.files /\ default_config_path \notin DOMAIN s.files
    THEN "kFileNotFound"
    ELSE IF path \in s.not_yaml THEN "kFileIOError"
    ELSE IF path \notin DOMAIN s.files THEN "throws"
    ELSE "reads"

Entries(s) == s.files[IF s.env = "unset" THEN default_config_path ELSE s.env]
===============================================================================
