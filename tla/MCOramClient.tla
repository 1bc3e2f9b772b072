----------------------------- MODULE MCOramClient -----------------------------
(* An instance of OramClient for TLC: two processes, the first with two clients. *)
EXTENDS OramClient

CONSTANTS p1, p2, c1, c2, c3

MCProcessOf == (c1 :> p1) @@ (c2 :> p1) @@ (c3 :> p2)

NoFlags == [f \in {} |-> ""]
NoFiles == [f \in {} |-> <<>>]
File(entries) == [env |-> "unset", files |-> "config.yaml" :> entries, not_yaml |-> {},
                  flags |-> NoFlags]
Flags(flags) == [env |-> "unset", files |-> NoFiles, not_yaml |-> {}, flags |-> flags]
Entry(key, val) == [key |-> key, val |-> val]

Negotiating == Entry("DisableDebugging", FALSE)

\* Flags, and files with or without an id and other paths.
Flagged == Flags([id |-> 1, oram_type |-> "LinearOram", disable_debugging |-> FALSE])
Unflagged == Flags(NoFlags)
Plain == File(<<Negotiating, Entry("ServerKeyPath", "other.key")>>)
Identified == File(<<Entry("DisableDebugging", TRUE), Entry("Id", 1)>>)
Partitioned == File(<<Entry("OramType", "PartitionOram")>>)

\* An environment that names a file that is not YAML, or one that is missing beside a
\* default one, and files with mistakes.
NotYaml == [env |-> "oram.txt", files |-> "oram.txt" :> <<>>, not_yaml |-> {"oram.txt"},
            flags |-> NoFlags]
Missing == [env |-> "oram.yaml", files |-> "config.yaml" :> <<>>, not_yaml |-> {},
            flags |-> NoFlags]
Mistaken == File(<<Negotiating, Entry("DisableDebugging", Malformed)>>)
Unknown == File(<<Entry("Colour", "red")>>)
Structured == File(<<Entry("BlockNum", Nested)>>)
Untyped == File(<<Entry("OramType", "RingOram")>>)

\* Square Root ORAMs of 12 + 4 and of 13 + 4 blocks, an id over the limit, and data
\* from a file and from one that does not exist.
Sized == File(<<Entry("OramType", "SquareRootOram"), Entry("BlockNum", 12)>>)
Unsized == File(<<Entry("OramType", "SquareRootOram"), Entry("BlockNum", 13)>>)
Oversized == Flags([id |-> 2])
FromFile == [Flags([id |-> 1, oram_type |-> "LinearOram", filepath |-> "data.txt"])
                EXCEPT !.files = "data.txt" :> <<"a line">>]
FromNoFile == Flags([oram_type |-> "LinearOram", filepath |-> "data.txt"])

MCScenarios ==
    {(p1 :> pair[1]) @@ (p2 :> pair[2]) : pair \in
        {<<Flagged, Plain>>, <<Plain, Plain>>, <<Plain, Identified>>,
         <<Partitioned, NotYaml>>, <<Unflagged, Missing>>, <<Identified, Mistaken>>,
         <<Unflagged, Unknown>>, <<Partitioned, Structured>>, <<NotYaml, Untyped>>,
         <<Sized, Oversized>>, <<Partitioned, Unsized>>, <<FromNoFile, FromFile>>}}
===============================================================================
