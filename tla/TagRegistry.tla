---------------------------- MODULE TagRegistry ----------------------------
(***************************************************************************)
(* The static tag table of tag_registry.cpp.  A tag is named by its id;    *)
(* the fields the services branch on are functions of it.  The table is    *)
(* compiled in and never changes, so it is a set of constants.             *)
(***************************************************************************)
EXTENDS Naturals, Sequences, FiniteSets

CONSTANTS
  TagId,      \* the ids in the table
  Registry,   \* gTags[]: the ids in table order
  Access,     \* tag_access_t of each tag
  TopicType,  \* tag_topic_type_t of each tag
  Source,     \* tag_source_t of each tag
  DataType,   \* tag_type_t of each tag
  Address,    \* sourceConfig.modbus.address of each tag,
  Quantity,   \* its quantity
  FunctionCode,   \* and its functionCode
  NONE        \* a null pointer, or an empty hand

ASSUME RegistryAssumption ==
  /\ Registry \in Seq(TagId) /\ Registry # <<>>
  /\ \A i, j \in DOMAIN Registry : Registry[i] = Registry[j] => i = j
  /\ Access \in [TagId -> {"READ_ONLY", "WRITE_ONLY", "READ_WRITE"}]
  /\ TopicType \in [TagId -> {"SUBSCRIBE", "PUBLISH"}]
  /\ Source \in [TagId -> {"MODBUS", "CAN", "SYSTEM"}]
  /\ DataType \in [TagId -> {"BOOL", "UINT16", "INT16", "UINT32", "INT32",
                              "FLOAT32", "STRING"}]
  /\ Address \in [TagId -> Nat]
  /\ Quantity \in [TagId -> Nat]
  /\ FunctionCode \in [TagId -> Nat]
  \* No check stops a poll with the function code of a write: the table has none.
  /\ \A t \in TagId : Source[t] = "MODBUS" /\ Access[t] # "WRITE_ONLY"
                        => FunctionCode[t] \in 1 .. 4
  /\ NONE \notin TagId

tag_count == Len(Registry)

\* Valid for indices 1 .. tag_count, the only ones the services pass.
tag_get_at(i) == Registry[i]

\* A topic that belongs to a tag is represented by the tag's id.
tag_find_by_topic(topic) == IF topic \in TagId THEN topic ELSE NONE

\* The tags acquisition_scan polls: it passes over write-only ones alone.
Polled == {t \in TagId : Access[t] # "WRITE_ONLY"}

\* The types the switches of the services have a case for.
Supported(t) == DataType[t] # "STRING"

\* The tags the subscriber accepts commands for.
Commandable ==
  {t \in TagId : /\ TopicType[t] = "SUBSCRIBE"
                 /\ Access[t] = "WRITE_ONLY"
                 /\ Supported(t)}
============================================================================
