--------------------------- MODULE Configuration ---------------------------
(***************************************************************************)
(* The configuration (config.cpp): what is left of the entries of the file *)
(* in the map of servers, the server a client goes to for a block, and the *)
(* blocks a server creates (server.cpp).  Client and server read the same  *)
(* file with the same code, each for itself; what the rest of the project  *)
(* calls Owner and Hosted comes from here.                                 *)
(***************************************************************************)
EXTENDS Naturals, FiniteSets, SequencesExt

CONSTANTS
  Ids,         \* the server ids (ip:port), in the order of the map
  Blocks,
  NoServer,    \* the empty id
  MaxEntries   \* bound: entries of the file

ASSUME ConfigurationAssumption ==
  Ids \in Seq(Range(Ids)) /\ IsInjective(Ids) /\ NoServer \notin Range(Ids) /\ MaxEntries \in Nat

VARIABLES
  servers,   \* the map: of each id in it, the blocks of its entry
  entries,   \* the entries of the file read so far
  failed     \* the parser has thrown

configVars == <<servers, entries, failed>>

ConfigInit == servers = <<>> /\ entries = <<>> /\ failed = FALSE

\* Faulty variant: insert() keeps the first entry of a server.
EntryKept(id, blocks) ==
  /\ ~failed /\ Len(entries) < MaxEntries
  /\ entries' = Append(entries, <<id, blocks>>)
  /\ servers' = [x \in DOMAIN servers \cup {id} |->
                   IF x \in DOMAIN servers THEN servers[x] ELSE blocks]
  /\ UNCHANGED failed
\* One entry of the file: it takes the place of an earlier one of that server.
Entry(id, blocks) ==
  /\ ~failed /\ Len(entries) < MaxEntries
  /\ entries' = Append(entries, <<id, blocks>>)
  /\ servers' = [x \in DOMAIN servers \cup {id} |-> IF x = id THEN blocks ELSE servers[x]]
  /\ UNCHANGED failed

\* An entry without one of its keys, or text that is not YAML.
Error == ~failed /\ failed' = TRUE /\ servers' = <<>> /\ UNCHANGED entries

ConfigNext == Error \/ \E id \in Range(Ids), blocks \in SUBSET Blocks : Entry(id, blocks)
ConfigSpec == ConfigInit /\ [][ConfigNext]_configVars

IsValid == DOMAIN servers # {}

\* Faulty variant: the search forgets what it has found.
FindServerForgets(block) ==
  LET scan[i \in 0 .. Len(Ids)] ==
        IF i = 0 THEN NoServer
        ELSE IF Ids[i] \notin DOMAIN servers THEN scan[i - 1]
        ELSE IF block \in servers[Ids[i]] THEN Ids[i] ELSE NoServer
  IN scan[Len(Ids)]
\* find_server_id_by_block_id looks at every server and keeps the last.
FindServer(block) ==
  LET scan[i \in 0 .. Len(Ids)] ==
        IF i = 0 THEN NoServer
        ELSE IF Ids[i] \in DOMAIN servers /\ block \in servers[Ids[i]] THEN Ids[i] ELSE scan[i - 1]
  IN scan[Len(Ids)]

\* The blocks a server creates when it starts; it does not start without an entry.
Creates(id) == IF id \in DOMAIN servers THEN servers[id] ELSE {}

-----------------------------------------------------------------------------
\* The server a client goes to for a block has created it, and a client finds a
\* server for every block that some server has created: with one file for all,
\* Owner and Hosted agree (config.cpp, server.cpp).
OwnerHosts ==
  \A b \in Blocks :
    IF \E id \in Range(Ids) : b \in Creates(id)
      THEN b \in Creates(FindServer(b))
      ELSE FindServer(b) = NoServer

\* A server listed once serves what its entry lists; of a server listed twice
\* the last entry counts, and nothing is left of a file with an error.
LastEntryCounts ==
  \A id \in Range(Ids) :
    LET of == {i \in DOMAIN entries : entries[i][1] = id} IN
    Creates(id) = IF failed \/ of = {} THEN {} ELSE entries[Max(of)][2]
=============================================================================
