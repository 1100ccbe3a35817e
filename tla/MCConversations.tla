--------------------------- MODULE MCConversations ---------------------------
(* Seven components that share no state, explored one after the other: the *)
(* part chosen at the start takes all steps, and the others stay as they   *)
(* are.  Sockets are interchangeable, and so are requests.                 *)
EXTENDS IMConnection, ChatStream, SessionTransfer, WorkspaceFiles, HybridSearch,
        MCKnowledgeSearch, Chunking

VARIABLE part

conversationVars ==
  <<part, vars, chatVars, transferVars, fileVars, messageSearchVars, knowledgeSearchVars, cut>>

ConversationsInit ==
  /\ part \in {"gateway", "chat", "transfer", "files", "messages", "knowledge", "chunks"}
  /\ Init /\ ChatInit /\ TransferInit /\ FilesInit /\ MessageSearchInit /\ KnowledgeSearchInit
  /\ ChunkInit

GatewayPart ==
  /\ part = "gateway" /\ Next
  /\ UNCHANGED <<part, chatVars, transferVars, fileVars, messageSearchVars, knowledgeSearchVars, cut>>
ChatPart ==
  /\ part = "chat" /\ ChatNext
  /\ UNCHANGED <<part, vars, transferVars, fileVars, messageSearchVars, knowledgeSearchVars, cut>>
TransferPart ==
  /\ part = "transfer" /\ TransferNext
  /\ UNCHANGED <<part, vars, chatVars, fileVars, messageSearchVars, knowledgeSearchVars, cut>>
FilesPart ==
  /\ part = "files" /\ FilesNext
  /\ UNCHANGED <<part, vars, chatVars, transferVars, messageSearchVars, knowledgeSearchVars, cut>>
MessagesPart ==
  /\ part = "messages" /\ MessageSearchNext
  /\ UNCHANGED <<part, vars, chatVars, transferVars, fileVars, knowledgeSearchVars, cut>>
KnowledgePart ==
  /\ part = "knowledge" /\ KnowledgeSearchNext
  /\ UNCHANGED <<part, vars, chatVars, transferVars, fileVars, messageSearchVars, cut>>
ChunksPart ==
  /\ part = "chunks" /\ ChunkNext
  /\ UNCHANGED <<part, vars, chatVars, transferVars, fileVars, messageSearchVars, knowledgeSearchVars>>

ConversationsNext ==
  \/ GatewayPart \/ ChatPart \/ TransferPart \/ FilesPart
  \/ MessagesPart \/ KnowledgePart \/ ChunksPart

ConversationsSpec == ConversationsInit /\ [][ConversationsNext]_conversationVars

Interchangeable == Permutations(Sockets) \cup Permutations(Requests)

\* Two sessions to export: a topic, a message in it and one beside it, and two senders of
\* the same name.
AtFirstTopics   == <<TopicRow(1, 0)>>
AtFirstMessages == <<MessageRow(1, 1, 1, 0), MessageRow(1, 0, 2, 0)>>
AtFirstSenders  == <<[name |-> "n", external |-> NoExternal], [name |-> "n", external |-> "x"]>>

\* A file, files below it, and one mounted below skills.
AtFirstFiles == {<<"a">>, <<"a", "b">>, <<"a", "a">>}
AtMounts     == {<<Skills, "a">>}

\* A message without a topic, and two of one time, one of them in a topic.
AtFirstInbox == <<InboxRow(0, 1), InboxRow(1, 2), InboxRow(0, 2)>>

\* The default separators; lines and words; a list that ends without a separator, and one
\* with an empty one before another; a mark, then lines; a mark and a blank, then the mark;
\* two marks; and blanks as wide as a chunk, then words.
AtSeparators == {
  <<>>, <<<<LineEnd>>, <<Space>>>>, <<<<LineEnd>>, <<>>>>, <<<<".">>, <<>>, <<LineEnd>>>>,
  <<<<".">>, <<LineEnd>>>>, <<<<".", Space>>, <<".">>>>, <<<<".", ".">>>>,
  <<<<Space, Space, Space>>, <<Space>>>>}

\* The type invariants of the six modules.
ConversationsTypeOK ==
  TypeOK /\ ChatTypeOK /\ TransferTypeOK /\ FilesTypeOK /\ MessageSearchTypeOK /\ KnowledgeSearchTypeOK
=============================================================================
