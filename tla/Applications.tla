----------------------------- MODULE Applications -----------------------------
(***************************************************************************)
(* The applications: in each behaviour either stress_servers and           *)
(* stress_clients run, or a chat_server and its chat_clients.              *)
(***************************************************************************)
EXTENDS StressTest

CONSTANTS
  ChatClient, ChatServer,  \* the sessions of a chat
  MaxLines, MaxJoins,      \* the bounds of Chat
  Length                   \* the characters of the texts

VARIABLES
  demo,  \* "stress" or "chat"
  remotes, outgoing, chatServed, blocked, chatLinked, offered, paired,
  chatRequests, chatAnswers, toServer, toClient, heard, chatTaken, chatRemote,
  chatMain, chatAttempts, lines, got

Talk == INSTANCE Chat WITH
  Client <- ChatClient, Server <- ChatServer,
  served <- chatServed, linked <- chatLinked, taken <- chatTaken,
  requests <- chatRequests, answers <- chatAnswers,
  remote <- chatRemote, main <- chatMain, attempts <- chatAttempts

ASSUME TalkAssumption == Talk!ChatAssumption

chatVars ==
  <<remotes, outgoing, chatServed, blocked, chatLinked, offered, paired,
    chatRequests, chatAnswers, toServer, toClient, heard, chatTaken, chatRemote,
    chatMain, chatAttempts, lines, got>>

demoVars == <<demo, vars, chatVars>>

DemoInit == Init /\ Talk!Init /\ demo \in {"stress", "chat"}

StressStep == demo = "stress" /\ Next /\ UNCHANGED chatVars

ChatStep == demo = "chat" /\ Talk!Next /\ UNCHANGED vars

DemoNext == (StressStep \/ ChatStep) /\ UNCHANGED demo

DemoSpec == DemoInit /\ [][DemoNext]_demoVars /\ Talk!Fairness

-----------------------------------------------------------------------------
\* Every variable of both pairs of programs holds values of its kind.
AllTypeOK == TypeOK /\ Talk!TypeOK

\* A chat_client's remote is a server that its session is connected with.
ChatRemoteIsConnected == Talk!ChatRemoteIsConnected

\* A chat_client gets a text of another once at most while the chat_server has
\* made one connection with either, and its own never.
HeardOnce == Talk!HeardOnce

\* A text that fits and reaches the chat_server reaches every other client that
\* stays and that was sent no text that does not fit.
EveryoneHears == Talk!EveryoneHears
=============================================================================
