------------------------------ MODULE WitTypes ------------------------------
(***************************************************************************)
(* The WIT types of the exported interfaces, as the Go bindings declare    *)
(* them.  A Go variant holds the number of its case and the case's         *)
(* payload; its accessors panic for any other case ("tag mismatch"), its   *)
(* constructors set both, so <<tag, payload>> is all there is to it.       *)
(***************************************************************************)
EXTENDS CanonicalAbi

\* types
Metadata == List(Rec(<<Text, Text>>))
AppError == Text                              \* a record of one field is laid out as the field

\* state-read and state
Concurrency == U8
Consistency == U8
StateError == Var(<<Text, Text>>)              \* store-not-found, permission-denied
StateGetError == Var(<<Unit, StateError>>)
QueryError == Var(<<Unit, Text, StateError>>)
StateOptions == Rec(<<Concurrency, Consistency>>)
StateItem == Rec(<<Text, Blob, Opt(Text), Metadata, Opt(StateOptions)>>)
GetStateResponse == Rec(<<Blob, Opt(Text)>>)
BulkStateItem == Rec(<<Text, Blob, Opt(Text), Opt(Text)>>)
QueryStateItem == Rec(<<Text, Blob, Opt(Text)>>)
QueryResponse == Rec(<<List(QueryStateItem), Opt(Text)>>)
WriteError == Var(<<Opt(Text), StateError>>)
TransactionError == Var(<<Opt(Text), Unit, StateError>>)
TransactionOperation == U8
TransactionRequest ==
  Rec(<<TransactionOperation, Text, Opt(Blob), Opt(Text), Metadata, Opt(StateOptions)>>)

\* invocation, configuration, pubsub, secrets, bindings, lock
InvokeError == Var(<<Text, Text>>)
HttpVerb == U8
HttpResponse == Rec(<<U16, Metadata, Blob>>)
ConfigurationItem == Rec(<<Text, Text, Metadata>>)
ConfigurationError == Var(<<Text, Text>>)
PubsubError == Var(<<Text, Text>>)
PublishBulkError == Var(<<Unit, PubsubError>>)
BulkPublishEntry == Rec(<<Text, Blob, Text, Metadata>>)
BulkPublishFailedEntry == Rec(<<Text, Text>>)
Secret == Metadata
SecretsError == Var(<<Text, Text>>)
GetSecretError == Var(<<Unit, SecretsError>>)
InvokeBindingResponse == Rec(<<Blob, Metadata>>)
BindingsError == Var(<<Text, Text>>)
InvokeBindingError == Var(<<Text, BindingsError>>)
LockError == Var(<<Text, Text>>)
TryLockError == Var(<<Unit, LockError>>)
UnlockError == Var(<<Unit, Unit, LockError>>)

\* workflow-read and workflow
WorkflowError == Var(<<Text, Text>>)
WorkflowGetError == Var(<<Text, WorkflowError>>)
RuntimeStatus == U8
FailureDetails == Rec(<<Text, Text, Opt(Text)>>)
WorkflowInstance ==
  Rec(<<Text, Text, Text, Text, RuntimeStatus, Opt(Text), Opt(Text), Opt(FailureDetails), Metadata>>)
StartError == Var(<<Text, WorkflowError>>)
InstanceError == Var(<<Text, Text, WorkflowError>>)

\* jobs-read and jobs
JobsError == Var(<<Text>>)
GetJobError == Var(<<Unit, JobsError>>)
JobFailurePolicyConstant == Rec(<<Opt(U32), Opt(Text)>>)
JobFailurePolicy == Var(<<Unit, JobFailurePolicyConstant>>)
Job == Rec(<<Opt(Text), Opt(U32), Opt(Text), Opt(Text), Opt(Text), Opt(JobFailurePolicy)>>)
ScheduleError == Var(<<Text, Text, JobsError>>)

\* crypto
CryptoError == Var(<<Text, Text>>)
EncryptError == Var(<<Text, Text, CryptoError>>)
DecryptError == Var(<<Text, Text, CryptoError>>)
EncryptOptions == Rec(<<Text, Text, Opt(Text), Opt(U8), Opt(Text)>>)

\* actors and runtime
ActorsError == Var(<<Text>>)
InvokeActorError == Var(<<Blob, ActorsError>>)
GetStateError == Var(<<Unit, ActorsError>>)
GetReminderError == Var(<<Unit, ActorsError>>)
ActorStateOperation == Rec(<<U8, Text, Opt(Blob)>>)
Reminder == Rec(<<Opt(Text), Opt(Text), Opt(Text), Opt(Text)>>)
Timer == Rec(<<Opt(Text), Opt(Text), Opt(Text), Opt(Text), Opt(Text)>>)
RuntimeError == Var(<<Text>>)

\* conversation
ConversationError == Var(<<Text, Text>>)
ConverseError == Var(<<Text, Text, Text, ConversationError>>)
ContentPart == Text
ToolCallFunction == Rec(<<Text, Text>>)
ToolCall == Rec(<<Opt(Text), ToolCallFunction>>)
ParticipantMessage == Rec(<<Opt(Text), List(ContentPart)>>)
AssistantMessage == Rec(<<Opt(Text), List(ContentPart), List(ToolCall)>>)
ToolMessage == Rec(<<Opt(Text), Text, List(ContentPart)>>)
Message ==        \* developer, system, user, assistant, tool
  Var(<<ParticipantMessage, ParticipantMessage, ParticipantMessage, AssistantMessage, ToolMessage>>)
ConversationInput == Rec(<<List(Message), Opt(U8)>>)
ToolFunction == Rec(<<Text, Opt(Text), Opt(Text)>>)
Tool == ToolFunction
ConversationOptions ==
  Rec(<<Opt(Text), Opt(Text), Metadata, Opt(U8), Opt(U64), List(Tool), Opt(Text), Opt(Text), Opt(Text)>>)
PromptTokensDetails == Rec(<<U64, U64>>)
CompletionTokensDetails == Rec(<<U64, U64, U64, U64>>)
Usage == Rec(<<U64, U64, U64, Opt(CompletionTokensDetails), Opt(PromptTokensDetails)>>)
ResultMessage == Rec(<<Text, List(ToolCall)>>)
Choice == Rec(<<Text, U64, ResultMessage>>)
ConversationOutput == Rec(<<List(Choice), Opt(Text), Opt(Usage)>>)
ConversationResponse == Rec(<<List(ConversationOutput), Opt(Text)>>)

\* events
InvokeRequest == Rec(<<Text, HttpVerb, Metadata, Opt(Text), Text, Blob>>)
BulkSubscribeConfig == Rec(<<U8, Opt(U32), Opt(U32)>>)
TopicRule == Rec(<<Text, Text>>)
TopicRoutes == Rec(<<List(TopicRule), Opt(Text)>>)
TopicSubscription ==
  Rec(<<Text, Text, Metadata, Opt(Text), Opt(TopicRoutes), Opt(BulkSubscribeConfig)>>)
TopicEvent == Rec(<<Text, Text, Text, Text, Opt(Text), Blob, Text, Text, Opt(Text), Metadata>>)
TopicEventResponse == U8
BulkEvent == Var(<<TopicEvent, Blob>>)
BulkTopicEventEntry == Rec(<<Text, BulkEvent, Opt(Text), Metadata>>)
BulkTopicEvent == Rec(<<Text, List(BulkTopicEventEntry), Metadata, Text, Text, Text, Opt(Text)>>)
BulkTopicEventEntryResponse == Rec(<<Text, TopicEventResponse>>)
BindingEvent == Rec(<<Text, Blob, Metadata>>)
BindingConcurrency == U8
BindingEventResponse ==
  Rec(<<Opt(Text), List(StateItem), List(Text), Opt(Blob), BindingConcurrency>>)
JobEvent == Rec(<<Text, Blob, Opt(Text)>>)
ActorConfig ==
  Rec(<<List(Text), Opt(Text), Opt(Text), Opt(Text), Opt(U8), Opt(U8), Opt(U32), Opt(U32)>>)
ActorTimerEvent == Rec(<<Text, Text, Text, Opt(Text), Opt(Text), Blob, Opt(Text)>>)
ActorReminderEvent == Rec(<<Text, Text, Text, Opt(Text), Opt(Text), Blob>>)
ActorInvoke == Rec(<<Text, Text, Text, Blob>>)
ActorRef == Rec(<<Text, Text>>)
ConfigurationUpdate == Rec(<<Text, Text, List(Rec(<<Text, ConfigurationItem>>))>>)
Event ==
  Var(<<Unit, Unit, Unit, Unit, InvokeRequest, TopicEvent, BulkTopicEvent, BindingEvent, JobEvent,
        ActorInvoke, ActorTimerEvent, ActorReminderEvent, ActorRef, ConfigurationUpdate>>)
EventResult ==
  Var(<<List(TopicSubscription), List(Text), ActorConfig, Res(Unit, AppError), HttpResponse,
        TopicEventResponse, List(BulkTopicEventEntryResponse), Res(BindingEventResponse, AppError),
        Res(Unit, AppError), Res(Blob, AppError), Res(Unit, AppError), Res(Unit, AppError),
        Res(Unit, AppError), Unit>>)
=============================================================================
