----------------------------- MODULE WitExports -----------------------------
(***************************************************************************)
(* The generated wrappers of the Go component's exports.  A wrapper lifts  *)
(* its arguments into Go values, calls the hand-written function and       *)
(* lowers what it returns; every offset, stride and tag in it is a number  *)
(* the generator wrote down.  A definition below says of one wrapper what  *)
(* it takes and gives (its WIT signature), where it reads each argument    *)
(* and where it writes each part of its result.                            *)
(*                                                                         *)
(* Offsets are in bytes of the static return area, of the element of a     *)
(* list or of spilled parameters; Arg... places are numbers of arguments.  *)
(* A discriminant is read as four bytes and cut to the low one, which is   *)
(* the byte the ABI stores.                                                *)
(***************************************************************************)
EXTENDS WitTypes

Export(takes, gives, lifts, lowers) ==
  [takes |-> Rec(takes), gives |-> gives, lifts |-> Fields(lifts), lowers |-> lowers]

Arg(n) == Scalar(n, 1)
ArgText(n) == Pair(n, n + 1)
ArgMaybe(n, some) == Switch(n, <<Nil, some>>)
ArgItems(n, stride, elem) == Items(n, n + 1, stride, elem)
Byte(at) == Scalar(at, 1)
Half(at) == Scalar(at, 2)
Word(at) == Scalar(at, 4)
Long(at) == Scalar(at, 8)
TextAt(at) == Pair(at, at + 4)
ItemsAt(at, stride, elem) == Items(at, at + 4, stride, elem)
Maybe(at, some) == Switch(at, <<Nil, some>>)
MaybeText(at) == Maybe(at, TextAt(at + 4))
EitherText(at) == Switch(at, <<TextAt(at + 4), TextAt(at + 4)>>)
TextsAt(at) == ItemsAt(at, 8, TextAt(0))
TwoTexts == Fields(<<TextAt(0), TextAt(8)>>)
PairsAt(at) == ItemsAt(at, 16, TwoTexts)
ArgTexts(n) == ArgItems(n, 8, TextAt(0))
ArgPairs(n) == ArgItems(n, 16, TwoTexts)

-----------------------------------------------------------------------------
StateGet ==
  Export(<<Text, Text, Opt(Consistency), Metadata>>, Res(GetStateResponse, StateGetError),
         <<ArgText(0), ArgText(2), ArgMaybe(4, Arg(5)), ArgPairs(6)>>,
         Switch(0, <<Fields(<<TextAt(4), MaybeText(12)>>), Maybe(4, EitherText(8))>>))

GetBulk ==
  Export(<<Text, List(Text), Opt(U32), Metadata>>, Res(List(BulkStateItem), StateError),
         <<ArgText(0), ArgTexts(2), ArgMaybe(4, Arg(5)), ArgPairs(6)>>,
         Switch(0, <<ItemsAt(4, 40, Fields(<<TextAt(0), TextAt(8), MaybeText(16),
         MaybeText(28)>>)), EitherText(4)>>))

Query ==
  Export(<<Text, Text, Metadata>>, Res(QueryResponse, QueryError),
         <<ArgText(0), ArgText(2), ArgPairs(4)>>,
         Switch(0, <<Fields(<<ItemsAt(4, 28, Fields(<<TextAt(0), TextAt(8), MaybeText(16)>>)),
         MaybeText(12)>>), Switch(4, <<Nil, TextAt(8), EitherText(8)>>)>>))

Invoke ==
  Export(<<Text, Text, HttpVerb, Metadata, Opt(Text), Blob>>, Res(HttpResponse, InvokeError),
         <<ArgText(0), ArgText(2), Arg(4), ArgPairs(5), ArgMaybe(7, ArgText(8)), ArgText(10)>>,
         Switch(0, <<Fields(<<Half(4), PairsAt(8), TextAt(16)>>), EitherText(4)>>))

ConfigurationGet ==
  Export(<<Text, List(Text), Metadata>>, Res(List(Rec(<<Text, ConfigurationItem>>)),
         ConfigurationError),
         <<ArgText(0), ArgTexts(2), ArgPairs(4)>>,
         Switch(0, <<ItemsAt(4, 32, Fields(<<TextAt(0), Fields(<<TextAt(8), TextAt(16),
         PairsAt(24)>>)>>)), EitherText(4)>>))
-----------------------------------------------------------------------------
\* What next-event writes behind the tag at 8, for the events with a payload.
InvokeAt ==
  Fields(<<TextAt(12), Byte(20), PairsAt(24), MaybeText(32), TextAt(44), TextAt(52)>>)

TopicAt ==
  Fields(<<TextAt(12), TextAt(20), TextAt(28), TextAt(36), MaybeText(44), TextAt(56), TextAt(64),
           TextAt(72), MaybeText(80), PairsAt(92)>>)

BulkEntryAt ==
  Fields(<<TextAt(0),
           Switch(8, <<Fields(<<TextAt(12), TextAt(20), TextAt(28), TextAt(36), MaybeText(44),
                                TextAt(56), TextAt(64), TextAt(72), MaybeText(80), PairsAt(92)>>),
                       TextAt(12)>>),
           MaybeText(100), PairsAt(112)>>)

BulkTopicAt ==
  Fields(<<TextAt(12), ItemsAt(20, 120, BulkEntryAt), PairsAt(28), TextAt(36), TextAt(44),
           TextAt(52), MaybeText(60)>>)

BindingAt == Fields(<<TextAt(12), TextAt(20), PairsAt(28)>>)
JobAt == Fields(<<TextAt(12), TextAt(20), MaybeText(28)>>)
ActorInvokeAt == Fields(<<TextAt(12), TextAt(20), TextAt(28), TextAt(36)>>)

ActorTimerAt ==
  Fields(<<TextAt(12), TextAt(20), TextAt(28), MaybeText(36), MaybeText(48), TextAt(60),
           MaybeText(68)>>)

ActorReminderAt ==
  Fields(<<TextAt(12), TextAt(20), TextAt(28), MaybeText(36), MaybeText(48), TextAt(60)>>)

ActorDeactivateAt == Fields(<<TextAt(12), TextAt(20)>>)

ConfigurationUpdateAt ==
  Fields(<<TextAt(12), TextAt(20),
           ItemsAt(28, 32, Fields(<<TextAt(0), Fields(<<TextAt(8), TextAt(16), PairsAt(24)>>)>>))>>)

Attach ==
  Export(<<>>, Unit,
         <<>>,
         Nil)

NextEvent ==
  Export(<<>>, Rec(<<U64, Event>>),
         <<>>,
         Fields(<<Long(0), Switch(8, <<Nil, Nil, Nil, Nil, InvokeAt, TopicAt, BulkTopicAt,
         BindingAt, JobAt, ActorInvokeAt, ActorTimerAt, ActorReminderAt, ActorDeactivateAt,
         ConfigurationUpdateAt>>)>>))

\* What complete-event reads behind the tag at 8 of its spilled parameters.
SubscriptionsFrom ==
  ItemsAt(12, 84,
    Fields(<<TextAt(0), TextAt(8), PairsAt(16), MaybeText(24),
             Maybe(36, Fields(<<PairsAt(40), MaybeText(48)>>)),
             Maybe(60, Fields(<<Byte(64), Maybe(68, Word(72)), Maybe(76, Word(80))>>))>>))

ActorConfigFrom ==
  Fields(<<TextsAt(12), MaybeText(20), MaybeText(32), MaybeText(44), Maybe(56, Byte(57)),
           Maybe(58, Byte(59)), Maybe(60, Word(64)), Maybe(68, Word(72))>>)

ResponseFrom == Fields(<<Half(12), PairsAt(16), TextAt(24)>>)
EntryStatusesFrom == ItemsAt(12, 12, Fields(<<TextAt(0), Byte(8)>>))

StatesFrom ==
  ItemsAt(28, 40,
    Fields(<<TextAt(0), TextAt(8), MaybeText(16), PairsAt(28),
             Maybe(36, Fields(<<Byte(37), Byte(38)>>))>>))

BindingFrom ==
  Switch(12, <<Fields(<<MaybeText(16), StatesFrom, TextsAt(36), MaybeText(44), Byte(56)>>),
               TextAt(16)>>)

CompleteEvent ==
  Export(<<U64, EventResult>>, Unit,
         <<Long(0), Switch(8, <<SubscriptionsFrom, TextsAt(12), ActorConfigFrom, MaybeText(12),
         ResponseFrom, Byte(12), EntryStatusesFrom, BindingFrom, MaybeText(12), EitherText(12),
         MaybeText(12), MaybeText(12), MaybeText(12), Nil>>)>>,
         Nil)
-----------------------------------------------------------------------------
Save ==
  Export(<<Text, List(StateItem), Metadata>>, Res(Unit, WriteError),
         <<ArgText(0), ArgItems(2, 40, Fields(<<TextAt(0), TextAt(8), MaybeText(16),
         PairsAt(28), Maybe(36, Fields(<<Byte(37), Byte(38)>>))>>)), ArgPairs(4)>>,
         Maybe(0, Switch(4, <<MaybeText(8), EitherText(8)>>)))

StateDelete ==
  Export(<<Text, Text, Opt(Text), Opt(StateOptions), Metadata>>, Res(Unit, WriteError),
         <<ArgText(0), ArgText(2), ArgMaybe(4, ArgText(5)), Switch(7, <<Nil, Fields(<<Arg(8),
         Arg(9)>>)>>), ArgPairs(10)>>,
         Maybe(0, Switch(4, <<MaybeText(8), EitherText(8)>>)))

ExecuteTransaction ==
  Export(<<Text, List(TransactionRequest), Metadata>>, Res(Unit, TransactionError),
         <<ArgText(0), ArgItems(2, 48, Fields(<<Byte(0), TextAt(4), MaybeText(12),
         MaybeText(24), PairsAt(36), Maybe(44, Fields(<<Byte(45), Byte(46)>>))>>)),
         ArgPairs(4)>>,
         Maybe(0, Switch(4, <<MaybeText(8), Nil, EitherText(8)>>)))

Publish ==
  Export(<<Text, Text, Blob, Opt(Text), Metadata>>, Res(Unit, PubsubError),
         <<ArgText(0), ArgText(2), ArgText(4), ArgMaybe(6, ArgText(7)), ArgPairs(9)>>,
         Maybe(0, EitherText(4)))

PublishBulk ==
  Export(<<Text, Text, List(BulkPublishEntry), Metadata>>, Res(List(BulkPublishFailedEntry),
         PublishBulkError),
         <<ArgText(0), ArgText(2), ArgItems(4, 32, Fields(<<TextAt(0), TextAt(8), TextAt(16),
         PairsAt(24)>>)), ArgPairs(6)>>,
         Switch(0, <<PairsAt(4), Maybe(4, EitherText(8))>>))

GetSecret ==
  Export(<<Text, Text, Metadata>>, Res(Secret, GetSecretError),
         <<ArgText(0), ArgText(2), ArgPairs(4)>>,
         Switch(0, <<PairsAt(4), Maybe(4, EitherText(8))>>))

GetBulkSecret ==
  Export(<<Text, Metadata>>, Res(List(Rec(<<Text, Secret>>)), SecretsError),
         <<ArgText(0), ArgPairs(2)>>,
         Switch(0, <<ItemsAt(4, 16, Fields(<<TextAt(0), PairsAt(8)>>)), EitherText(4)>>))

InvokeBinding ==
  Export(<<Text, Text, Blob, Metadata>>, Res(InvokeBindingResponse, InvokeBindingError),
         <<ArgText(0), ArgText(2), ArgText(4), ArgPairs(6)>>,
         Switch(0, <<Fields(<<TextAt(4), PairsAt(12)>>), Switch(4, <<TextAt(8),
         EitherText(8)>>)>>))

SubscriptionId ==
  Export(<<Handle>>, Text,
         <<Arg(0)>>,
         TextAt(0))

Subscribe ==
  Export(<<Text, List(Text), Metadata>>, Res(Handle, ConfigurationError),
         <<ArgText(0), ArgTexts(2), ArgPairs(4)>>,
         Switch(0, <<Word(4), EitherText(4)>>))

TryLock ==
  Export(<<Text, Text, Text, U32>>, Res(Unit, TryLockError),
         <<ArgText(0), ArgText(2), ArgText(4), Arg(6)>>,
         Maybe(0, Maybe(4, EitherText(8))))

Unlock ==
  Export(<<Text, Text, Text>>, Res(Unit, UnlockError),
         <<ArgText(0), ArgText(2), ArgText(4)>>,
         Maybe(0, Switch(4, <<Nil, Nil, EitherText(8)>>)))

\* A mutant: an option placed right behind the status byte, unaligned.
WorkflowGetUnaligned ==
  Export(<<Text>>, Res(WorkflowInstance, WorkflowGetError),
         <<ArgText(0)>>,
         Switch(0, <<Fields(<<TextAt(4), TextAt(12), TextAt(20), TextAt(28), Byte(36),
         MaybeText(37), MaybeText(52), Maybe(64, Fields(<<TextAt(68), TextAt(76),
         MaybeText(84)>>)), PairsAt(96)>>), Switch(4, <<TextAt(8), EitherText(8)>>)>>))

WorkflowGet ==
  Export(<<Text>>, Res(WorkflowInstance, WorkflowGetError),
         <<ArgText(0)>>,
         Switch(0, <<Fields(<<TextAt(4), TextAt(12), TextAt(20), TextAt(28), Byte(36),
         MaybeText(40), MaybeText(52), Maybe(64, Fields(<<TextAt(68), TextAt(76),
         MaybeText(84)>>)), PairsAt(96)>>), Switch(4, <<TextAt(8), EitherText(8)>>)>>))

Start ==
  Export(<<Text, Opt(Text), Blob>>, Res(Text, StartError),
         <<ArgText(0), ArgMaybe(2, ArgText(3)), ArgText(5)>>,
         Switch(0, <<TextAt(4), Switch(4, <<TextAt(8), EitherText(8)>>)>>))

Terminate ==
  Export(<<Text>>, Res(Unit, InstanceError),
         <<ArgText(0)>>,
         Maybe(0, Switch(4, <<TextAt(8), TextAt(8), EitherText(8)>>)))

RaiseEvent ==
  Export(<<Text, Text, Blob>>, Res(Unit, InstanceError),
         <<ArgText(0), ArgText(2), ArgText(4)>>,
         Maybe(0, Switch(4, <<TextAt(8), TextAt(8), EitherText(8)>>)))

Pause ==
  Export(<<Text>>, Res(Unit, InstanceError),
         <<ArgText(0)>>,
         Maybe(0, Switch(4, <<TextAt(8), TextAt(8), EitherText(8)>>)))

Resume ==
  Export(<<Text>>, Res(Unit, InstanceError),
         <<ArgText(0)>>,
         Maybe(0, Switch(4, <<TextAt(8), TextAt(8), EitherText(8)>>)))

Purge ==
  Export(<<Text>>, Res(Unit, InstanceError),
         <<ArgText(0)>>,
         Maybe(0, Switch(4, <<TextAt(8), TextAt(8), EitherText(8)>>)))

JobGet ==
  Export(<<Text>>, Res(Job, GetJobError),
         <<ArgText(0)>>,
         Switch(0, <<Fields(<<MaybeText(4), Maybe(16, Word(20)), MaybeText(24), MaybeText(36),
         MaybeText(48), Maybe(60, Maybe(64, Fields(<<Maybe(68, Word(72)), MaybeText(76)>>)))>>),
         Maybe(4, Switch(8, <<TextAt(12)>>))>>))

Schedule ==
  Export(<<Text, Job, U8>>, Res(Unit, ScheduleError),
         <<TextAt(0), Fields(<<MaybeText(8), Maybe(20, Word(24)), MaybeText(28), MaybeText(40),
         MaybeText(52), Maybe(64, Maybe(68, Fields(<<Maybe(72, Word(76)), MaybeText(80)>>)))>>),
         Byte(92)>>,
         Maybe(0, Switch(4, <<TextAt(8), TextAt(8), Switch(8, <<TextAt(12)>>)>>)))

JobDelete ==
  Export(<<Text>>, Res(Unit, JobsError),
         <<ArgText(0)>>,
         Maybe(0, Switch(4, <<TextAt(8)>>)))

Encrypt ==
  Export(<<Text, Blob, EncryptOptions>>, Res(Blob, EncryptError),
         <<ArgText(0), ArgText(2), Fields(<<ArgText(4), ArgText(6), ArgMaybe(8, ArgText(9)),
         ArgMaybe(11, Arg(12)), ArgMaybe(13, ArgText(14))>>)>>,
         Switch(0, <<TextAt(4), Switch(4, <<TextAt(8), TextAt(8), EitherText(8)>>)>>))

Decrypt ==
  Export(<<Text, Blob, Opt(Text)>>, Res(Blob, DecryptError),
         <<ArgText(0), ArgText(2), ArgMaybe(4, ArgText(5))>>,
         Switch(0, <<TextAt(4), Switch(4, <<TextAt(8), TextAt(8), EitherText(8)>>)>>))

NewEncryptor ==
  Export(<<Text, EncryptOptions>>, Handle,
         <<ArgText(0), Fields(<<ArgText(2), ArgText(4), ArgMaybe(6, ArgText(7)), ArgMaybe(9,
         Arg(10)), ArgMaybe(11, ArgText(12))>>)>>,
         Arg(0))

EncryptorWrite ==
  Export(<<Handle, Blob>>, Res(Unit, EncryptError),
         <<Arg(0), ArgText(1)>>,
         Maybe(0, Switch(4, <<TextAt(8), TextAt(8), EitherText(8)>>)))

EncryptorFinish ==
  Export(<<Handle>>, Res(Handle, EncryptError),
         <<Arg(0)>>,
         Switch(0, <<Word(4), Switch(4, <<TextAt(8), TextAt(8), EitherText(8)>>)>>))

NewDecryptor ==
  Export(<<Text, Opt(Text)>>, Handle,
         <<ArgText(0), ArgMaybe(2, ArgText(3))>>,
         Arg(0))

DecryptorWrite ==
  Export(<<Handle, Blob>>, Res(Unit, DecryptError),
         <<Arg(0), ArgText(1)>>,
         Maybe(0, Switch(4, <<TextAt(8), TextAt(8), EitherText(8)>>)))

DecryptorFinish ==
  Export(<<Handle>>, Res(Handle, DecryptError),
         <<Arg(0)>>,
         Switch(0, <<Word(4), Switch(4, <<TextAt(8), TextAt(8), EitherText(8)>>)>>))

CryptoOutputRead ==
  Export(<<Handle, U64>>, Opt(Blob),
         <<Arg(0), Arg(1)>>,
         MaybeText(0))
-----------------------------------------------------------------------------
\* What converse reads of its spilled parameters, and the answer it writes.
ParticipantFrom == Fields(<<MaybeText(4), TextsAt(16)>>)
ToolCallFrom == Fields(<<MaybeText(0), Fields(<<TextAt(12), TextAt(20)>>)>>)

MessageFrom ==
  Switch(0, <<ParticipantFrom, ParticipantFrom, ParticipantFrom,
              Fields(<<MaybeText(4), TextsAt(16), ItemsAt(24, 28, ToolCallFrom)>>),
              Fields(<<MaybeText(4), TextAt(16), TextsAt(24)>>)>>)

InputsFrom ==
  ItemsAt(8, 12, Fields(<<ItemsAt(0, 32, MessageFrom), Maybe(8, Byte(9))>>))

OptionsFrom ==
  Maybe(16, Fields(<<MaybeText(24), MaybeText(36), PairsAt(48), Maybe(56, Byte(57)),
                     Maybe(64, Long(72)),
                     ItemsAt(80, 32, Fields(<<TextAt(0), MaybeText(8), MaybeText(20)>>)),
                     MaybeText(88), MaybeText(100), MaybeText(112)>>))

ChoicesAt ==
  ItemsAt(0, 32,
    Fields(<<TextAt(0), Long(8),
             Fields(<<TextAt(16),
                      ItemsAt(24, 28, Fields(<<MaybeText(0), Fields(<<TextAt(12), TextAt(20)>>)>>))>>)>>))

UsageAt ==
  Fields(<<Long(32), Long(40), Long(48),
           Maybe(56, Fields(<<Long(64), Long(72), Long(80), Long(88)>>)),
           Maybe(96, Fields(<<Long(104), Long(112)>>))>>)

OutputsAt == ItemsAt(4, 120, Fields(<<ChoicesAt, MaybeText(8), Maybe(24, UsageAt)>>))
ConverseErrorAt == Switch(4, <<TextAt(8), TextAt(8), TextAt(8), EitherText(8)>>)

Converse ==
  Export(<<Text, List(ConversationInput), Opt(ConversationOptions)>>, Res(ConversationResponse,
         ConverseError),
         <<TextAt(0), InputsFrom, OptionsFrom>>,
         Switch(0, <<Fields(<<OutputsAt, MaybeText(12)>>), ConverseErrorAt>>))
-----------------------------------------------------------------------------
ActorsInvoke ==
  Export(<<Text, Text, Text, Blob, Opt(Text)>>, Res(Blob, InvokeActorError),
         <<ArgText(0), ArgText(2), ArgText(4), ArgText(6), ArgMaybe(8, ArgText(9))>>,
         Switch(0, <<TextAt(4), Switch(4, <<TextAt(8), Switch(8, <<TextAt(12)>>)>>)>>))

GetState ==
  Export(<<Text, Text, Text>>, Res(Blob, GetStateError),
         <<ArgText(0), ArgText(2), ArgText(4)>>,
         Switch(0, <<TextAt(4), Maybe(4, Switch(8, <<TextAt(12)>>))>>))

ExecuteStateTransaction ==
  Export(<<Text, Text, List(ActorStateOperation)>>, Res(Unit, ActorsError),
         <<ArgText(0), ArgText(2), ArgItems(4, 24, Fields(<<Byte(0), TextAt(4),
         MaybeText(12)>>))>>,
         Maybe(0, Switch(4, <<TextAt(8)>>)))

RegisterReminder ==
  Export(<<Text, Text, Text, Reminder>>, Res(Unit, ActorsError),
         <<TextAt(0), TextAt(8), TextAt(16), Fields(<<MaybeText(24), MaybeText(36),
         MaybeText(48), MaybeText(60)>>)>>,
         Maybe(0, Switch(4, <<TextAt(8)>>)))

GetReminder ==
  Export(<<Text, Text, Text>>, Res(Text, GetReminderError),
         <<ArgText(0), ArgText(2), ArgText(4)>>,
         Switch(0, <<TextAt(4), Maybe(4, Switch(8, <<TextAt(12)>>))>>))

UnregisterReminder ==
  Export(<<Text, Text, Text>>, Res(Unit, ActorsError),
         <<ArgText(0), ArgText(2), ArgText(4)>>,
         Maybe(0, Switch(4, <<TextAt(8)>>)))

RegisterTimer ==
  Export(<<Text, Text, Text, Timer>>, Res(Unit, ActorsError),
         <<TextAt(0), TextAt(8), TextAt(16), Fields(<<MaybeText(24), MaybeText(36),
         MaybeText(48), MaybeText(60), MaybeText(72)>>)>>,
         Maybe(0, Switch(4, <<TextAt(8)>>)))

UnregisterTimer ==
  Export(<<Text, Text, Text>>, Res(Unit, ActorsError),
         <<ArgText(0), ArgText(2), ArgText(4)>>,
         Maybe(0, Switch(4, <<TextAt(8)>>)))

GetMetadata ==
  Export(<<>>, Res(Text, RuntimeError),
         <<>>,
         Switch(0, <<TextAt(4), Switch(4, <<TextAt(8)>>)>>))

SetMetadataLabel ==
  Export(<<Text, Text>>, Res(Unit, RuntimeError),
         <<ArgText(0), ArgText(2)>>,
         Maybe(0, Switch(4, <<TextAt(8)>>)))

Healthz ==
  Export(<<>>, U8,
         <<>>,
         Arg(0))

OutboundHealthz ==
  Export(<<>>, U8,
         <<>>,
         Arg(0))
-----------------------------------------------------------------------------
Exports ==
  <<StateGet, GetBulk, Query, Invoke, ConfigurationGet, Attach, NextEvent, CompleteEvent,
    Save, StateDelete, ExecuteTransaction, Publish, PublishBulk, GetSecret, GetBulkSecret,
    InvokeBinding, SubscriptionId, Subscribe, TryLock, Unlock, WorkflowGet, Start,
    Terminate, RaiseEvent, Pause, Resume, Purge, JobGet, Schedule, JobDelete, Encrypt,
    Decrypt, NewEncryptor, EncryptorWrite, EncryptorFinish, NewDecryptor, DecryptorWrite,
    DecryptorFinish, CryptoOutputRead, Converse, ActorsInvoke, GetState,
    ExecuteStateTransaction, RegisterReminder, GetReminder, UnregisterReminder,
    RegisterTimer, UnregisterTimer, GetMetadata, SetMetadataLabel, Healthz,
    OutboundHealthz>>
=============================================================================
