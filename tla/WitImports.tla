----------------------------- MODULE WitImports -----------------------------
(***************************************************************************)
(* The generated wrappers of the WASI functions the Go component imports:  *)
(* streams, TCP sockets, name lookup, poll and the monotonic clock.  A     *)
(* wrapper lowers its Go arguments into the flat arguments of the import,  *)
(* allocates a return area of `area` bytes when the result is in memory,   *)
(* and lifts what the host wrote there.                                    *)
(*                                                                         *)
(* A method's resource and every resource it is given or makes is a        *)
(* handle.  Arg... places are numbers of arguments, the others offsets in  *)
(* the return area.                                                        *)
(***************************************************************************)
EXTENDS WitExports

Import(takes, gives, lowers, lifts, area) ==
  [takes |-> Rec(takes), gives |-> gives, lowers |-> Fields(lowers), lifts |-> lifts, area |-> area]

StreamError == Var(<<Handle, Unit>>)           \* last-operation-failed, closed
ErrorCode == U8
IpAddressFamily == U8
ShutdownType == U8
Bool == U8
Ipv4Address == Rec([i \in 1..4 |-> U8])
Ipv6Address == Rec([i \in 1..8 |-> U16])
IpAddress == Var(<<Ipv4Address, Ipv6Address>>)
Ipv4SocketAddress == Rec(<<U16, Ipv4Address>>)             \* port, address
Ipv6SocketAddress == Rec(<<U16, U32, Ipv6Address, U32>>)   \* port, flow-info, address, scope-id
IpSocketAddress == Var(<<Ipv4SocketAddress, Ipv6SocketAddress>>)

Self == Arg(0)
Outcome(at, ok) == Switch(0, <<ok, Byte(at)>>)     \* a result whose error is a code
Bytes4(at) == Fields([i \in 1..4 |-> Byte(at + i - 1)])
Halves8(at) == Fields([i \in 1..8 |-> Half(at + 2 * (i - 1))])

-----------------------------------------------------------------------------
\* wasi:io
StreamErrorAt(at) == Switch(at, <<Word(at + 4), Nil>>)
Streamed(at, ok) == Switch(0, <<ok, StreamErrorAt(at)>>)

Read == Import(<<Handle, U64>>, Res(Blob, StreamError), <<Self, Arg(1)>>, Streamed(4, TextAt(4)), 12)
BlockingRead ==
  Import(<<Handle, U64>>, Res(Blob, StreamError), <<Self, Arg(1)>>, Streamed(4, TextAt(4)), 12)
Skip == Import(<<Handle, U64>>, Res(U64, StreamError), <<Self, Arg(1)>>, Streamed(8, Long(8)), 16)
BlockingSkip ==
  Import(<<Handle, U64>>, Res(U64, StreamError), <<Self, Arg(1)>>, Streamed(8, Long(8)), 16)
InputSubscribe == Import(<<Handle>>, Handle, <<Self>>, Arg(0), 0)

CheckWrite == Import(<<Handle>>, Res(U64, StreamError), <<Self>>, Streamed(8, Long(8)), 16)
Write == Import(<<Handle, Blob>>, Res(Unit, StreamError), <<Self, ArgText(1)>>, Streamed(4, Nil), 12)
BlockingWriteAndFlush ==
  Import(<<Handle, Blob>>, Res(Unit, StreamError), <<Self, ArgText(1)>>, Streamed(4, Nil), 12)
Flush == Import(<<Handle>>, Res(Unit, StreamError), <<Self>>, Streamed(4, Nil), 12)
BlockingFlush == Import(<<Handle>>, Res(Unit, StreamError), <<Self>>, Streamed(4, Nil), 12)
OutputSubscribe == Import(<<Handle>>, Handle, <<Self>>, Arg(0), 0)
WriteZeroes == Import(<<Handle, U64>>, Res(Unit, StreamError), <<Self, Arg(1)>>, Streamed(4, Nil), 12)
BlockingWriteZeroesAndFlush ==
  Import(<<Handle, U64>>, Res(Unit, StreamError), <<Self, Arg(1)>>, Streamed(4, Nil), 12)
Splice ==
  Import(<<Handle, Handle, U64>>, Res(U64, StreamError), <<Self, Arg(1), Arg(2)>>,
         Streamed(8, Long(8)), 16)
BlockingSplice ==
  Import(<<Handle, Handle, U64>>, Res(U64, StreamError), <<Self, Arg(1), Arg(2)>>,
         Streamed(8, Long(8)), 16)

ToDebugString == Import(<<Handle>>, Text, <<Self>>, TextAt(0), 8)
Ready == Import(<<Handle>>, Bool, <<Self>>, Arg(0), 0)
Block == Import(<<Handle>>, Unit, <<Self>>, Nil, 0)
Poll == Import(<<List(Handle)>>, List(U32), <<ArgItems(0, 4, Word(0))>>, ItemsAt(0, 4, Word(0)), 8)

-----------------------------------------------------------------------------
\* wasi:sockets/tcp.  An address is a tag and eleven arguments, of which an
\* IPv4 address leaves the last six zero.
AddressArgs ==
  Switch(2, <<Fields(<<Arg(3), Fields([i \in 1..4 |-> Arg(3 + i)])>>),
              Fields(<<Arg(3), Arg(4), Fields([i \in 1..8 |-> Arg(4 + i)]), Arg(13)>>)>>)

AddressAt ==
  Switch(4, <<Fields(<<Half(8), Bytes4(10)>>),
              Fields(<<Half(8), Word(12), Halves8(16), Word(32)>>)>>)

\* Functions that only succeed or fail, getters and setters of an option.
Doing(takes, lowers) ==
  Import(<<Handle>> \o takes, Res(Unit, ErrorCode), <<Self>> \o lowers, Outcome(1, Nil), 2)
GetByte == Import(<<Handle>>, Res(U8, ErrorCode), <<Self>>, Outcome(1, Byte(1)), 2)
GetWord == Import(<<Handle>>, Res(U32, ErrorCode), <<Self>>, Outcome(4, Word(4)), 8)
GetLong == Import(<<Handle>>, Res(U64, ErrorCode), <<Self>>, Outcome(8, Long(8)), 16)

StartBind == Doing(<<Handle, IpSocketAddress>>, <<Arg(1), AddressArgs>>)
FinishBind == Doing(<<>>, <<>>)
StartConnect == Doing(<<Handle, IpSocketAddress>>, <<Arg(1), AddressArgs>>)
FinishConnect ==
  Import(<<Handle>>, Res(Rec(<<Handle, Handle>>), ErrorCode), <<Self>>,
         Outcome(4, Fields(<<Word(4), Word(8)>>)), 12)
StartListen == Doing(<<>>, <<>>)
FinishListen == Doing(<<>>, <<>>)
Accept ==
  Import(<<Handle>>, Res(Rec(<<Handle, Handle, Handle>>), ErrorCode), <<Self>>,
         Outcome(4, Fields(<<Word(4), Word(8), Word(12)>>)), 16)
\* A mutant: a return area with room for the tag and an IPv4 address only.
LocalAddressShort ==
  Import(<<Handle>>, Res(IpSocketAddress, ErrorCode), <<Self>>, Outcome(4, AddressAt), 16)
LocalAddress == Import(<<Handle>>, Res(IpSocketAddress, ErrorCode), <<Self>>, Outcome(4, AddressAt), 36)
RemoteAddress == Import(<<Handle>>, Res(IpSocketAddress, ErrorCode), <<Self>>, Outcome(4, AddressAt), 36)
IsListening == Import(<<Handle>>, Bool, <<Self>>, Arg(0), 0)
AddressFamily == Import(<<Handle>>, IpAddressFamily, <<Self>>, Arg(0), 0)
SetListenBacklogSize == Doing(<<U64>>, <<Arg(1)>>)
KeepAliveEnabled == GetByte
SetKeepAliveEnabled == Doing(<<Bool>>, <<Arg(1)>>)
KeepAliveIdleTime == GetLong
SetKeepAliveIdleTime == Doing(<<U64>>, <<Arg(1)>>)
KeepAliveInterval == GetLong
SetKeepAliveInterval == Doing(<<U64>>, <<Arg(1)>>)
KeepAliveCount == GetWord
SetKeepAliveCount == Doing(<<U32>>, <<Arg(1)>>)
HopLimit == GetByte
SetHopLimit == Doing(<<U8>>, <<Arg(1)>>)
ReceiveBufferSize == GetLong
SetReceiveBufferSize == Doing(<<U64>>, <<Arg(1)>>)
SendBufferSize == GetLong
SetSendBufferSize == Doing(<<U64>>, <<Arg(1)>>)
SocketSubscribe == Import(<<Handle>>, Handle, <<Self>>, Arg(0), 0)
Shutdown == Doing(<<ShutdownType>>, <<Arg(1)>>)

-----------------------------------------------------------------------------
\* Sockets, networks, name lookup and the clock.
CreateTcpSocket ==
  Import(<<IpAddressFamily>>, Res(Handle, ErrorCode), <<Arg(0)>>, Outcome(4, Word(4)), 8)
InstanceNetwork == Import(<<>>, Handle, <<>>, Arg(0), 0)

ResolveAddresses ==
  Import(<<Handle, Text>>, Res(Handle, ErrorCode), <<Arg(0), ArgText(1)>>, Outcome(4, Word(4)), 8)
ResolveNextAddress ==
  Import(<<Handle>>, Res(Opt(IpAddress), ErrorCode), <<Self>>,
         Outcome(2, Maybe(2, Switch(4, <<Bytes4(6), Halves8(6)>>))), 22)
ResolveSubscribe == Import(<<Handle>>, Handle, <<Self>>, Arg(0), 0)

Now == Import(<<>>, U64, <<>>, Arg(0), 0)
Resolution == Import(<<>>, U64, <<>>, Arg(0), 0)
SubscribeInstant == Import(<<U64>>, Handle, <<Arg(0)>>, Arg(0), 0)
SubscribeDuration == Import(<<U64>>, Handle, <<Arg(0)>>, Arg(0), 0)

-----------------------------------------------------------------------------
Imports ==
  <<Read, BlockingRead, Skip, BlockingSkip, InputSubscribe, CheckWrite, Write,
    BlockingWriteAndFlush, Flush, BlockingFlush, OutputSubscribe, WriteZeroes,
    BlockingWriteZeroesAndFlush, Splice, BlockingSplice, ToDebugString, Ready, Block, Poll,
    StartBind, FinishBind, StartConnect, FinishConnect, StartListen, FinishListen, Accept,
    LocalAddress, RemoteAddress, IsListening, AddressFamily, SetListenBacklogSize,
    KeepAliveEnabled, SetKeepAliveEnabled, KeepAliveIdleTime, SetKeepAliveIdleTime,
    KeepAliveInterval, SetKeepAliveInterval, KeepAliveCount, SetKeepAliveCount, HopLimit,
    SetHopLimit, ReceiveBufferSize, SetReceiveBufferSize, SendBufferSize, SetSendBufferSize,
    SocketSubscribe, Shutdown, CreateTcpSocket, InstanceNetwork, ResolveAddresses,
    ResolveNextAddress, ResolveSubscribe, Now, Resolution, SubscribeInstant, SubscribeDuration>>
=============================================================================
