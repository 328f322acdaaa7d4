------------------------------- MODULE Startup -------------------------------
(***************************************************************************)
(* A process from EZMP::Init to the destructor of its MPInterfacer: the    *)
(* self test, the constructor statement by statement, the listener that it *)
(* starts before it has finished, and the application that attaches its    *)
(* callbacks to the finished object.                                       *)
(*                                                                         *)
(* What the listener does with handshakes and ACKs is in Handshake and     *)
(* AckBuffer; here they are packets of kind "other".                       *)
(***************************************************************************)
EXTENDS SelfTest, StunOutput, PortForward

CONSTANTS
    StunTexts,  \* what stunclient.exe may print
    Peers,      \* the addresses packets come from
    Address     \* the constructor's address, which m_SocketAddress holds

ASSUME StartupAssumption == StunTexts \subseteq Seq(STRING)

VARIABLES
    process,    \* "up", or how it ended
    phase,      \* the statement the application's thread has reached
    server,     \* the constructor's argument isServer
    test,       \* the results of Test()
    stun,       \* the last output of the STUN client and what was read from it
    threads,    \* ListenerThread and ACKManagerThread run
    isServer,   \* the member: indeterminate until the constructor's end
    callbacks,  \* m_LatencyCallback and m_ReceiveCallback
    listener    \* the packet the listener handles, or handled last

(* What the two readers make of each output. *)
AddressesRead == [text \in StunTexts |-> getPublicIPAddress(text)]
PortsRead == [text \in StunTexts |-> getPortTranslation(text)]

ctorVars == <<process, phase, server, test, stun, threads, isServer, upnpVars>>
vars == <<ctorVars, callbacks, listener>>

Kinds == {"latency", "data"}
NoPeer == "none"
Untested == [cipher |-> TRUE, exchange |-> TRUE, fits |-> TRUE]
NoOutput == [of |-> "none", text |-> <<>>, address |-> "read", ports |-> Missing]
NoPacket == [at |-> "listen", kind |-> "other", from |-> NoPeer, awaitACK |-> FALSE,
             ready |-> FALSE, attached |-> FALSE, repliedTo |-> NoPeer, called |-> {}]

TypeOK ==
    /\ process \in {"up", "threw", "terminated", "undefined"}
    /\ phase \in {"cipher", "exchange", "address", "whatAmI", "ports", "winsock", "upnp", "bind",
                  "punch", "threads", "key", "greet", "flag", "returned"}
    /\ server \in BOOLEAN /\ isServer \in BOOLEAN /\ threads \in BOOLEAN
    /\ test \in [cipher : BOOLEAN, exchange : BOOLEAN, fits : BOOLEAN]
    /\ stun.of \in {"none", "address", "ports"}
    /\ stun.text = <<>> \/ stun.text \in StunTexts
    /\ stun.address \in {"read", "threw", "undefined"}
    /\ callbacks \in [Kinds -> {"null", "assigning", "attached"}]
    /\ listener \in [at : {"listen", "reply", "dispatch"}, kind : Kinds \cup {"other"},
                     from : Peers \cup {NoPeer}, awaitACK : BOOLEAN, ready : BOOLEAN,
                     attached : BOOLEAN, repliedTo : Peers \cup {NoPeer, Address},
                     called : SUBSET Kinds]
    /\ UPnPTypeOK
    /\ threads <=> phase \in {"key", "greet", "flag", "returned"}

Init ==
    /\ process = "up" /\ phase = "cipher"
    /\ server \in BOOLEAN /\ isServer \in BOOLEAN
    /\ test = Untested /\ stun = NoOutput
    /\ threads = FALSE
    /\ callbacks = [k \in Kinds |-> "null"]
    /\ listener = NoPacket
    /\ UPnPInit

(* An exception leaves the constructor to the application, unless a member is
   a thread that can be joined: its destructor ends the process. *)
Thrown == IF threads THEN "terminated" ELSE "threw"

(* The application's thread goes on from statement p at q. *)
Passes(p, q) == process = "up" /\ phase = p /\ phase' = q /\ process' = process
Throws(p) == process = "up" /\ phase = p /\ phase' = p /\ process' = Thrown

-----------------------------------------------------------------------------
(* EZMP::Init. *)

TestCipher ==
    /\ Passes("cipher", "exchange")
    /\ \E t \in CipherTests :
        test' = [test EXCEPT !.cipher =
                    aes_decrypt(aes_encrypt(t.text, t.key), t.key) = t.text]
    /\ UNCHANGED <<server, stun, threads, isServer, callbacks, listener, upnpVars>>

(* A failed assertion aborts; without assertions Init throws. *)
TestExchange ==
    /\ process = "up" /\ phase = "exchange"
    /\ \E t \in ExchangeTests :
        \E aSide \in SideKeys(t.publicKey, t.bKey, t.aKey),
           bSide \in SideKeys(t.publicKey, t.aKey, t.bKey) :
            test' = [test EXCEPT !.exchange = (aSide = bSide),
                                 !.fits = t.aKey <= IntMax + 1 /\ t.bKey <= IntMax + 1]
    /\ IF test'.cipher /\ test'.exchange
       THEN phase' = "address" /\ process' = process
       ELSE phase' = phase /\ process' \in {"terminated", "threw"}
    /\ UNCHANGED <<server, stun, threads, isServer, callbacks, listener, upnpVars>>

-----------------------------------------------------------------------------
(* The constructor. *)

(* The first run of the STUN client; Utils::exec throws when it cannot start. *)
GetPublicIPAddress ==
    /\ \/ \E text \in StunTexts : \E address \in AddressesRead[text] :
            /\ stun' = [NoOutput EXCEPT !.of = "address", !.text = text, !.address = address]
            /\ \/ address = "read" /\ Passes("address", "whatAmI")
               \/ address = "threw" /\ Throws("address")
               \/ /\ address = "undefined" /\ process = "up" /\ phase = "address"
                  /\ process' = "undefined" /\ phase' = phase
       \/ Throws("address") /\ UNCHANGED stun
    /\ test' = Untested
    /\ UNCHANGED <<server, threads, isServer, callbacks, listener, upnpVars>>

(* whatAmI.IP is made from the array the address never reached. *)
SetWhatAmI ==
    /\ Passes("whatAmI", "ports")
    /\ stun' = NoOutput
    /\ UNCHANGED <<server, test, threads, isServer, callbacks, listener, upnpVars>>

(* The second run, with the port of the session. *)
GetPortTranslation ==
    /\ \/ \E text \in StunTexts :
            /\ stun' = [NoOutput EXCEPT !.of = "ports", !.text = text,
                                        !.ports = PortsRead[text]]
            /\ \/ stun'.ports # Undefined /\ Passes("ports", "winsock")
               \/ /\ stun'.ports = Undefined /\ process = "up" /\ phase = "ports"
                  /\ process' = "undefined" /\ phase' = phase
       \/ Throws("ports") /\ UNCHANGED stun
    /\ UNCHANGED <<server, test, threads, isServer, callbacks, listener, upnpVars>>

(* WSAStartup, then UPnP when Config.tryUPnP says so. *)
StartWinsock ==
    /\ Passes("winsock", "upnp") \/ Passes("winsock", "bind") \/ Throws("winsock")
    /\ stun' = NoOutput
    /\ UNCHANGED <<server, test, threads, isServer, callbacks, listener, upnpVars>>

(* An access violation is no exception either: nothing in the constructor
   catches it. *)
ForwardPort ==
    /\ process = "up" /\ phase = "upnp"
    /\ UPnPportForward
    /\ process' = CASE upnp' \in {"garbage", "null"} -> "undefined"
                    [] upnp' = "threw" -> Thrown
                    [] OTHER -> process
    /\ UNCHANGED <<phase, server, test, stun, threads, isServer, callbacks, listener>>

(* Its result is ignored, and its pointers were local. *)
PortForwarded ==
    /\ upnp \in {"true", "false"}
    /\ Passes("upnp", "bind")
    /\ gateway' = <<1, 1>> /\ held' = {}
    /\ UNCHANGED <<server, test, stun, threads, isServer, callbacks, listener,
                   upnp, com>>

BindSocket ==
    /\ Passes("bind", IF server THEN "threads" ELSE "punch") \/ Throws("bind")
    /\ UNCHANGED <<server, test, stun, threads, isServer, callbacks, listener, upnpVars>>

HolePunch ==
    /\ Passes("punch", "threads") \/ Throws("punch")
    /\ UNCHANGED <<server, test, stun, threads, isServer, callbacks, listener, upnpVars>>

StartThreads ==
    /\ Passes("threads", "key")
    /\ callbacks' = [k \in Kinds |-> "null"]
    /\ threads' = TRUE
    /\ UNCHANGED <<server, test, stun, isServer, listener, upnpVars>>

SetPrivateKey ==
    /\ Passes("key", IF server THEN "flag" ELSE "greet")
    /\ UNCHANGED <<server, test, stun, threads, isServer, callbacks, listener, upnpVars>>

StartHandshake ==
    /\ Passes("greet", "flag") \/ Throws("greet")
    /\ UNCHANGED <<server, test, stun, threads, isServer, callbacks, listener, upnpVars>>

(* Mutant: the member is never assigned. *)
SetIsServerNever ==
    /\ Passes("flag", "returned")
    /\ UNCHANGED <<server, test, stun, threads, isServer, callbacks, listener, upnpVars>>

SetIsServer ==
    /\ Passes("flag", "returned")
    /\ isServer' = server
    /\ UNCHANGED <<server, test, stun, threads, callbacks, listener, upnpVars>>

-----------------------------------------------------------------------------
(* The application with the finished object.  An assignment to a callback is
   not atomic. *)

AttachBegin(k) ==
    /\ Passes("returned", "returned")
    /\ callbacks[k] = "null"
    /\ callbacks' = [callbacks EXCEPT ![k] = "assigning"]
    /\ UNCHANGED <<server, test, stun, threads, isServer, listener, upnpVars>>

AttachEnd(k) ==
    /\ Passes("returned", "returned")
    /\ callbacks[k] = "assigning"
    /\ callbacks' = [callbacks EXCEPT ![k] = "attached"]
    /\ UNCHANGED <<server, test, stun, threads, isServer, listener, upnpVars>>

(* The threads' loops never end, so both can be joined when the destructor
   destroys them. *)
Destroy ==
    /\ process = "up" /\ phase = "returned"
    /\ process' = "terminated"
    /\ UNCHANGED <<phase, server, test, stun, threads, isServer, callbacks, listener, upnpVars>>

-----------------------------------------------------------------------------
(* ListenerFunction. *)

(* recvPacket returns a packet.  ready and attached remember how far the
   application's thread was by then. *)
ReceivePacket ==
    /\ process = "up" /\ threads
    /\ listener.at = "listen"
    /\ \E kind \in Kinds \cup {"other"}, from \in Peers, awaitACK \in BOOLEAN :
        listener' = [NoPacket EXCEPT
            !.at = IF awaitACK THEN "reply" ELSE "dispatch",
            !.kind = kind, !.from = from, !.awaitACK = awaitACK,
            !.ready = (phase = "returned"),
            !.attached = kind \in Kinds /\ callbacks[kind] = "attached"]
    /\ UNCHANGED <<ctorVars, callbacks>>

(* A server answers the sender, a client always m_SocketAddress.  An exception
   of sendPacket ends the process. *)
SendACKReply ==
    /\ process = "up" /\ listener.at = "reply"
    /\ \/ /\ listener' = [listener EXCEPT !.at = "dispatch",
                            !.repliedTo = IF isServer THEN listener.from ELSE Address]
          /\ UNCHANGED process
       \/ process' = "terminated" /\ UNCHANGED listener
    /\ UNCHANGED <<phase, server, test, stun, threads, isServer, callbacks, upnpVars>>

(* Mutant: the case of a latency packet runs on into the default. *)
DispatchWithoutBreak ==
    /\ process = "up" /\ listener.at = "dispatch"
    /\ listener' = [listener EXCEPT !.at = "listen",
                        !.called = IF listener.kind = "other" THEN {}
                                   ELSE {listener.kind, "data"}]
    /\ UNCHANGED <<ctorVars, callbacks>>

(* The callback of the packet's kind is called.  An empty one throws
   bad_function_call; one that is being assigned has no defined content. *)
Dispatch ==
    /\ process = "up" /\ listener.at = "dispatch"
    /\ LET callback == IF listener.kind \in Kinds THEN callbacks[listener.kind] ELSE "unused"
       IN  /\ listener' = [listener EXCEPT !.at = "listen",
                    !.called = IF callback = "attached" THEN {listener.kind} ELSE {}]
           /\ \/ callback = "null" /\ process' = "terminated"
              \/ callback = "assigning" /\ process' \in {"terminated", "undefined", "up"}
              \/ callback \in {"attached", "unused"} /\ UNCHANGED process
    /\ UNCHANGED <<phase, server, test, stun, threads, isServer, callbacks, upnpVars>>

-----------------------------------------------------------------------------
Constructor ==
    \/ TestCipher
    \/ TestExchange
    \/ GetPublicIPAddress
    \/ SetWhatAmI
    \/ GetPortTranslation
    \/ StartWinsock
    \/ ForwardPort
    \/ PortForwarded
    \/ BindSocket
    \/ HolePunch
    \/ StartThreads
    \/ SetPrivateKey
    \/ StartHandshake
    \/ SetIsServer

Next ==
    \/ Constructor
    \/ \E k \in Kinds : AttachBegin(k) \/ AttachEnd(k)
    \/ Destroy
    \/ ReceivePacket
    \/ SendACKReply
    \/ Dispatch

(* The operating system schedules the application's thread, and every program
   and system call it waits for returns. *)
Spec == Init /\ [][Next]_vars /\ WF_vars(Constructor)

-----------------------------------------------------------------------------
(* Decrypting what was encrypted under one key gives the text back: the
   decryption keys stand where the rounds look for them. *)
CipherInverts == test.cipher

(* Both sides of the exchange reach one secret, as long as the keys do not pass
   the largest value of generateRuledKey's int counter. *)
ExchangeAgrees == test.fits => test.exchange

(* The constructor goes on from every output that holds a mapped address: the
   offset behind the marker, the first colon and the dots are found. *)
MappedAddressIsRead ==
    stun.of = "address" /\ HasMappedAddress(stun.text) => stun.address = "read"

(* Of an output with at most two addresses, the local and the public port are
   the numbers that follow them, the last character included, modulo 2^16; with
   one missing, or too large for an int, they are 1 and 0. *)
PortsOfTheAddresses ==
    stun.of = "ports" /\ HasAtMostTwoPorts(stun.text) => stun.ports = ExpectedPorts(stun.text)

(* A packet that arrives when the constructor has returned is acknowledged to
   the endpoint it came from, by a server to any and by a client to its server,
   although the member the listener decides by was garbage when it started. *)
RepliesReachTheSender ==
    listener.at = "dispatch" /\ listener.awaitACK /\ listener.ready
      /\ (server \/ listener.from = Address)
    => listener.repliedTo = listener.from

(* A packet that arrives when its callback is attached is given to that
   callback and to no other. *)
AttachedIsCalled ==
    listener.at = "listen" /\ listener.attached => listener.called = {listener.kind}

(* The constructor returns or the process ends: the search for a gateway and
   the failures on the way do not hold it up. *)
ConstructorEnds == <>(phase = "returned" \/ process # "up")
=============================================================================
