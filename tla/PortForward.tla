----------------------------- MODULE PortForward -----------------------------
(***************************************************************************)
(* PortForwardEngine::UPnPportForward.  upnp is the statement it has       *)
(* reached, or what it returned; held are the COM objects whose pointers   *)
(* are not NULL; com counts CoInitialize without CoUninitialize.           *)
(*                                                                         *)
(* The operating system, the gateways and the COM objects are external:    *)
(* every call may fail, and one that should set a pointer then leaves it   *)
(* NULL.  "garbage" is a walk through memory nobody wrote, or through the  *)
(* NULL of an adapter without an address; "null" is the use of a COM       *)
(* pointer that is NULL.                                                   *)
(***************************************************************************)
EXTENDS Naturals, Sequences

CONSTANT Adapters  \* how many gateways each network adapter has

VARIABLES upnp, gateway, com, held
upnpVars == <<upnp, gateway, com, held>>

ComObjects == {"nat", "mappingCollection", "staticMapping"}

UPnPInit ==
    /\ upnp = "start" /\ gateway = <<1, 1>>
    /\ com = 0 /\ held = {}

UPnPTypeOK ==
    /\ upnp \in {"start", "adapters", "search", "names", "nat", "collection", "add", "release",
                 "true", "false", "threw", "garbage", "null"}
    /\ gateway \in Nat \X Nat
    /\ com \in 0 .. 1
    /\ held \subseteq ComObjects

CoInitialize ==
    /\ upnp = "start"
    /\ upnp' = "adapters" /\ com' = com + 1
    /\ UNCHANGED <<gateway, held>>

(* Without memory there is no list to search.  The result of
   GetAdaptersAddresses is ignored: when it fails, the list is what the heap held. *)
GetAdapters ==
    /\ upnp = "adapters"
    /\ upnp' \in {"search", "false", "garbage"}
    /\ UNCHANGED <<gateway, com, held>>

(* One ping: an answer ends the search with the adapter's own address, which it
   may not have; a timeout goes to the next gateway, and the exception of a ping
   that cannot be started is caught. *)
PingGateway ==
    /\ upnp = "search"
    /\ gateway[1] <= Len(Adapters)
    /\ IF gateway[2] > Adapters[gateway[1]]
       THEN upnp' = upnp /\ gateway' = <<gateway[1] + 1, 1>>
       ELSE \/ upnp' \in {"names", "garbage"} /\ UNCHANGED gateway
            \/ upnp' = "false" /\ UNCHANGED gateway
            \/ upnp' = upnp /\ gateway' = <<gateway[1], gateway[2] + 1>>
    /\ UNCHANGED <<com, held>>

(* Mutant: the search starts again. *)
NoGatewayAgain ==
    /\ upnp = "search"
    /\ gateway[1] > Len(Adapters)
    /\ gateway' = <<1, 1>>
    /\ UNCHANGED <<upnp, com, held>>

NoGateway ==
    /\ upnp = "search"
    /\ gateway[1] > Len(Adapters)
    /\ upnp' = "false"
    /\ UNCHANGED <<gateway, com, held>>

(* A call that sets the pointer to object, or leaves it NULL. *)
Obtain(object) == held' \in {held, held \cup {object}}

(* A BSTR that cannot be allocated is a _com_error, which is no std::exception. *)
ConvertNames ==
    /\ upnp = "names"
    /\ upnp' \in {"nat", "threw"}
    /\ UNCHANGED <<gateway, com, held>>

CreateNAT ==
    /\ upnp = "nat"
    /\ upnp' = "collection"
    /\ Obtain("nat")
    /\ UNCHANGED <<gateway, com>>

(* get_StaticPortMappingCollection is called only through a pointer to nat. *)
GetCollection ==
    /\ upnp = "collection"
    /\ upnp' = "add"
    /\ IF "nat" \in held THEN Obtain("mappingCollection") ELSE UNCHANGED held
    /\ UNCHANGED <<gateway, com>>

(* Mutant: Add without the test of mappingCollection. *)
AddMappingUntested ==
    /\ upnp = "add"
    /\ IF "mappingCollection" \in held
       THEN upnp' = "release" /\ Obtain("staticMapping")
       ELSE upnp' = "null" /\ UNCHANGED held
    /\ UNCHANGED <<gateway, com>>

AddMapping ==
    /\ upnp = "add"
    /\ upnp' = "release"
    /\ IF "mappingCollection" \in held THEN Obtain("staticMapping") ELSE UNCHANGED held
    /\ UNCHANGED <<gateway, com>>

(* Mutant: CoUninitialize both in the branch and at the end. *)
ReleaseTwice ==
    /\ upnp = "release"
    /\ IF "staticMapping" \in held
       THEN upnp' = "true" /\ held' = {} /\ com' = com - 2
       ELSE upnp' = "false" /\ com' = com - 1 /\ UNCHANGED held
    /\ UNCHANGED gateway

(* With a mapping the three pointers are used, untested, to release what they
   point to.  Otherwise nothing is released: the function returns with COM
   initialised and the pointers lost. *)
Release ==
    /\ upnp = "release"
    /\ IF "staticMapping" \notin held
       THEN upnp' = "false" /\ UNCHANGED <<held, com>>
       ELSE IF held = ComObjects
            THEN upnp' = "true" /\ held' = {} /\ com' = com - 1
            ELSE upnp' = "null" /\ UNCHANGED <<held, com>>
    /\ UNCHANGED gateway

UPnPportForward ==
    \/ CoInitialize
    \/ GetAdapters
    \/ PingGateway
    \/ NoGateway
    \/ ConvertNames
    \/ CreateNAT
    \/ GetCollection
    \/ AddMapping
    \/ Release

(* Only pointers to objects are used: each test of one pointer stands for those
   the calls before it set, up to the three the last branch uses on the word of
   staticMapping.  A function that returns true has released every object it
   obtained and uninitialised COM. *)
ForwardsThroughObjects ==
    /\ upnp # "null"
    /\ upnp = "true" => held = {} /\ com = 0
=============================================================================
