------------------------------- MODULE NTPacket -------------------------------
(***************************************************************************)
(* The NTPacket wrapper: variables appended under an enumeration, and the  *)
(* getters that find them again in a received packet by enumeration and    *)
(* type.  Each variable is two calls of appendData, one for its            *)
(* enumeration and one for its value.                                      *)
(***************************************************************************)
EXTENDS PacketLayout

CONSTANT Enumerations  \* the enumerations variables are appended under

(* An enumeration is a uint16_t. *)
ASSUME EnumerationAssumption == \A e \in Enumerations : e \in Nat /\ e < 65536

VARIABLE names         \* history: the enumeration each appended value is, if it is one

ntVars == <<vars, names>>

PACKET_DOUBLE == 2
PACKET_STRING == 7
PACKET_VARIABLE_NAME == 200
PACKET_ENUMERATOR == 201

NoName == 65536  \* no uint16_t
Enumeration(type) == [len |-> 2, size |-> 2, type |-> type]

(* NTPacket(id, multicastable, encrypted, awaitACK, typeId, packetNum). *)
ntInit ==
    \E encrypted \in BOOLEAN :
        LET empty == EmptyPacket(encrypted)
        IN  /\ wire = <<>>
            /\ incoming = Unspecified
            /\ packet = AppendedTo(empty, 1, Enumeration(PACKET_ENUMERATOR))
            /\ appended = << Record(empty, Enumeration(PACKET_ENUMERATOR)) >>
            /\ names = << NoName >>

appendVariable(var, enumeration) ==
    LET name == Enumeration(PACKET_VARIABLE_NAME)
        n == Len(appended)
        named == AppendedTo(packet, n + 1, name)
    IN  /\ n + 2 <= MaxAppends
        /\ packet' = AppendedTo(named, n + 2, var)
        /\ appended' = appended \o << Record(packet, name), Record(named, var) >>
        /\ names' = names \o << enumeration, NoName >>
        /\ UNCHANGED <<wire, incoming>>

(* The base packet, which getBasePacket hands out, can be used on its own. *)
OnBasePacket ==
    /\ Next
    /\ names' = names \o [i \in 1 .. Len(appended') - Len(appended) |-> NoName]

ntNext ==
    \/ \E var \in Overloads, enumeration \in Enumerations : appendVariable(var, enumeration)
    \/ OnBasePacket

ntSpec == ntInit /\ [][ntNext]_ntVars

-----------------------------------------------------------------------------
(* get16AtLocation, where it reads an enumeration. *)
NameAt(location) ==
    LET v == incoming.data[location + 1].of IN names[v]

(* Mutant: the type of the enumeration's own variable is compared. *)
FoundByOwnType(type, enumeration) ==
    {i \in DOMAIN incoming.variables :
        /\ incoming.variables[i].variableType = PACKET_VARIABLE_NAME
        /\ NameAt(incoming.variables[i].startIndex) = enumeration
        /\ incoming.variables[i].variableType = type}

(* The variables of the received packet that follow the enumeration and have
   the type asked for. *)
Found(type, enumeration) ==
    {i \in DOMAIN incoming.variables :
        /\ incoming.variables[i].variableType = PACKET_VARIABLE_NAME
        /\ NameAt(incoming.variables[i].startIndex) = enumeration
        /\ incoming.variables[i + 1].variableType = type}

(* The get...ByEnumeration of a type reads the first of them: so many bytes as
   its return type has, or as the variable has when it is a string.  Without
   one it returns 0 or "".  getDoubleAtLocation takes its 8 bytes for the address
   of a double, and what is there is anything. *)
NotFound == << >>
Undefined == << [kind |-> "undefined"] >>
BytesRead(type, size) == IF type = PACKET_STRING THEN size ELSE <<4, 8, 1, 2, 4, 8>>[type]

getByEnumeration(type, enumeration) ==
    LET found == Found(type, enumeration)
        first == CHOOSE i \in found : \A j \in found : i <= j
        variable == incoming.variables[first + 1]
    IN  IF found = {}
        THEN NotFound
        ELSE IF type = PACKET_DOUBLE
        THEN Undefined
        ELSE SubSeq(incoming.data, variable.startIndex + 1,
                    variable.startIndex + BytesRead(type, variable.variableSize))

-----------------------------------------------------------------------------
(* What the sender appended under an enumeration with a type, as positions in
   the order of the calls. *)
AppendedUnder(type, enumeration) ==
    {v \in 2 .. Len(incoming.variables) :
        names[v - 1] = enumeration /\ appended[v].type = type}

(* Whatever an enumeration was used for, and in whatever order, a getter
   returns all bytes of the first variable the sender appended under it with
   the getter's type, and nothing when there is none.  (Of the double's getter
   this says that it finds nothing: appendData gives no variable its type.) *)
GettersFindTheFirst ==
    OneCipher => \A type \in 1 .. 7, enumeration \in Enumerations :
        LET under == AppendedUnder(type, enumeration)
            v == CHOOSE i \in under : \A j \in under : i <= j
        IN  getByEnumeration(type, enumeration) =
                IF under = {} THEN NotFound ELSE Bytes("value", v, appended[v].len)

(* getDoubleByEnumeration finds a double that was appended: "if enumeration
   matches query and return type // return the variable". *)
DoublesAreFound ==
    OneCipher => \A v \in 2 .. Len(incoming.variables) :
        names[v - 1] # NoName /\ appended[v].len = 8 /\ appended[v].type # 6 =>
            getByEnumeration(PACKET_DOUBLE, names[v - 1]) # NotFound
=============================================================================
