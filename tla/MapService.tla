----------------------------- MODULE MapService -----------------------------
(***************************************************************************)
(* thrift_sync_async_demo/gen-cpp: the generated structs of map.thrift,    *)
(* the generated clients and the generated processors, as operators.       *)
(*                                                                         *)
(* A serialised struct is the sequence of its fields, each with its id,    *)
(* its type and its value: what TProtocol's writeFieldBegin and            *)
(* readFieldBegin deal in.  Reading a field of an unknown id or of an      *)
(* unexpected type skips it.  A message is its name, its kind and its      *)
(* struct; an iprot is the message that waits in it, or none.              *)
(***************************************************************************)
EXTENDS Naturals, Sequences, SequencesExt

Fld(id, type, val) == [id |-> id, type |-> type, val |-> val]

\* The exceptions a read can end in, and a call's answer when it has one.
Thrown == {"INVALID_DATA", "END_OF_FILE", "ServiceException",
           "TApplicationException", "MISSING_RESULT"}
Threw(x)    == [ok |-> FALSE, exc |-> x]
Returned(v) == [ok |-> TRUE, val |-> v]

-----------------------------------------------------------------------------
(* The read loop that every generated struct has *)

\* The field a schema gives to an incoming one: an index of the schema, or 0.
Slot(schema, f) ==
    LET hits == {i \in 1..Len(schema) :
                     schema[i].id = f.id /\ schema[i].type = f.type}
    IN  IF hits = {} THEN 0 ELSE CHOOSE i \in hits : TRUE

\* Fields land in the object in the order they arrive: the last one wins.
ReadFields(schema, fields, obj) ==
    FoldLeft(LAMBDA o, f :
                LET i == Slot(schema, f)
                IN  IF i = 0 THEN o ELSE [o EXCEPT ![schema[i].name] = f.val],
             obj, fields)

\* The isset flags after the loop.
IsSet(schema, fields) ==
    {schema[Slot(schema, fields[k])].name :
        k \in {j \in 1..Len(fields) : Slot(schema, fields[j]) # 0}}

\* A struct whose fields are all required.
ReadRequired(schema, fields, obj) ==
    IF \A i \in 1..Len(schema) : schema[i].name \in IsSet(schema, fields)
    THEN Returned(ReadFields(schema, fields, obj))
    ELSE Threw("INVALID_DATA")

WriteAll(schema, obj) ==
    [i \in 1..Len(schema) |->
        Fld(schema[i].id, schema[i].type, obj[schema[i].name])]

Sch(id, type, name) == [id |-> id, type |-> type, name |-> name]

-----------------------------------------------------------------------------
(* map_types *)

ServiceExceptionSchema == <<Sch(1, "STRING", "errorMsg")>>

ComputeReqSchema ==
    <<Sch(1, "BYTE", "type"), Sch(2, "I64", "jobId"), Sch(3, "I32", "cityId"),
      Sch(4, "I32", "mapsplitId"), Sch(5, "LIST", "oidList"),
      Sch(6, "LIST", "didList")>>

ComputeRespSchema ==
    <<Sch(1, "BYTE", "version"), Sch(2, "I32", "type"), Sch(3, "BYTE", "status"),
      Sch(4, "I32", "mapsplitId"), Sch(7, "STRING", "data")>>

NewServiceException == [errorMsg |-> ""]
NewComputeReq  == [type |-> 0, jobId |-> 0, cityId |-> 0, mapsplitId |-> 0,
                   oidList |-> <<>>, didList |-> <<>>]
NewComputeResp == [version |-> 0, type |-> 0, status |-> 0, mapsplitId |-> 0,
                   data |-> ""]

ServiceExceptionRead(fields) ==
    ReadRequired(ServiceExceptionSchema, fields, NewServiceException)
ServiceExceptionWrite(x) == WriteAll(ServiceExceptionSchema, x)

ComputeReqRead(fields) == ReadRequired(ComputeReqSchema, fields, NewComputeReq)
ComputeReqWrite(req)   == WriteAll(ComputeReqSchema, req)

ComputeRespRead(fields) == ReadRequired(ComputeRespSchema, fields, NewComputeResp)
ComputeRespWrite(rsp)   == WriteAll(ComputeRespSchema, rsp)

-----------------------------------------------------------------------------
(* Arguments and result of compute: a struct whose fields are structs.  A   *)
(* field that cannot be read ends the whole read.                           *)

\* Reads the fields one by one; part maps an id to the reader of its struct.
ReadParts(part, fields) ==
    FoldLeft(LAMBDA acc, f :
                IF ~acc.ok \/ f.type # "STRUCT" \/ f.id \notin DOMAIN part
                THEN acc
                ELSE LET v == CASE part[f.id] = "req" -> ComputeReqRead(f.val)
                                [] part[f.id] = "success" -> ComputeRespRead(f.val)
                                [] part[f.id] = "se" -> ServiceExceptionRead(f.val)
                     IN  IF v.ok THEN Returned([acc.val EXCEPT ![part[f.id]] = <<v.val>>])
                                 ELSE v,
             Returned([req |-> <<>>, success |-> <<>>, se |-> <<>>]), fields)

\* args.req keeps its default when the message has none.
ArgsRead(fields) == ReadParts(1 :> "req", fields)
ArgsWrite(req)   == <<Fld(1, "STRUCT", ComputeReqWrite(req))>>
PargsWrite(req)  == <<Fld(1, "STRUCT", ComputeReqWrite(req))>>

ResultWrite(result) ==
    CASE result.success # <<>> ->
             <<Fld(0, "STRUCT", ComputeRespWrite(result.success[1]))>>
      [] result.success = <<>> /\ result.se # <<>> ->
             <<Fld(1, "STRUCT", ServiceExceptionWrite(result.se[1]))>>
      [] OTHER -> <<>>

PresultRead(fields) == ReadParts((0 :> "success") @@ (1 :> "se"), fields)

\* The pointer success is always written.
PresultWrite(result) ==
    <<Fld(0, "STRUCT", ComputeRespWrite(result.success[1]))>>
      \o IF result.se = <<>> THEN <<>>
         ELSE <<Fld(1, "STRUCT", ServiceExceptionWrite(result.se[1]))>>

-----------------------------------------------------------------------------
(* The clients *)

Message(name, mtype, body) == [name |-> name, mtype |-> mtype, body |-> body]

SendCompute(req)    == Message("compute", "CALL", PargsWrite(req))
CobSendCompute(req) == Message("compute", "CALL", PargsWrite(req))

\* What recv_compute makes of the result it has read.
Verdict(result) ==
    CASE ~result.ok -> result
      [] result.ok /\ result.val.success # <<>> -> Returned(result.val.success[1])
      [] result.ok /\ result.val.success = <<>> /\ result.val.se # <<>> ->
             Threw("ServiceException")
      [] OTHER -> Threw("MISSING_RESULT")

\* A message of another kind or name is skipped and the result is then read
\* from what follows: nothing does, so that read throws.
RecvCompute(iprot) ==
    IF iprot = <<>> THEN Threw("END_OF_FILE")
    ELSE LET m == iprot[1]
         IN  CASE m.mtype = "EXCEPTION" -> Threw("TApplicationException")
               [] m.mtype # "EXCEPTION" /\ (m.mtype # "REPLY" \/ m.name # "compute") ->
                      Threw("END_OF_FILE")
               [] OTHER -> Verdict(PresultRead(m.body))

\* Mutant: the catch-all handler reports completion again.
CobRecvComputeTwice(iprot) ==
    LET out == RecvCompute(iprot)
    IN  [out |-> out, completed |-> IF out.ok THEN <<TRUE>> ELSE <<TRUE, FALSE>>]

\* The same with the calls of completed__: one as soon as the answer is
\* known, and one from the catch-all handler if there was none before.
CobRecvCompute(iprot) ==
    LET out     == RecvCompute(iprot)
        skipped == iprot # <<>> /\ iprot[1].mtype # "EXCEPTION"
                     /\ (iprot[1].mtype # "REPLY" \/ iprot[1].name # "compute")
        early   == CASE iprot = <<>> -> <<>>
                     [] skipped -> <<FALSE>>
                     [] ~out.ok /\ out.exc = "INVALID_DATA" -> <<>>
                     [] OTHER -> <<TRUE>>
    IN  [out |-> out, completed |-> IF early = <<>> THEN <<FALSE>> ELSE early]

-----------------------------------------------------------------------------
(* The processors.  h is what the handler does with the request it is       *)
(* given: it returns a ComputeResp, throws a ServiceException or throws     *)
(* some other exception.                                                    *)

Exception(name) == Message(name, "EXCEPTION", <<>>)

\* The request that the handler is given, if it is called at all.
Asked(msg) ==
    LET args == ArgsRead(msg.body)
    IN  IF msg.name # "compute" \/ ~args.ok THEN <<>>
        ELSE <<IF args.val.req = <<>> THEN NewComputeReq ELSE args.val.req[1]>>

\* process_compute: a request that cannot be read escapes as an exception of
\* the processor and closes the connection; nothing is written.
ProcessCompute(msg, h) ==
    LET args == ArgsRead(msg.body)
    IN  CASE ~args.ok -> <<>>
          [] args.ok /\ h.kind = "return" ->
                 <<Message("compute", "REPLY",
                           ResultWrite([success |-> <<h.rsp>>, se |-> <<>>]))>>
          [] args.ok /\ h.kind = "ServiceException" ->
                 <<Message("compute", "REPLY",
                           ResultWrite([success |-> <<>>, se |-> <<h.se>>]))>>
          [] OTHER -> <<Exception("compute")>>

DispatchCall(msg, h) ==
    IF msg.name # "compute" THEN <<Exception(msg.name)>>
    ELSE ProcessCompute(msg, h)

\* return_compute and throw_compute: what is written, and the argument of the
\* server's cob.
ReturnCompute(rsp) ==
    [written |-> <<Message("compute", "REPLY",
                           PresultWrite([success |-> <<rsp>>, se |-> <<>>]))>>,
     cob |-> <<TRUE>>]
ThrowCompute(h) ==
    [written |-> IF h.kind = "ServiceException"
                 THEN <<Message("compute", "REPLY",
                                ResultWrite([success |-> <<>>, se |-> <<h.se>>]))>>
                 ELSE <<Exception("compute")>>,
     cob |-> <<TRUE>>]

\* The asynchronous process_compute, with a handler that calls back at once.
AsyncProcessCompute(msg, h) ==
    LET args == ArgsRead(msg.body)
    IN  CASE ~args.ok -> [written |-> <<>>, cob |-> <<FALSE>>]
          [] args.ok /\ h.kind = "return" -> ReturnCompute(h.rsp)
          [] OTHER -> ThrowCompute(h)

AsyncDispatchCall(msg, h) ==
    IF msg.name # "compute"
    THEN [written |-> <<Exception(msg.name)>>, cob |-> <<TRUE>>]
    ELSE AsyncProcessCompute(msg, h)

\* MapServiceHandler and AsyncMapServiceHandler: the same answer to everyone.
HandlerCompute(req) ==
    [kind |-> "return",
     rsp |-> [NewComputeResp EXCEPT !.type = 0, !.data = "hello client"]]

=============================================================================
