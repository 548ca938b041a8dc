------------------------------ MODULE DnsCodec ------------------------------
(***************************************************************************)
(* The messages of the registry: the fields that the generated code of     *)
(* x/dnsblockchain/types writes, counts and reads.  For every type there   *)
(* are three tables: X_Marshal, the tag bytes and fields of its Marshal,   *)
(* MarshalTo and MarshalToSizedBuffer in the order of the buffer; X_Size,  *)
(* the fields of its Size; X_Unmarshal, the cases of the switch of its     *)
(* Unmarshal.  ProtoWire says what the code does with a field.             *)
(***************************************************************************)
EXTENDS ProtoWire

(* NSRecordWithIP, domain.pb.go                                            *)
NSRecordWithIP_Marshal ==
  <<<<\h0a, String("Name")>>, <<\h12, Strings("Ipv4Addresses")>>,
    <<\h1a, Strings("Ipv6Addresses")>>>>
NSRecordWithIP_Size ==
  <<String("Name"), Strings("Ipv4Addresses"), Strings("Ipv6Addresses")>>
NSRecordWithIP_Unmarshal ==
  1 :> String("Name") @@ 2 :> Strings("Ipv4Addresses") @@
  3 :> Strings("Ipv6Addresses")

(* Domain, domain.pb.go                                                    *)
(* Mutant: the creator is written under the number before its own.         *)
Domain_MarshalWrongTag ==
  <<<<\h08, Uint64("Id")>>, <<\h12, String("Name")>>,
    <<\h1a, String("Owner")>>, <<\h22, String("Creator")>>,
    <<\h30, Uint64("Expiration")>>,
    <<\h3a, Structs("NsRecords", "NSRecordWithIP")>>>>

Domain_Marshal ==
  <<<<\h08, Uint64("Id")>>, <<\h12, String("Name")>>,
    <<\h1a, String("Owner")>>, <<\h2a, String("Creator")>>,
    <<\h30, Uint64("Expiration")>>,
    <<\h3a, Structs("NsRecords", "NSRecordWithIP")>>>>
Domain_Size ==
  <<Uint64("Id"), String("Name"), String("Owner"), String("Creator"),
    Uint64("Expiration"), Structs("NsRecords", "NSRecordWithIP")>>
Domain_Unmarshal ==
  1 :> Uint64("Id") @@ 2 :> String("Name") @@ 3 :> String("Owner") @@
  5 :> String("Creator") @@ 6 :> Uint64("Expiration") @@
  7 :> Structs("NsRecords", "NSRecordWithIP")

(* GenesisState, genesis.pb.go                                             *)
GenesisState_Marshal ==
  <<<<\h0a, Struct("Params", "Params")>>,
    <<\h12, Structs("DomainList", "Domain")>>,
    <<\h18, Uint64("DomainCount")>>, <<\h22, Strings("PermittedTlds")>>>>
GenesisState_Size ==
  <<Struct("Params", "Params"), Structs("DomainList", "Domain"),
    Uint64("DomainCount"), Strings("PermittedTlds")>>
GenesisState_Unmarshal ==
  1 :> Struct("Params", "Params") @@ 2 :> Structs("DomainList", "Domain") @@
  3 :> Uint64("DomainCount") @@ 4 :> Strings("PermittedTlds")

(* Module, module.pb.go                                                    *)
Module_Marshal == <<<<\h0a, String("Authority")>>>>
Module_Size == <<String("Authority")>>
Module_Unmarshal == 1 :> String("Authority")

(* Params, params.pb.go                                                    *)
Params_Marshal == <<<<\h0a, Structs("DomainCreationFee", "Coin")>>>>
Params_Size == <<Structs("DomainCreationFee", "Coin")>>
Params_Unmarshal == 1 :> Structs("DomainCreationFee", "Coin")

(* QueryParamsRequest, query.pb.go                                         *)
QueryParamsRequest_Marshal == <<>>
QueryParamsRequest_Size == <<>>
QueryParamsRequest_Unmarshal == NoFields

(* QueryParamsResponse, query.pb.go                                        *)
QueryParamsResponse_Marshal == <<<<\h0a, Struct("Params", "Params")>>>>
QueryParamsResponse_Size == <<Struct("Params", "Params")>>
QueryParamsResponse_Unmarshal == 1 :> Struct("Params", "Params")

(* QueryGetDomainRequest, query.pb.go                                      *)
QueryGetDomainRequest_Marshal == <<<<\h08, Uint64("Id")>>>>
QueryGetDomainRequest_Size == <<Uint64("Id")>>
QueryGetDomainRequest_Unmarshal == 1 :> Uint64("Id")

(* QueryGetDomainResponse, query.pb.go                                     *)
QueryGetDomainResponse_Marshal == <<<<\h0a, Struct("Domain", "Domain")>>>>
QueryGetDomainResponse_Size == <<Struct("Domain", "Domain")>>
QueryGetDomainResponse_Unmarshal == 1 :> Struct("Domain", "Domain")

(* QueryAllDomainRequest, query.pb.go                                      *)
QueryAllDomainRequest_Marshal ==
  <<<<\h0a, Pointer("Pagination", "PageRequest")>>>>
QueryAllDomainRequest_Size == <<Pointer("Pagination", "PageRequest")>>
QueryAllDomainRequest_Unmarshal == 1 :> Pointer("Pagination", "PageRequest")

(* QueryAllDomainResponse, query.pb.go                                     *)
QueryAllDomainResponse_Marshal ==
  <<<<\h0a, Structs("Domain", "Domain")>>,
    <<\h12, Pointer("Pagination", "PageResponse")>>>>
QueryAllDomainResponse_Size ==
  <<Structs("Domain", "Domain"), Pointer("Pagination", "PageResponse")>>
QueryAllDomainResponse_Unmarshal ==
  1 :> Structs("Domain", "Domain") @@
  2 :> Pointer("Pagination", "PageResponse")

(* QueryListPermittedTLDsRequest, query.pb.go                              *)
QueryListPermittedTLDsRequest_Marshal == <<>>
QueryListPermittedTLDsRequest_Size == <<>>
QueryListPermittedTLDsRequest_Unmarshal == NoFields

(* QueryListPermittedTLDsResponse, query.pb.go                             *)
QueryListPermittedTLDsResponse_Marshal == <<<<\h0a, Strings("Tlds")>>>>
QueryListPermittedTLDsResponse_Size == <<Strings("Tlds")>>
QueryListPermittedTLDsResponse_Unmarshal == 1 :> Strings("Tlds")

(* QueryGetDomainByNameRequest, query.pb.go                                *)
QueryGetDomainByNameRequest_Marshal == <<<<\h0a, String("Name")>>>>
QueryGetDomainByNameRequest_Size == <<String("Name")>>
QueryGetDomainByNameRequest_Unmarshal == 1 :> String("Name")

(* QueryGetDomainByNameResponse, query.pb.go                               *)
QueryGetDomainByNameResponse_Marshal ==
  <<<<\h0a, Struct("Domain", "Domain")>>, <<\h10, Bool("Found")>>,
    <<\h18, Bool("Expired")>>>>
QueryGetDomainByNameResponse_Size ==
  <<Struct("Domain", "Domain"), Bool("Found"), Bool("Expired")>>
QueryGetDomainByNameResponse_Unmarshal ==
  1 :> Struct("Domain", "Domain") @@ 2 :> Bool("Found") @@
  3 :> Bool("Expired")

(* MsgUpdateParams, tx.pb.go                                               *)
MsgUpdateParams_Marshal ==
  <<<<\h0a, String("Authority")>>, <<\h12, Struct("Params", "Params")>>>>
MsgUpdateParams_Size == <<String("Authority"), Struct("Params", "Params")>>
MsgUpdateParams_Unmarshal ==
  1 :> String("Authority") @@ 2 :> Struct("Params", "Params")

(* MsgUpdateParamsResponse, tx.pb.go                                       *)
MsgUpdateParamsResponse_Marshal == <<>>
MsgUpdateParamsResponse_Size == <<>>
MsgUpdateParamsResponse_Unmarshal == NoFields

(* MsgCreateDomain, tx.pb.go                                               *)
MsgCreateDomain_Marshal ==
  <<<<\h0a, String("Creator")>>, <<\h12, String("Name")>>,
    <<\h1a, String("Owner")>>,
    <<\h2a, Structs("NsRecords", "NSRecordWithIP")>>>>
MsgCreateDomain_Size ==
  <<String("Creator"), String("Name"), String("Owner"),
    Structs("NsRecords", "NSRecordWithIP")>>
MsgCreateDomain_Unmarshal ==
  1 :> String("Creator") @@ 2 :> String("Name") @@ 3 :> String("Owner") @@
  5 :> Structs("NsRecords", "NSRecordWithIP")

(* MsgCreateDomainResponse, tx.pb.go                                       *)
MsgCreateDomainResponse_Marshal == <<<<\h08, Uint64("Id")>>>>
MsgCreateDomainResponse_Size == <<Uint64("Id")>>
MsgCreateDomainResponse_Unmarshal == 1 :> Uint64("Id")

(* MsgUpdateDomain, tx.pb.go                                               *)
MsgUpdateDomain_Marshal ==
  <<<<\h0a, String("Creator")>>, <<\h10, Uint64("Id")>>,
    <<\h1a, String("Owner")>>,
    <<\h22, Structs("NsRecords", "NSRecordWithIP")>>>>
MsgUpdateDomain_Size ==
  <<String("Creator"), Uint64("Id"), String("Owner"),
    Structs("NsRecords", "NSRecordWithIP")>>
MsgUpdateDomain_Unmarshal ==
  1 :> String("Creator") @@ 2 :> Uint64("Id") @@ 3 :> String("Owner") @@
  4 :> Structs("NsRecords", "NSRecordWithIP")

(* MsgUpdateDomainResponse, tx.pb.go                                       *)
MsgUpdateDomainResponse_Marshal == <<>>
MsgUpdateDomainResponse_Size == <<>>
MsgUpdateDomainResponse_Unmarshal == NoFields

(* MsgDeleteDomain, tx.pb.go                                               *)
MsgDeleteDomain_Marshal ==
  <<<<\h0a, String("Creator")>>, <<\h10, Uint64("Id")>>>>
MsgDeleteDomain_Size == <<String("Creator"), Uint64("Id")>>
MsgDeleteDomain_Unmarshal == 1 :> String("Creator") @@ 2 :> Uint64("Id")

(* MsgDeleteDomainResponse, tx.pb.go                                       *)
MsgDeleteDomainResponse_Marshal == <<>>
MsgDeleteDomainResponse_Size == <<>>
MsgDeleteDomainResponse_Unmarshal == NoFields

(* MsgTransferDomain, tx.pb.go                                             *)
MsgTransferDomain_Marshal ==
  <<<<\h0a, String("Creator")>>, <<\h10, Uint64("Id")>>,
    <<\h1a, String("NewOwner")>>>>
MsgTransferDomain_Size ==
  <<String("Creator"), Uint64("Id"), String("NewOwner")>>
MsgTransferDomain_Unmarshal ==
  1 :> String("Creator") @@ 2 :> Uint64("Id") @@ 3 :> String("NewOwner")

(* MsgTransferDomainResponse, tx.pb.go                                     *)
MsgTransferDomainResponse_Marshal == <<>>
MsgTransferDomainResponse_Size == <<>>
MsgTransferDomainResponse_Unmarshal == NoFields

(* MsgHeartbeatDomain, tx.pb.go                                            *)
MsgHeartbeatDomain_Marshal ==
  <<<<\h0a, String("Creator")>>, <<\h10, Uint64("Id")>>>>
MsgHeartbeatDomain_Size == <<String("Creator"), Uint64("Id")>>
MsgHeartbeatDomain_Unmarshal == 1 :> String("Creator") @@ 2 :> Uint64("Id")

(* MsgHeartbeatDomainResponse, tx.pb.go                                    *)
MsgHeartbeatDomainResponse_Marshal == <<>>
MsgHeartbeatDomainResponse_Size == <<>>
MsgHeartbeatDomainResponse_Unmarshal == NoFields

-----------------------------------------------------------------------------
Encoders ==
  [NSRecordWithIP |-> NSRecordWithIP_Marshal, Domain |-> Domain_Marshal,
   GenesisState |-> GenesisState_Marshal, Module |-> Module_Marshal,
   Params |-> Params_Marshal,
   QueryParamsRequest |-> QueryParamsRequest_Marshal,
   QueryParamsResponse |-> QueryParamsResponse_Marshal,
   QueryGetDomainRequest |-> QueryGetDomainRequest_Marshal,
   QueryGetDomainResponse |-> QueryGetDomainResponse_Marshal,
   QueryAllDomainRequest |-> QueryAllDomainRequest_Marshal,
   QueryAllDomainResponse |-> QueryAllDomainResponse_Marshal,
   QueryListPermittedTLDsRequest |-> QueryListPermittedTLDsRequest_Marshal,
   QueryListPermittedTLDsResponse |-> QueryListPermittedTLDsResponse_Marshal,
   QueryGetDomainByNameRequest |-> QueryGetDomainByNameRequest_Marshal,
   QueryGetDomainByNameResponse |-> QueryGetDomainByNameResponse_Marshal,
   MsgUpdateParams |-> MsgUpdateParams_Marshal,
   MsgUpdateParamsResponse |-> MsgUpdateParamsResponse_Marshal,
   MsgCreateDomain |-> MsgCreateDomain_Marshal,
   MsgCreateDomainResponse |-> MsgCreateDomainResponse_Marshal,
   MsgUpdateDomain |-> MsgUpdateDomain_Marshal,
   MsgUpdateDomainResponse |-> MsgUpdateDomainResponse_Marshal,
   MsgDeleteDomain |-> MsgDeleteDomain_Marshal,
   MsgDeleteDomainResponse |-> MsgDeleteDomainResponse_Marshal,
   MsgTransferDomain |-> MsgTransferDomain_Marshal,
   MsgTransferDomainResponse |-> MsgTransferDomainResponse_Marshal,
   MsgHeartbeatDomain |-> MsgHeartbeatDomain_Marshal,
   MsgHeartbeatDomainResponse |-> MsgHeartbeatDomainResponse_Marshal]
  @@ SdkEncoders
Sizers ==
  [NSRecordWithIP |-> NSRecordWithIP_Size, Domain |-> Domain_Size,
   GenesisState |-> GenesisState_Size, Module |-> Module_Size,
   Params |-> Params_Size, QueryParamsRequest |-> QueryParamsRequest_Size,
   QueryParamsResponse |-> QueryParamsResponse_Size,
   QueryGetDomainRequest |-> QueryGetDomainRequest_Size,
   QueryGetDomainResponse |-> QueryGetDomainResponse_Size,
   QueryAllDomainRequest |-> QueryAllDomainRequest_Size,
   QueryAllDomainResponse |-> QueryAllDomainResponse_Size,
   QueryListPermittedTLDsRequest |-> QueryListPermittedTLDsRequest_Size,
   QueryListPermittedTLDsResponse |-> QueryListPermittedTLDsResponse_Size,
   QueryGetDomainByNameRequest |-> QueryGetDomainByNameRequest_Size,
   QueryGetDomainByNameResponse |-> QueryGetDomainByNameResponse_Size,
   MsgUpdateParams |-> MsgUpdateParams_Size,
   MsgUpdateParamsResponse |-> MsgUpdateParamsResponse_Size,
   MsgCreateDomain |-> MsgCreateDomain_Size,
   MsgCreateDomainResponse |-> MsgCreateDomainResponse_Size,
   MsgUpdateDomain |-> MsgUpdateDomain_Size,
   MsgUpdateDomainResponse |-> MsgUpdateDomainResponse_Size,
   MsgDeleteDomain |-> MsgDeleteDomain_Size,
   MsgDeleteDomainResponse |-> MsgDeleteDomainResponse_Size,
   MsgTransferDomain |-> MsgTransferDomain_Size,
   MsgTransferDomainResponse |-> MsgTransferDomainResponse_Size,
   MsgHeartbeatDomain |-> MsgHeartbeatDomain_Size,
   MsgHeartbeatDomainResponse |-> MsgHeartbeatDomainResponse_Size]
  @@ SdkSizers
Decoders ==
  [NSRecordWithIP |-> NSRecordWithIP_Unmarshal, Domain |-> Domain_Unmarshal,
   GenesisState |-> GenesisState_Unmarshal, Module |-> Module_Unmarshal,
   Params |-> Params_Unmarshal,
   QueryParamsRequest |-> QueryParamsRequest_Unmarshal,
   QueryParamsResponse |-> QueryParamsResponse_Unmarshal,
   QueryGetDomainRequest |-> QueryGetDomainRequest_Unmarshal,
   QueryGetDomainResponse |-> QueryGetDomainResponse_Unmarshal,
   QueryAllDomainRequest |-> QueryAllDomainRequest_Unmarshal,
   QueryAllDomainResponse |-> QueryAllDomainResponse_Unmarshal,
   QueryListPermittedTLDsRequest |-> QueryListPermittedTLDsRequest_Unmarshal,
   QueryListPermittedTLDsResponse |-> QueryListPermittedTLDsResponse_Unmarshal,
   QueryGetDomainByNameRequest |-> QueryGetDomainByNameRequest_Unmarshal,
   QueryGetDomainByNameResponse |-> QueryGetDomainByNameResponse_Unmarshal,
   MsgUpdateParams |-> MsgUpdateParams_Unmarshal,
   MsgUpdateParamsResponse |-> MsgUpdateParamsResponse_Unmarshal,
   MsgCreateDomain |-> MsgCreateDomain_Unmarshal,
   MsgCreateDomainResponse |-> MsgCreateDomainResponse_Unmarshal,
   MsgUpdateDomain |-> MsgUpdateDomain_Unmarshal,
   MsgUpdateDomainResponse |-> MsgUpdateDomainResponse_Unmarshal,
   MsgDeleteDomain |-> MsgDeleteDomain_Unmarshal,
   MsgDeleteDomainResponse |-> MsgDeleteDomainResponse_Unmarshal,
   MsgTransferDomain |-> MsgTransferDomain_Unmarshal,
   MsgTransferDomainResponse |-> MsgTransferDomainResponse_Unmarshal,
   MsgHeartbeatDomain |-> MsgHeartbeatDomain_Unmarshal,
   MsgHeartbeatDomainResponse |-> MsgHeartbeatDomainResponse_Unmarshal]
  @@ SdkDecoders
=============================================================================
