------------------------------- MODULE MCFields -------------------------------
(* Instances of FieldSync for TLC: words, edits and maps.                  *)
EXTENDS FieldProperties, TLC

CONSTANTS a, b, BIG, low

MCPlain == [w \in Words |-> IF w = BIG THEN low ELSE w]

(* Maps that a person may save in the wizard. *)
PhoneOfDelivery ==
  [Default EXCEPT !["phone"].oxid = <<"delivery", "oxfon">>,
                  !["phone"].transform = "none"]
CompanyAsText ==
  [Default EXCEPT !["company"].hub = "company"]
NameKeptInShop ==
  [f \in Fields \ {"phone"} |-> IF f = "firstName"
                                THEN [Default[f] EXCEPT !.hub = None]
                                ELSE Default[f]]
SharedProperty ==
  [Default EXCEPT !["firstName"].hub = "salutation",
                  !["oxidId"].hub = "oxid_id"]
NoShopId == [Default EXCEPT !["oxidId"].hub = None]
NoEmail == [Default EXCEPT !["email"].oxid = None]

(* The wizard's suggestion for a shop that sends addresses apart, and none *)
(* of its ids.                                                             *)
OfSample ==
  Suggested({"user"} \X {"oxusername", "oxfname", "oxsal"}
              \cup {"delivery"} \X AddressColumns
              \cup {<<"salutation", "title">>})

MCOffered == {OfSample, PhoneOfDelivery, CompanyAsText, NameKeptInShop, SharedProperty,
              NoShopId, NoEmail}

MCHubEdits ==
  {<<"firstname", <<b>>>>, <<"firstname", Blank>>, <<"phone", <<BIG>>>>,
   <<"address", <<b, BIG>>>>, <<"company", <<b>>>>, <<"salutation", <<b>>>>,
   <<"email", Blank>>}

MCShopEdits ==
  {<<<<"user", "oxfname">>, <<a>>>>, <<<<"user", "oxfname">>, Blank>>,
   <<<<"user", "oxfon">>, <<a>>>>, <<<<"delivery", "oxfon">>, <<BIG>>>>,
   <<<<"user", "oxcompany">>, <<a>>>>, <<<<"user", "oxsal">>, <<a>>>>,
   <<<<"salutation", "title">>, <<b>>>>, <<<<"user", "oxstreet">>, <<a>>>>}

(* A house number, and a company or not. *)
NumberEdits ==
  {<<<<"user", "oxstreet">>, <<a>>>>, <<<<"user", "oxstreetnr">>, <<b>>>>,
   <<<<"user", "oxcompany">>, <<a>>>>}

(* The run `fields` meets the hypothesis of EchoesAreFewHolds; that maps   *)
(* which are saved are complete is EnsuredIsMap.                           *)
ASSUME MCColumns ==
  ShopEdits = MCShopEdits /\ MapsUsed \subseteq Map => SingleColumns
=============================================================================
