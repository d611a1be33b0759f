SPECIFICATION Spec
INVARIANTS TypeOK HeaderFollowsItems PlacedOrdersAddUp CartLosesNothing VariantsStayReferenced ShelvesAreConsistent
  TermsAreFound ReviewsAddUp DiscountsAreFair SalePricesAreFair LedgerPaysOnce
PROPERTIES OffersAreReal ShopKeepsItsWord
CHECK_DEADLOCK FALSE
