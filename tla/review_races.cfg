SPECIFICATION Spec
CONSTANTS
  Requests = {r1, r2}
  Orders = {o1, o2}
  Products = {p1, p2}
  Rates = {1, 5}
  NoReview = NoReview
  MaxReviews = 3
SYMMETRY Symmetry
INVARIANTS TypeOK RatingCountsReviews OneReviewPerItem LinksMatchReviews
CHECK_DEADLOCK FALSE
