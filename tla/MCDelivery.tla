----------------------------- MODULE MCDelivery -----------------------------
EXTENDS Delivery

MCDests == {<<"ya.ru", 443>>, <<"vk.com", 443>>}
=============================================================================
